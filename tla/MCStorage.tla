----------------------------- MODULE MCStorage -----------------------------
(* Small instances of Storage. *)
EXTENDS Storage, TLC
\* All sessions are for one object.
SameObject == [u \in Uploads |-> CHOOSE o \in Objects : TRUE]
Rank == [s \in Sources |-> s]
Symm == Permutations(Uploads)
=============================================================================
