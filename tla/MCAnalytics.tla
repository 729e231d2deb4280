----------------------------- MODULE MCAnalytics -----------------------------
(* Small instances of Analytics. *)
EXTENDS Analytics, TLC

\* An event, another tenant's under its id, and one of the same group at the
\* boundary of the windows.
SmallEvents ==
    {[id |-> "e1", tenant |-> "t1", group |-> "g", at |-> 1],
     [id |-> "e1", tenant |-> "t2", group |-> "g", at |-> 2],
     [id |-> "e2", tenant |-> "t1", group |-> "g", at |-> 2]}
Adjacent == {[start |-> 0, end |-> 2], [start |-> 2, end |-> 4]}
Symm == Permutations(Callers) \cup Permutations(Keys) \cup Permutations(Requests)
=============================================================================
