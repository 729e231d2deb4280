------------------------------ MODULE MCBilling ------------------------------
(* Small instances of Billing. *)
EXTENDS Billing, TLC

Symm == Permutations(Callers) \cup Permutations(Keys) \cup Permutations(Requests)
=============================================================================
