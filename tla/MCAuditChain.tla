---------------------------- MODULE MCAuditChain ----------------------------
(* Small instances of AuditChain. *)
EXTENDS AuditChain, TLC

\* Two events under one id: as a repeated request at another time produces
\* them, they differ in what is recorded.
TwoSources == [id : {"e1"}, tenant : Tenants, content : Contents]
Symm == Permutations(Contents)
=============================================================================
