---------------------------- MODULE MCAuditTrail ----------------------------
(* A small instance of AuditTrail. *)
EXTENDS AuditTrail, TLC

\* Every worker claims under one owner name, as workers of one deployment do.
SharedOwner == [w \in Workers |-> "dispatcher"]

\* Two records whose events have one id and differ in the time of occurrence.
TwoSources == [id : {"e1"}, tenant : Tenants, content : Contents]
Repeated == CHOOSE f \in [Records -> Sources] :
                \A i, j \in Records : f[i] = f[j] => i = j
=============================================================================
