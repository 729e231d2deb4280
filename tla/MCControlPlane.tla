--------------------------- MODULE MCControlPlane ---------------------------
(* Small instances of ControlPlane. *)
EXTENDS ControlPlane, TLC
Symm == Permutations(Callers) \cup Permutations(Items)
\* All identities are bound to one tenant.
OneTenant == [s \in Subjects |-> CHOOSE t \in Tenants : TRUE]
\* built_in_roles, as far as administration goes.
BuiltIn == [r \in Roles |-> IF r = "tenant-admin" THEN Permissions ELSE {}]
=============================================================================
