---------------------------- MODULE ControlPlane ----------------------------
(***************************************************************************)
(* The control plane (services/platform_control_plane): tenants and their  *)
(* policies, memberships with roles, entitlements, the subject directory,  *)
(* and who may change them.                                                *)
(*                                                                         *)
(* An operation authorizes its actor, reads, and commits in separate       *)
(* steps: calls[c] is the operation that caller c has under way. Only the  *)
(* commit compares a version, the one the caller sent. A unit of work      *)
(* holds every repository lock, so a commit is one step; a refusal, a      *)
(* failure and a crash leave the stores as they were (Abandon), and so     *)
(* does the replay of an idempotency record.                               *)
(***************************************************************************)
EXTENDS Integers, Sequences, FiniteSets

CONSTANTS
    Tenants, Subjects,
    Targets,             \* bound: the subjects whose memberships are managed
    PlatformAdmins,      \* platform_admin_subjects
    TenantOf,            \* the tenant each verified identity is bound to
    Roles, PermissionsOf, \* the role catalog
    Items,               \* products and models
    Keys, Callers,
    Lookahead,           \* how far ahead of the version stored when the
                         \* operation starts its expected version may be
    MaxVersion           \* bound of every version

Permissions == {"tenant.manage", "membership.manage", "role.manage", "entitlement.manage"}

ASSUME ControlPlaneAssumption ==
    /\ Targets \subseteq Subjects /\ PlatformAdmins \subseteq Subjects
    /\ TenantOf \in [Subjects -> Tenants]
    /\ PermissionsOf \in [Roles -> SUBSET Permissions]
    /\ Lookahead \in Nat /\ MaxVersion \in Nat

VARIABLES
    tenants,      \* tenants[t]: [status, version]
    policies,     \* tenants with an initial policy
    memberships,  \* memberships[<<t, s>>]: [status, roles, version]
    entitlements, \* entitlements[t]: the aggregate's version, and that of each item
    directory,    \* the subjects the identity directory knows
    creations,    \* idempotency records of create_tenant
    grants,       \* idempotency records of grant_product and grant_model
    announced,    \* announced[t]: the status-changed events in the outbox
    calls         \* calls[c]: the operation of caller c

stores == <<tenants, policies, memberships, entitlements, creations, grants, announced>>
vars == <<stores, directory, calls>>

TenantStatuses == {"active", "suspended"}
NoTenant == [status |-> "none", version |-> 0]
Tenant == {NoTenant} \cup [status : TenantStatuses, version : Nat \ {0}]

Members == Tenants \X Subjects
NoMembership == [status |-> "none", roles |-> {}, version |-> 0]
Membership ==
    {NoMembership} \cup
    [status : TenantStatuses, roles : SUBSET Roles, version : Nat \ {0}]

\* Version 0 is an aggregate, or an item, that does not exist.
NoEntitlements == [version |-> 0, items |-> [i \in Items |-> 0]]
Entitlements == [version : Nat, items : [Items -> Nat]]

Grant == [t : Tenants, actor : Subjects, key : Keys, item : Items,
          expected : Nat, version : Nat]

\* A call holds its request and, after its read, a snapshot.
Idle == [op |-> "none"]
Operations == {"create", "status", "member", "assign", "revoke", "grant", "withdraw"}
Stages == {"read", "authorized"}

Init ==
    /\ tenants = [t \in Tenants |-> NoTenant]
    /\ policies = {}
    /\ memberships = [m \in Members |-> NoMembership]
    /\ entitlements = [t \in Tenants |-> NoEntitlements]
    /\ directory = Subjects
    /\ creations = {}
    /\ grants = {}
    /\ announced = [t \in Tenants |-> <<>>]
    /\ calls = [c \in Callers |-> Idle]

-----------------------------------------------------------------------------
\* Authorization

\* effective_permissions, of a subject the directory still knows.
Effective(t, s) ==
    IF memberships[<<t, s>>].status = "active" /\ s \in directory
    THEN UNION {PermissionsOf[r] : r \in memberships[<<t, s>>].roles}
    ELSE {}

Platform(s) == s \in PlatformAdmins \cap directory

\* require: nobody administers a suspended tenant.
May(s, t, permission) ==
    /\ tenants[t].status = "active"
    /\ IF s \in PlatformAdmins THEN Platform(s)
                               ELSE TenantOf[s] = t /\ permission \in Effective(t, s)

\* A caller sends the version that is stored when it starts, or one ahead of
\* it; an older one can only be refused. No call starts that would exceed the
\* bound of versions.
Expectable(v) == {version \in v .. v + Lookahead : version < MaxVersion}

Begin(c, call) == calls[c] = Idle /\ calls' = [calls EXCEPT ![c] = call]
Proceed(c, call) == calls' = [calls EXCEPT ![c] = call]
Return(c) == calls' = [calls EXCEPT ![c] = Idle]
At(c, ops, stage) == calls[c] # Idle /\ calls[c].op \in ops /\ calls[c].stage = stage

-----------------------------------------------------------------------------
\* Tenants

CreateAuthorize(c, s, t, key) ==
    /\ Platform(s)
    /\ Begin(c, [op |-> "create", stage |-> "authorized", actor |-> s, t |-> t, key |-> key])
    /\ UNCHANGED <<stores, directory>>

CreateCommit(c) ==
    LET call == calls[c]  t == call.t IN
    /\ At(c, {"create"}, "authorized")
    /\ ~\E r \in creations : r.t = t /\ r.actor = call.actor /\ r.key = call.key
    /\ tenants[t] = NoTenant
    /\ entitlements[t].version = 0
    /\ t \notin policies
    /\ tenants' = [tenants EXCEPT ![t] = [status |-> "active", version |-> 1]]
    /\ entitlements' = [entitlements EXCEPT ![t].version = 1]
    /\ policies' = policies \cup {t}
    /\ creations' = creations \cup {[t |-> t, actor |-> call.actor, key |-> call.key]}
    /\ Return(c)
    /\ UNCHANGED <<memberships, grants, announced, directory>>

StatusRead(c, s, t, status, version) ==
    /\ tenants[t] # NoTenant
    /\ Begin(c, [op |-> "status", stage |-> "read", actor |-> s, t |-> t,
                 status |-> status, version |-> version, snap |-> tenants[t]])
    /\ UNCHANGED <<stores, directory>>

\* Faulty: suspended tenants are administered as others are.
StatusAuthorizeAnyone(c) ==
    LET call == calls[c] IN
    /\ At(c, {"status"}, "read")
    /\ Platform(call.actor) \/ "tenant.manage" \in Effective(call.t, call.actor)
    /\ call.snap.status # call.status
    /\ Proceed(c, [call EXCEPT !.stage = "authorized"])
    /\ UNCHANGED <<stores, directory>>

StatusAuthorize(c) ==
    LET call == calls[c] IN
    /\ At(c, {"status"}, "read")
    /\ IF call.snap.status = "suspended" THEN Platform(call.actor)
                                         ELSE May(call.actor, call.t, "tenant.manage")
    /\ call.snap.status # call.status
    /\ Proceed(c, [call EXCEPT !.stage = "authorized"])
    /\ UNCHANGED <<stores, directory>>

\* Faulty: no version is compared, and only a new status is announced.
StatusCommitQuietly(c) ==
    LET call == calls[c]  t == call.t IN
    /\ At(c, {"status"}, "authorized")
    /\ tenants' = [tenants EXCEPT ![t] = [status |-> call.status, version |-> @.version + 1]]
    /\ announced' = IF tenants[t].status = call.status THEN announced
                    ELSE [announced EXCEPT ![t] = Append(@, call.status)]
    /\ Return(c)
    /\ UNCHANGED <<policies, memberships, entitlements, creations, grants, directory>>

\* The tenant is read again inside the unit of work.
StatusCommit(c) ==
    LET call == calls[c]  t == call.t IN
    /\ At(c, {"status"}, "authorized")
    /\ tenants[t].version = call.version
    /\ tenants' = [tenants EXCEPT ![t] = [status |-> call.status, version |-> @.version + 1]]
    /\ announced' = [announced EXCEPT ![t] = Append(@, call.status)]
    /\ Return(c)
    /\ UNCHANGED <<policies, memberships, entitlements, creations, grants, directory>>

-----------------------------------------------------------------------------
\* Memberships and roles

MemberAuthorize(c, s, m, status, version) ==
    /\ May(s, m[1], "membership.manage")
    /\ Begin(c, [op |-> "member", stage |-> "authorized", actor |-> s, t |-> m[1], m |-> m,
                 status |-> status, version |-> version])
    /\ UNCHANGED <<stores, directory>>

RoleAuthorize(c, s, op, m, role, version) ==
    /\ May(s, m[1], "role.manage")
    /\ Begin(c, [op |-> op, stage |-> "authorized", actor |-> s, t |-> m[1], m |-> m,
                 role |-> role, version |-> version])
    /\ UNCHANGED <<stores, directory>>

\* The membership that assign_role and revoke_role will store, computed from
\* the one they read.
TargetRead(c) ==
    LET call == calls[c]  snap == memberships[call.m]
        After == [status |-> snap.status,
                  roles |-> IF call.op = "assign" THEN snap.roles \cup {call.role}
                                                  ELSE snap.roles \ {call.role},
                  version |-> snap.version + 1]
    IN
    /\ At(c, {"assign", "revoke"}, "authorized")
    /\ snap # NoMembership
    /\ call.m[2] \in directory
    /\ (call.role \in snap.roles) = (call.op = "revoke")
    /\ Proceed(c, [op |-> call.op, stage |-> "read", actor |-> call.actor, t |-> call.t,
                   m |-> call.m, version |-> call.version, after |-> After])
    /\ UNCHANGED <<stores, directory>>

\* The same for put_membership; version zero asks for a new membership.
MemberRead(c) ==
    LET call == calls[c]  snap == memberships[call.m] IN
    /\ At(c, {"member"}, "authorized")
    /\ call.m[2] \in directory
    /\ (call.version = 0) = (snap = NoMembership)
    /\ Proceed(c, [op |-> call.op, stage |-> "read", actor |-> call.actor, t |-> call.t,
                   m |-> call.m, version |-> call.version,
                   after |-> [status |-> call.status, roles |-> snap.roles,
                              version |-> snap.version + 1]])
    /\ UNCHANGED <<stores, directory>>

\* Faulty: the stored version is not compared.
MembershipCommitUnchecked(c) ==
    LET call == calls[c] IN
    /\ At(c, {"member", "assign", "revoke"}, "read")
    /\ memberships' = [memberships EXCEPT ![call.m] = call.after]
    /\ Return(c)
    /\ UNCHANGED <<tenants, policies, entitlements, creations, grants, announced, directory>>

\* create finds no membership; update finds the version its caller sent.
MembershipCommit(c) ==
    LET call == calls[c] IN
    /\ At(c, {"member", "assign", "revoke"}, "read")
    /\ memberships[call.m].version = call.version
    /\ memberships' = [memberships EXCEPT ![call.m] = call.after]
    /\ Return(c)
    /\ UNCHANGED <<tenants, policies, entitlements, creations, grants, announced, directory>>

-----------------------------------------------------------------------------
\* Entitlements. Products and models have the same operations, with scopes and
\* items of their own, and share the aggregate's version.

ItemAuthorize(c, s, op, t, item, key, version) ==
    /\ May(s, t, "entitlement.manage")
    /\ Begin(c, [op |-> op, stage |-> "authorized", actor |-> s, t |-> t, item |-> item,
                 key |-> key, version |-> version])
    /\ UNCHANGED <<stores, directory>>

\* Faulty: the idempotency record of a grant is not looked up.
RecordedNever(call) == FALSE

Recorded(call) ==
    \E g \in grants : g.t = call.t /\ g.actor = call.actor /\ g.key = call.key

GrantCommit(c) ==
    LET call == calls[c]  t == call.t  next == call.version + 1 IN
    /\ At(c, {"grant"}, "authorized")
    /\ ~Recorded(call)
    /\ entitlements[t].version = call.version /\ call.version # 0
    /\ entitlements[t].items[call.item] = 0
    /\ entitlements' = [entitlements EXCEPT ![t].version = next, ![t].items[call.item] = next]
    /\ grants' = grants \cup {[t |-> t, actor |-> call.actor, key |-> call.key,
                               item |-> call.item, expected |-> call.version,
                               version |-> next]}
    /\ Return(c)
    /\ UNCHANGED <<tenants, policies, memberships, creations, announced, directory>>

WithdrawCommit(c) ==
    LET call == calls[c]  t == call.t  next == call.version + 1 IN
    /\ At(c, {"withdraw"}, "authorized")
    /\ entitlements[t].version = call.version /\ call.version # 0
    /\ entitlements[t].items[call.item] # 0
    /\ entitlements' = [entitlements EXCEPT ![t].version = next, ![t].items[call.item] = 0]
    /\ Return(c)
    /\ UNCHANGED <<tenants, policies, memberships, creations, grants, announced, directory>>

-----------------------------------------------------------------------------
Provision(s) ==
    /\ s \notin directory
    /\ directory' = directory \cup {s}
    /\ UNCHANGED <<stores, calls>>

Deprovision(s) ==
    /\ s \in directory
    /\ directory' = directory \ {s}
    /\ UNCHANGED <<stores, calls>>

Abandon(c) ==
    /\ calls[c] # Idle
    /\ Return(c)
    /\ UNCHANGED <<stores, directory>>

Start(c, s) ==
    \E t \in Tenants :
        \/ \E key \in Keys : CreateAuthorize(c, s, t, key)
        \/ \E status \in TenantStatuses, version \in Expectable(tenants[t].version) :
             StatusRead(c, s, t, status, version)
        \/ \E target \in Targets :
             \E version \in Expectable(memberships[<<t, target>>].version) :
               \/ \E status \in TenantStatuses :
                    MemberAuthorize(c, s, <<t, target>>, status, version)
               \/ \E op \in {"assign", "revoke"}, role \in Roles :
                    RoleAuthorize(c, s, op, <<t, target>>, role, version)
        \/ \E op \in {"grant", "withdraw"}, item \in Items, key \in Keys,
              version \in Expectable(entitlements[t].version) :
             ItemAuthorize(c, s, op, t, item, key, version)

Continue(c) ==
    \/ CreateCommit(c)
    \/ StatusAuthorize(c) \/ StatusCommit(c)
    \/ TargetRead(c) \/ MemberRead(c) \/ MembershipCommit(c)
    \/ GrantCommit(c) \/ WithdrawCommit(c)
    \/ Abandon(c)

Next ==
    \/ \E s \in Subjects : Provision(s) \/ Deprovision(s)
    \/ \E c \in Callers : Continue(c) \/ \E s \in Subjects : Start(c, s)

Spec == Init /\ [][Next]_vars

-----------------------------------------------------------------------------
\* The types of the stores and of the calls under way.
TypeOK ==
    /\ tenants \in [Tenants -> Tenant]
    /\ policies \subseteq Tenants
    /\ memberships \in [Members -> Membership]
    /\ entitlements \in [Tenants -> Entitlements]
    /\ directory \subseteq Subjects
    /\ creations \subseteq [t : Tenants, actor : Subjects, key : Keys]
    /\ grants \subseteq Grant
    /\ announced \in [Tenants -> Seq(TenantStatuses)]
    /\ \A c \in Callers : calls[c] # Idle =>
         calls[c].op \in Operations /\ calls[c].stage \in Stages /\ calls[c].actor \in Subjects

\* "Concurrent administrators must not silently overwrite state": a membership
\* moves by one version and one change at a time, although the new membership
\* was computed from a read outside the commit.
NoSilentOverwrite ==
    [][\A m \in Members : LET old == memberships[m]  new == memberships'[m] IN
         new # old =>
            /\ new.version = old.version + 1
            /\ new.status = old.status \/ new.roles = old.roles
            /\ Cardinality((new.roles \ old.roles) \cup (old.roles \ new.roles)) <= 1]_vars

\* Nobody gains permissions by a call of his own: an administrator whose role
\* is revoked, or whose membership is suspended, while his call is under way
\* cannot give either back to himself. Whoever manages roles has every
\* permission, as in the built-in catalog.
NoSelfPromotion ==
    [][\A c \in Callers, t \in Tenants, s \in Subjects \ PlatformAdmins :
         /\ calls[c] # Idle /\ calls'[c] = Idle
         /\ calls[c].actor = s /\ calls[c].t = t
         => Effective(t, s)' \subseteq Effective(t, s)]_vars

\* "Only platform administrators may reactivate it": the status is checked on
\* a read before the unit of work, and the tenant may be suspended in between.
OnlyPlatformReactivates ==
    [][\A t \in Tenants :
         tenants[t].status = "suspended" /\ tenants'[t].status = "active"
         => \E c \in Callers : /\ calls[c] # Idle /\ calls'[c] = Idle
                               /\ calls[c].op = "status" /\ calls[c].t = t
                               /\ calls[c].actor \in PlatformAdmins]_vars

\* A tenant exists with its policy, its entitlement aggregate and one record
\* of its creation, and the outbox tells each change of its status, in order.
TenantsAreWhole ==
    \A t \in Tenants : LET told == announced[t] IN
        /\ tenants[t] = NoTenant <=> t \notin policies
        /\ tenants[t] = NoTenant <=> entitlements[t].version = 0
        /\ Cardinality({r \in creations : r.t = t}) = IF tenants[t] = NoTenant THEN 0 ELSE 1
        /\ tenants[t] # NoTenant =>
             /\ Len(told) = tenants[t].version - 1
             /\ tenants[t].status = IF told = <<>> THEN "active" ELSE told[Len(told)]

\* Each grant has one idempotency record, that names the version it made, and
\* an item that is granted was granted by one of them: a retry after the item
\* was withdrawn does not grant it again.
GrantsAreRecorded ==
    \A t \in Tenants : LET mine == {g \in grants : g.t = t} IN
        /\ \A g, h \in mine :
             g.version = h.version \/ (g.actor = h.actor /\ g.key = h.key) => g = h
        /\ \A g \in mine : g.version = g.expected + 1 /\ g.version <= entitlements[t].version
        /\ \A i \in Items : entitlements[t].items[i] # 0 =>
             \E g \in mine : g.item = i /\ g.version = entitlements[t].items[i]
=============================================================================
