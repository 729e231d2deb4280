------------------------- MODULE ControlPlaneProofs -------------------------
(***************************************************************************)
(* Proofs about ControlPlane, for any tenants, subjects, roles, items and  *)
(* callers and for versions without a bound. What depends on the version   *)
(* that a caller sends is proved for Lookahead = 0: nobody sends a version *)
(* that is not stored yet.                                                 *)
(***************************************************************************)
EXTENDS ControlPlane, FiniteSetTheorems, TLAPS

MembershipOps == {"member", "assign", "revoke"}
Stored == [status : TenantStatuses, roles : SUBSET Roles, version : Nat \ {0}]
StatusCall ==
    [op : {"status"}, stage : Stages, actor : Subjects, t : Tenants,
     status : TenantStatuses, version : Nat, snap : Tenant]

\* What a call carries, by its operation and stage.
Typed(call) ==
    /\ call.op \in Operations /\ call.stage \in Stages
    /\ call.actor \in Subjects /\ call.t \in Tenants
    /\ call.op \in {"create", "grant", "withdraw"} => call.key \in Keys
    /\ call.op \in {"grant", "withdraw"} => call.item \in Items
    /\ call.op # "create" => call.version \in Nat
    /\ call.op = "status" => call \in StatusCall
    /\ call.op = "member" /\ call.stage = "authorized" => call.status \in TenantStatuses
    /\ call.op \in {"assign", "revoke"} /\ call.stage = "authorized" => call.role \in Roles
    /\ call.op \in MembershipOps => call.m \in Members /\ call.m[1] = call.t
    /\ call.op \in MembershipOps /\ call.stage = "read" => call.after \in Stored

Total == calls = [c \in Callers |-> calls[c]]
TypedCalls == \A c \in Callers : calls[c] # Idle => Typed(calls[c])
TypeInv == TypeOK /\ Total /\ TypedCalls

LEMMA ExpectableNat == \A v \in Nat : Expectable(v) \subseteq Nat
BY ControlPlaneAssumption DEF Expectable

LEMMA InitType == Init => TypeInv
BY ControlPlaneAssumption
   DEF Init, TypeInv, TypeOK, Total, TypedCalls, Tenant, NoTenant, Membership, NoMembership,
       Entitlements, NoEntitlements, Idle

LEMMA CallsAre ==
  ASSUME TypeInv, NEW c \in Callers, NEW call, calls' = [calls EXCEPT ![c] = call]
  PROVE  /\ \A d \in Callers : calls'[d] = IF d = c THEN call ELSE calls[d]
         /\ Total'
BY DEF TypeInv, Total

\* A step of a call that leaves the stores as they are.
LEMMA CallType ==
  ASSUME TypeInv, NEW c \in Callers, NEW call, call = Idle \/ Typed(call),
         calls' = [calls EXCEPT ![c] = call], UNCHANGED stores,
         directory' \subseteq Subjects
  PROVE  TypeInv'
<1>1. /\ \A d \in Callers : calls'[d] = IF d = c THEN call ELSE calls[d]
      /\ Total'
  BY CallsAre
<1>2. TypedCalls'
  BY <1>1 DEF TypeInv, TypedCalls, Typed
<1>3. TypeOK'
  BY <1>2 DEF TypeInv, TypeOK, stores, TypedCalls, Typed
<1> QED BY <1>1, <1>2, <1>3 DEF TypeInv

\* The end of a call whose commit keeps the types of the stores.
LEMMA EndType ==
  ASSUME TypeInv, NEW c \in Callers, Return(c), UNCHANGED directory,
         /\ tenants \in [Tenants -> Tenant]
         /\ policies \subseteq Tenants
         /\ memberships \in [Members -> Membership]
         /\ entitlements \in [Tenants -> Entitlements]
         /\ creations \subseteq [t : Tenants, actor : Subjects, key : Keys]
         /\ grants \subseteq Grant
         /\ announced \in [Tenants -> Seq(TenantStatuses)]
         => /\ tenants' \in [Tenants -> Tenant]
            /\ policies' \subseteq Tenants
            /\ memberships' \in [Members -> Membership]
            /\ entitlements' \in [Tenants -> Entitlements]
            /\ creations' \subseteq [t : Tenants, actor : Subjects, key : Keys]
            /\ grants' \subseteq Grant
            /\ announced' \in [Tenants -> Seq(TenantStatuses)]
  PROVE  TypeInv'
<1>1. /\ \A d \in Callers : calls'[d] = IF d = c THEN Idle ELSE calls[d]
      /\ Total'
  BY CallsAre DEF Return
<1>2. TypedCalls'
  BY <1>1 DEF TypeInv, TypedCalls, Typed
<1>3. TypeOK'
  BY <1>2 DEF TypeInv, TypeOK, TypedCalls, Typed
<1> QED BY <1>1, <1>2, <1>3 DEF TypeInv

-----------------------------------------------------------------------------
\* If no caller anticipates a version, a call whose version is still stored has
\* seen what is stored: nothing has been written in between.

OneChange(old, new) ==
    /\ new.version = old.version + 1
    /\ new.status = old.status \/ new.roles = old.roles
    /\ Cardinality((new.roles \ old.roles) \cup (old.roles \ new.roles)) <= 1

StatusCurrent(call) ==
    call.op = "status" =>
        /\ call.version <= tenants[call.t].version
        /\ call.version = tenants[call.t].version => tenants[call.t] = call.snap
        /\ call.stage = "authorized" /\ call.snap.status = "suspended"
           => call.actor \in PlatformAdmins

\* The last part is about administrators who change their own membership.
MemberCurrent(call) ==
    call.op \in MembershipOps =>
        LET stored == memberships[call.m] IN
        /\ call.version <= stored.version
        /\ call.version = stored.version =>
             /\ call.stage = "read" =>
                  /\ OneChange(stored, call.after)
                  /\ call.op = "member" => call.after.roles = stored.roles
             /\ call.actor = call.m[2] /\ call.actor \notin PlatformAdmins =>
                  /\ stored.status = "active"
                  /\ call.op # "member" => \E r \in stored.roles : "role.manage" \in PermissionsOf[r]

\* A tenant whose status is to change exists.
Known(call) == call.op = "status" => tenants[call.t] # NoTenant
KnownCalls == \A c \in Callers : calls[c] # Idle => Known(calls[c])

Current(call) == StatusCurrent(call) /\ MemberCurrent(call)
CallsCurrent == \A c \in Callers : calls[c] # Idle => Current(calls[c])

\* A tenant's stores, its creation and its events.
Whole(t) ==
    /\ tenants[t] = NoTenant <=> t \notin policies
    /\ tenants[t] = NoTenant <=> entitlements[t].version = 0
    /\ IF tenants[t] = NoTenant
       THEN announced[t] = <<>> /\ {r \in creations : r.t = t} = {}
       ELSE /\ \E r \in creations : {q \in creations : q.t = t} = {r}
            /\ Len(announced[t]) = tenants[t].version - 1
            /\ tenants[t].status = IF announced[t] = <<>> THEN "active"
                                   ELSE announced[t][Len(announced[t])]

IInv ==
    /\ TypeInv /\ KnownCalls
    /\ Lookahead = 0 => CallsCurrent
    /\ \A t \in Tenants : Whole(t)
    /\ GrantsAreRecorded

\* What a new or an advanced call must be for the invariant.
Sound(call) == Typed(call) /\ Known(call) /\ (Lookahead = 0 => Current(call))

LEMMA ExpectedNow ==
  ASSUME Lookahead = 0, NEW v \in Nat, NEW version \in Expectable(v)
  PROVE  version = v
BY DEF Expectable

LEMMA CreateAuthorizeStep ==
  ASSUME IInv, NEW c \in Callers, NEW s \in Subjects, NEW t \in Tenants, NEW key \in Keys,
         CreateAuthorize(c, s, t, key)
  PROVE  \E call : calls' = [calls EXCEPT ![c] = call] /\ Sound(call)
<1> DEFINE call == [op |-> "create", stage |-> "authorized", actor |-> s, t |-> t, key |-> key]
<1>1. Sound(call)
  BY DEF Sound, Typed, Known, Operations, Stages, MembershipOps,
         Current, StatusCurrent, MemberCurrent
<1>2. calls' = [calls EXCEPT ![c] = call]
  BY DEF CreateAuthorize, Begin
<1> QED BY <1>1, <1>2

LEMMA StatusReadStep ==
  ASSUME IInv, NEW c \in Callers, NEW s \in Subjects, NEW t \in Tenants,
         NEW status \in TenantStatuses, NEW version \in Expectable(tenants[t].version),
         StatusRead(c, s, t, status, version)
  PROVE  \E call : calls' = [calls EXCEPT ![c] = call] /\ Sound(call)
<1> DEFINE call == [op |-> "status", stage |-> "read", actor |-> s, t |-> t,
                    status |-> status, version |-> version, snap |-> tenants[t]]
<1>1. tenants[t] \in Tenant /\ tenants[t].version \in Nat
  BY DEF IInv, TypeInv, TypeOK, Tenant, NoTenant
<1>2. version \in Nat /\ (Lookahead = 0 => version = tenants[t].version)
  BY <1>1, ExpectableNat, ExpectedNow
<1>3. Typed(call)
  BY <1>1, <1>2 DEF Typed, StatusCall, Operations, Stages, MembershipOps
<1>4. ASSUME Lookahead = 0 PROVE Current(call)
  BY <1>1, <1>2, <1>4 DEF Current, StatusCurrent, MemberCurrent, MembershipOps, StatusRead
<1>5. calls' = [calls EXCEPT ![c] = call]
  BY DEF StatusRead, Begin
<1>6. Known(call)
  BY DEF StatusRead, Known
<1> QED BY <1>3, <1>4, <1>5, <1>6 DEF Sound

LEMMA StatusAuthorizeStep ==
  ASSUME IInv, NEW c \in Callers, StatusAuthorize(c)
  PROVE  \E call : calls' = [calls EXCEPT ![c] = call] /\ Sound(call)
<1> DEFINE old == calls[c]  call == [old EXCEPT !.stage = "authorized"]
<1>1. /\ old # Idle /\ old.op = "status" /\ old.stage = "read"
      /\ old.snap.status = "suspended" => old.actor \in PlatformAdmins
      /\ calls' = [calls EXCEPT ![c] = call]
  BY DEF StatusAuthorize, At, Platform, Proceed
<1>2. Typed(old) /\ (Lookahead = 0 => Current(old))
  BY <1>1 DEF IInv, TypeInv, TypedCalls, CallsCurrent
<1>3. old \in StatusCall
  BY <1>1, <1>2 DEF Typed
<1>4. /\ call \in StatusCall /\ call.stage = "authorized"
      /\ call.actor = old.actor /\ call.t = old.t /\ call.version = old.version
      /\ call.snap = old.snap /\ call.op = "status"
  BY <1>3 DEF StatusCall, Stages
<1> HIDE DEF call
<1>5. Typed(call)
  BY <1>4 DEF Typed, StatusCall, Operations, MembershipOps
<1>6. ASSUME Lookahead = 0 PROVE Current(call)
  BY <1>1, <1>2, <1>4, <1>6 DEF Current, StatusCurrent, MemberCurrent, MembershipOps
<1>7. Known(call)
  BY <1>1, <1>4 DEF IInv, KnownCalls, Known
<1> QED BY <1>1, <1>5, <1>6, <1>7 DEF Sound

\* Who manages memberships, or roles, without being a platform administrator,
\* does so by the roles of his own membership.
LEMMA AuthorizedByRole ==
  ASSUME NEW s \in Subjects, NEW m \in Members, NEW permission,
         May(s, m[1], permission), s = m[2], s \notin PlatformAdmins
  PROVE  /\ memberships[m].status = "active"
         /\ \E r \in memberships[m].roles : permission \in PermissionsOf[r]
<1>1. m = <<m[1], s>>
  BY DEF Members
<1>2. permission \in Effective(m[1], s)
  BY DEF May
<1> QED BY <1>1, <1>2 DEF Effective

LEMMA MemberAuthorizeStep ==
  ASSUME IInv, NEW c \in Callers, NEW s \in Subjects, NEW m \in Members,
         NEW status \in TenantStatuses, NEW version \in Expectable(memberships[m].version),
         MemberAuthorize(c, s, m, status, version)
  PROVE  \E call : calls' = [calls EXCEPT ![c] = call] /\ Sound(call)
<1> DEFINE call == [op |-> "member", stage |-> "authorized", actor |-> s, t |-> m[1], m |-> m,
                    status |-> status, version |-> version]
<1>1. memberships[m].version \in Nat
  BY DEF IInv, TypeInv, TypeOK, Membership, NoMembership
<1>2. version \in Nat /\ (Lookahead = 0 => version = memberships[m].version)
  BY <1>1, ExpectableNat, ExpectedNow
<1>3. Typed(call)
  BY <1>2 DEF Typed, Operations, Stages, MembershipOps, Members
<1>4. ASSUME Lookahead = 0 PROVE Current(call)
  <2>1. s = m[2] /\ s \notin PlatformAdmins => memberships[m].status = "active"
    BY AuthorizedByRole DEF MemberAuthorize
  <2> QED BY <1>1, <1>2, <1>4, <2>1 DEF Current, StatusCurrent, MemberCurrent
<1>5. calls' = [calls EXCEPT ![c] = call]
  BY DEF MemberAuthorize, Begin
<1> QED BY <1>3, <1>4, <1>5 DEF Sound, Known

LEMMA RoleAuthorizeStep ==
  ASSUME IInv, NEW c \in Callers, NEW s \in Subjects, NEW op \in {"assign", "revoke"},
         NEW m \in Members, NEW role \in Roles,
         NEW version \in Expectable(memberships[m].version),
         RoleAuthorize(c, s, op, m, role, version)
  PROVE  \E call : calls' = [calls EXCEPT ![c] = call] /\ Sound(call)
<1> DEFINE call == [op |-> op, stage |-> "authorized", actor |-> s, t |-> m[1], m |-> m,
                    role |-> role, version |-> version]
<1>1. memberships[m].version \in Nat
  BY DEF IInv, TypeInv, TypeOK, Membership, NoMembership
<1>2. version \in Nat /\ (Lookahead = 0 => version = memberships[m].version)
  BY <1>1, ExpectableNat, ExpectedNow
<1>3. Typed(call)
  BY <1>2 DEF Typed, Operations, Stages, MembershipOps, Members
<1>4. ASSUME Lookahead = 0 PROVE Current(call)
  <2>1. s = m[2] /\ s \notin PlatformAdmins =>
          /\ memberships[m].status = "active"
          /\ \E r \in memberships[m].roles : "role.manage" \in PermissionsOf[r]
    BY AuthorizedByRole DEF RoleAuthorize
  <2> QED BY <1>1, <1>2, <1>4, <2>1 DEF Current, StatusCurrent, MemberCurrent
<1>5. calls' = [calls EXCEPT ![c] = call]
  BY DEF RoleAuthorize, Begin
<1> QED BY <1>3, <1>4, <1>5 DEF Sound, Known

LEMMA ItemAuthorizeStep ==
  ASSUME IInv, NEW c \in Callers, NEW s \in Subjects, NEW op \in {"grant", "withdraw"},
         NEW t \in Tenants, NEW item \in Items, NEW key \in Keys,
         NEW version \in Expectable(entitlements[t].version),
         ItemAuthorize(c, s, op, t, item, key, version)
  PROVE  \E call : calls' = [calls EXCEPT ![c] = call] /\ Sound(call)
<1> DEFINE call == [op |-> op, stage |-> "authorized", actor |-> s, t |-> t, item |-> item,
                    key |-> key, version |-> version]
<1>1. version \in Nat
  BY ExpectableNat DEF IInv, TypeInv, TypeOK, Entitlements
<1>2. Sound(call)
  BY <1>1 DEF Sound, Typed, Known, Operations, Stages, MembershipOps,
              Current, StatusCurrent, MemberCurrent
<1>3. calls' = [calls EXCEPT ![c] = call]
  BY DEF ItemAuthorize, Begin
<1> QED BY <1>2, <1>3

\* The membership that assign_role and revoke_role compute is one change on.
LEMMA TargetReadStep ==
  ASSUME IInv, NEW c \in Callers, TargetRead(c)
  PROVE  \E call : calls' = [calls EXCEPT ![c] = call] /\ Sound(call)
<1> DEFINE old == calls[c]  snap == memberships[old.m]
           after == [status |-> snap.status,
                     roles |-> IF old.op = "assign" THEN snap.roles \cup {old.role}
                                                    ELSE snap.roles \ {old.role},
                     version |-> snap.version + 1]
           call == [op |-> old.op, stage |-> "read", actor |-> old.actor, t |-> old.t,
                    m |-> old.m, version |-> old.version, after |-> after]
<1>1. /\ old # Idle /\ old.op \in {"assign", "revoke"} /\ old.stage = "authorized"
      /\ snap # NoMembership
      /\ (old.role \in snap.roles) = (old.op = "revoke")
      /\ calls' = [calls EXCEPT ![c] = call]
  BY DEF TargetRead, At, Proceed
<1>2. Typed(old) /\ (Lookahead = 0 => Current(old))
  BY <1>1 DEF IInv, TypeInv, TypedCalls, CallsCurrent
<1>3. /\ old.m \in Members /\ old.role \in Roles /\ old.version \in Nat
      /\ snap \in Stored
  BY <1>1, <1>2 DEF Typed, MembershipOps, IInv, TypeInv, TypeOK, Membership, Stored
<1>4. after \in Stored
  BY <1>3 DEF Stored
<1>5. OneChange(snap, after)
  <2>1. (after.roles \ snap.roles) \cup (snap.roles \ after.roles) = {old.role}
    BY <1>1
  <2>2. after.version = snap.version + 1 /\ after.status = snap.status
    OBVIOUS
  <2>3. Cardinality({old.role}) = 1
    BY FS_Singleton
  <2> HIDE DEF after, old, snap
  <2> QED BY <2>1, <2>2, <2>3 DEF OneChange
<1>6. Typed(call)
  BY <1>1, <1>2, <1>4 DEF Typed, Operations, Stages, MembershipOps
<1>7. ASSUME Lookahead = 0 PROVE Current(call)
  <2> HIDE DEF after
  <2> QED BY <1>1, <1>2, <1>5, <1>7 DEF Current, StatusCurrent, MemberCurrent, MembershipOps
<1> QED BY <1>1, <1>6, <1>7 DEF Sound, Known

LEMMA MemberReadStep ==
  ASSUME IInv, NEW c \in Callers, MemberRead(c)
  PROVE  \E call : calls' = [calls EXCEPT ![c] = call] /\ Sound(call)
<1> DEFINE old == calls[c]  snap == memberships[old.m]
           after == [status |-> old.status, roles |-> snap.roles, version |-> snap.version + 1]
           call == [op |-> old.op, stage |-> "read", actor |-> old.actor, t |-> old.t,
                    m |-> old.m, version |-> old.version, after |-> after]
<1>1. /\ old # Idle /\ old.op = "member" /\ old.stage = "authorized"
      /\ calls' = [calls EXCEPT ![c] = call]
  BY DEF MemberRead, At, Proceed
<1>2. Typed(old) /\ (Lookahead = 0 => Current(old))
  BY <1>1 DEF IInv, TypeInv, TypedCalls, CallsCurrent
<1>3. /\ old.m \in Members /\ old.status \in TenantStatuses /\ old.version \in Nat
      /\ snap \in Membership
  BY <1>1, <1>2 DEF Typed, MembershipOps, IInv, TypeInv, TypeOK
<1>4. after \in Stored
  BY <1>3 DEF Stored, Membership, NoMembership
<1>5. OneChange(snap, after)
  <2>1. (after.roles \ snap.roles) \cup (snap.roles \ after.roles) = {}
    OBVIOUS
  <2>2. after.version = snap.version + 1 /\ after.roles = snap.roles
    OBVIOUS
  <2> HIDE DEF after
  <2> QED BY <2>1, <2>2, FS_EmptySet DEF OneChange
<1>6. Typed(call)
  BY <1>1, <1>2, <1>4 DEF Typed, Operations, Stages, MembershipOps
<1>7. ASSUME Lookahead = 0 PROVE Current(call)
  <2>1. after.roles = snap.roles
    OBVIOUS
  <2> HIDE DEF after
  <2> QED BY <1>1, <1>2, <1>5, <1>7, <2>1
          DEF Current, StatusCurrent, MemberCurrent, MembershipOps
<1> QED BY <1>1, <1>6, <1>7 DEF Sound, Known

\* A step that starts, advances or ends a call and leaves the stores alone.
LEMMA CallStep ==
  ASSUME IInv, NEW c \in Callers, NEW call, call = Idle \/ Sound(call),
         calls' = [calls EXCEPT ![c] = call], UNCHANGED <<stores, directory>>
  PROVE  IInv'
<1>1. TypeInv'
  BY CallType DEF IInv, TypeInv, TypeOK, Sound
<1>2. \A d \in Callers : calls'[d] = IF d = c THEN call ELSE calls[d]
  BY CallsAre DEF IInv
<1>3. ASSUME Lookahead = 0 PROVE CallsCurrent'
  <2>1. ASSUME NEW d \in Callers, calls'[d] # Idle PROVE Current(calls'[d])
    BY <1>2, <1>3, <2>1 DEF IInv, CallsCurrent, Sound
  <2> QED
    BY <2>1 DEF CallsCurrent, Current, StatusCurrent, MemberCurrent, stores
<1>5. KnownCalls'
  BY <1>2 DEF IInv, KnownCalls, Known, Sound, stores
<1>4. (\A t \in Tenants : Whole(t))' /\ GrantsAreRecorded'
  BY DEF IInv, Whole, GrantsAreRecorded, stores
<1> QED BY <1>1, <1>3, <1>4, <1>5 DEF IInv

\* What each step is: a commit, or a step of a call or of the directory.
LEMMA Steps ==
  ASSUME IInv, Next
  PROVE  \/ \E c \in Callers : \E call :
              /\ calls' = [calls EXCEPT ![c] = call] /\ (call = Idle \/ Sound(call))
              /\ UNCHANGED <<stores, directory>>
         \/ \E c \in Callers : CreateCommit(c) \/ StatusCommit(c) \/ MembershipCommit(c)
                               \/ GrantCommit(c) \/ WithdrawCommit(c)
         \/ \E s \in Subjects : Provision(s) \/ Deprovision(s)
<1> DEFINE CallMoves == \E c \in Callers : \E call :
              /\ calls' = [calls EXCEPT ![c] = call] /\ (call = Idle \/ Sound(call))
              /\ UNCHANGED <<stores, directory>>
<1>1. ASSUME NEW c \in Callers, NEW s \in Subjects, Start(c, s) PROVE CallMoves
  <2>1. PICK t \in Tenants :
        \/ \E key \in Keys : CreateAuthorize(c, s, t, key)
        \/ \E status \in TenantStatuses, version \in Expectable(tenants[t].version) :
             StatusRead(c, s, t, status, version)
        \/ \E target \in Targets :
             \E version \in Expectable(memberships[<<t, target>>].version) :
               \/ \E status \in TenantStatuses :
                    MemberAuthorize(c, s, <<t, target>>, status, version)
               \/ \E op \in {"assign", "revoke"}, role \in Roles :
                    RoleAuthorize(c, s, op, <<t, target>>, role, version)
        \/ \E op \in {"grant", "withdraw"}, item \in Items, key \in Keys,
              version \in Expectable(entitlements[t].version) :
             ItemAuthorize(c, s, op, t, item, key, version)
    BY <1>1 DEF Start
  <2>2. CASE \E key \in Keys : CreateAuthorize(c, s, t, key)
    BY <2>2, CreateAuthorizeStep DEF CreateAuthorize
  <2>3. CASE \E status \in TenantStatuses, version \in Expectable(tenants[t].version) :
               StatusRead(c, s, t, status, version)
    BY <2>3, StatusReadStep DEF StatusRead
  <2>4. ASSUME NEW target \in Targets,
               NEW version \in Expectable(memberships[<<t, target>>].version),
               NEW status \in TenantStatuses,
               MemberAuthorize(c, s, <<t, target>>, status, version)
        PROVE  CallMoves
    <3>1. <<t, target>> \in Members
      BY ControlPlaneAssumption DEF Members
    <3> QED BY <2>4, <3>1, MemberAuthorizeStep DEF MemberAuthorize
  <2>5. ASSUME NEW target \in Targets,
               NEW version \in Expectable(memberships[<<t, target>>].version),
               NEW op \in {"assign", "revoke"}, NEW role \in Roles,
               RoleAuthorize(c, s, op, <<t, target>>, role, version)
        PROVE  CallMoves
    <3>1. <<t, target>> \in Members
      BY ControlPlaneAssumption DEF Members
    <3> QED BY <2>5, <3>1, RoleAuthorizeStep DEF RoleAuthorize
  <2>6. CASE \E op \in {"grant", "withdraw"}, item \in Items, key \in Keys,
                version \in Expectable(entitlements[t].version) :
               ItemAuthorize(c, s, op, t, item, key, version)
    BY <2>6, ItemAuthorizeStep DEF ItemAuthorize
  <2> QED BY <2>1, <2>2, <2>3, <2>4, <2>5, <2>6
<1>2. ASSUME NEW c \in Callers, StatusAuthorize(c) PROVE CallMoves
  BY <1>2, StatusAuthorizeStep DEF StatusAuthorize
<1>3. ASSUME NEW c \in Callers, TargetRead(c) PROVE CallMoves
  BY <1>3, TargetReadStep DEF TargetRead
<1>4. ASSUME NEW c \in Callers, MemberRead(c) PROVE CallMoves
  BY <1>4, MemberReadStep DEF MemberRead
<1>5. ASSUME NEW c \in Callers, Abandon(c) PROVE CallMoves
  BY <1>5 DEF Abandon, Return
<1> HIDE DEF CallMoves
<1>6. CallMoves \/ (\E c \in Callers : CreateCommit(c) \/ StatusCommit(c) \/ MembershipCommit(c)
                                       \/ GrantCommit(c) \/ WithdrawCommit(c))
                \/ (\E s \in Subjects : Provision(s) \/ Deprovision(s))
  BY <1>1, <1>2, <1>3, <1>4, <1>5 DEF Next, Continue
<1> QED BY <1>6 DEF CallMoves

-----------------------------------------------------------------------------
\* The commits. What ends a call leaves the other calls current if every
\* aggregate it writes is one version on.

LEMMA EndCurrent ==
  ASSUME IInv, NEW c \in Callers, Return(c),
         \A t \in Tenants : tenants'[t] = tenants[t] \/ tenants[t] = NoTenant
                            \/ tenants'[t].version = tenants[t].version + 1,
         \A t \in Tenants : tenants[t] # NoTenant => tenants'[t] # NoTenant,
         \A m \in Members : memberships'[m] = memberships[m]
                            \/ memberships'[m].version = memberships[m].version + 1
  PROVE  KnownCalls' /\ (Lookahead = 0 => CallsCurrent')
<1>0. TypeInv /\ calls' = [calls EXCEPT ![c] = Idle]
  BY DEF IInv, Return
<1>1. \A d \in Callers : calls'[d] = IF d = c THEN Idle ELSE calls[d]
  BY <1>0 DEF TypeInv, Total
<1>2. /\ \A t \in Tenants : tenants[t].version \in Nat
      /\ \A m \in Members : memberships[m].version \in Nat
  BY DEF IInv, TypeInv, TypeOK, Tenant, NoTenant, Membership, NoMembership
<1>3. ASSUME NEW d \in Callers, calls'[d] # Idle
      PROVE  /\ calls'[d] = calls[d] /\ Typed(calls[d]) /\ Known(calls[d])
             /\ Lookahead = 0 => StatusCurrent(calls[d]) /\ MemberCurrent(calls[d])
  BY <1>1, <1>3 DEF IInv, TypeInv, TypedCalls, CallsCurrent, Current, KnownCalls
<1>6. KnownCalls'
  BY <1>3 DEF KnownCalls, Known, Typed
<1>4. ASSUME Lookahead = 0, NEW d \in Callers, calls'[d] # Idle PROVE StatusCurrent(calls[d])'
  <2>1. calls[d].op = "status" =>
          calls[d].t \in Tenants /\ calls[d].version \in Nat
    BY <1>3, <1>4 DEF Typed
  <2> QED BY <1>2, <1>3, <1>4, <2>1 DEF StatusCurrent, Known
<1>5. ASSUME Lookahead = 0, NEW d \in Callers, calls'[d] # Idle PROVE MemberCurrent(calls[d])'
  <2>1. calls[d].op \in MembershipOps =>
          calls[d].m \in Members /\ calls[d].version \in Nat
    BY <1>3, <1>5 DEF Typed, MembershipOps
  <2>2. CASE calls[d].op \notin MembershipOps
    BY <1>3, <1>5, <2>2 DEF MemberCurrent
  <2>3. CASE calls[d].op \in MembershipOps
    <3> DEFINE m == calls[d].m
    <3>1. CASE memberships'[m] = memberships[m]
      BY <1>3, <1>5, <2>3, <3>1 DEF MemberCurrent
    <3>2. CASE memberships'[m].version = memberships[m].version + 1
      <4>1. /\ calls[d].version <= memberships'[m].version
            /\ calls[d].version # memberships'[m].version
        BY <1>2, <1>3, <1>5, <2>1, <2>3, <3>2 DEF MemberCurrent
      <4> QED BY <1>3, <1>5, <4>1 DEF MemberCurrent
    <3> QED BY <2>1, <2>3, <3>1, <3>2
  <2> QED BY <2>2, <2>3
<1> QED BY <1>4, <1>5, <1>6 DEF CallsCurrent, Current

LEMMA KnownKept ==
  ASSUME IInv, NEW c \in Callers, Return(c), UNCHANGED tenants
  PROVE  KnownCalls'
<1>1. \A d \in Callers : calls'[d] = IF d = c THEN Idle ELSE calls[d]
  BY DEF IInv, TypeInv, Total, Return
<1> QED BY <1>1 DEF IInv, KnownCalls, Known

LEMMA CreateCommitStep ==
  ASSUME IInv, NEW c \in Callers, CreateCommit(c)
  PROVE  IInv'
<1> DEFINE call == calls[c]  t == call.t  actor == call.actor  key == call.key
           creation == [t |-> t, actor |-> actor, key |-> key]
<1>1. Typed(call) /\ call.op = "create"
  BY DEF CreateCommit, At, IInv, TypeInv, TypedCalls
<1>2. t \in Tenants /\ actor \in Subjects /\ key \in Keys
  BY <1>1 DEF Typed
<1>3. /\ tenants[t] = NoTenant /\ entitlements[t].version = 0
      /\ tenants' = [tenants EXCEPT ![t] = [status |-> "active", version |-> 1]]
      /\ entitlements' = [entitlements EXCEPT ![t].version = 1]
      /\ policies' = policies \cup {t}
      /\ creations' = creations \cup {creation}
      /\ Return(c)
      /\ UNCHANGED <<memberships, grants, announced, directory>>
  BY DEF CreateCommit
<1>4. /\ tenants \in [Tenants -> Tenant] /\ policies \subseteq Tenants
      /\ entitlements \in [Tenants -> Entitlements]
      /\ creations \subseteq [t : Tenants, actor : Subjects, key : Keys]
  BY DEF IInv, TypeInv, TypeOK
<1> HIDE DEF call, t, actor, key
<1>5. TypeInv'
  <2>0. [status |-> "active", version |-> 1] \in Tenant
    BY DEF Tenant, TenantStatuses
  <2>1. tenants' \in [Tenants -> Tenant]
    BY <1>3, <1>4, <2>0
  <2>2. entitlements' \in [Tenants -> Entitlements]
    BY <1>2, <1>3, <1>4 DEF Entitlements
  <2>3. creations' \subseteq [t : Tenants, actor : Subjects, key : Keys]
    BY <1>2, <1>3, <1>4
  <2>4. policies' \subseteq Tenants
    BY <1>2, <1>3, <1>4
  <2> QED BY <1>3, <2>1, <2>2, <2>3, <2>4, EndType DEF IInv
<1>6. \A u \in Tenants : tenants'[u] = IF u = t THEN [status |-> "active", version |-> 1]
                                                ELSE tenants[u]
  BY <1>3, <1>4
<1>7. [status |-> "active", version |-> 1] # NoTenant
  BY DEF NoTenant
<1>8. KnownCalls' /\ (Lookahead = 0 => CallsCurrent')
  BY <1>3, <1>6, <1>7, EndCurrent
<1>9. \A u \in Tenants :
        entitlements'[u].version = IF u = t THEN 1 ELSE entitlements[u].version
  BY <1>3, <1>4 DEF Entitlements
<1>10. ASSUME NEW u \in Tenants PROVE Whole(u)'
  <2>1. Whole(u)
    BY DEF IInv
  <2>2. CASE u # t
    <3>1. {r \in creations' : r.t = u} = {r \in creations : r.t = u}
      BY <1>3, <2>2
    <3> QED BY <1>3, <1>6, <1>9, <2>1, <2>2, <3>1 DEF Whole
  <2>3. CASE u = t
    <3>1. announced[t] = <<>> /\ {r \in creations : r.t = t} = {}
      BY <1>3, <2>1, <2>3 DEF Whole
    <3>2. {r \in creations' : r.t = t} = {creation} /\ creation \in creations'
      BY <1>3, <3>1
    <3>3. /\ tenants'[t] # NoTenant /\ tenants'[t].version = 1 /\ tenants'[t].status = "active"
          /\ t \in policies' /\ entitlements'[t].version = 1
          /\ announced'[t] = <<>> /\ Len(announced'[t]) = 0
      BY <1>2, <1>3, <1>6, <1>7, <1>9, <3>1
    <3> HIDE DEF creation
    <3> QED BY <2>3, <3>2, <3>3 DEF Whole
  <2> QED BY <2>2, <2>3
<1>11. GrantsAreRecorded'
  <2>1. \A u \in Tenants : /\ entitlements'[u].items = entitlements[u].items
                           /\ entitlements'[u].version \in Nat
                           /\ entitlements[u].version \in Nat
                           /\ entitlements[u].version <= entitlements'[u].version
    BY <1>2, <1>3, <1>4 DEF Entitlements
  <2>2. \A g \in grants : g.version \in Nat
    BY DEF IInv, TypeInv, TypeOK, Grant
  <2> QED BY <1>3, <2>1, <2>2 DEF IInv, GrantsAreRecorded
<1> QED BY <1>5, <1>8, <1>10, <1>11 DEF IInv

LEMMA StatusCommitStep ==
  ASSUME IInv, NEW c \in Callers, StatusCommit(c)
  PROVE  IInv'
<1> DEFINE call == calls[c]  t == call.t  status == call.status
           tenant == [status |-> status, version |-> tenants[t].version + 1]
<1>1. call.op = "status" /\ call \in StatusCall
  BY DEF StatusCommit, At, IInv, TypeInv, TypedCalls, Typed
<1>2. t \in Tenants /\ status \in TenantStatuses
  BY <1>1 DEF StatusCall
<1>3. /\ tenants[t].version = call.version
      /\ tenants' = [tenants EXCEPT ![t] = tenant]
      /\ announced' = [announced EXCEPT ![t] = Append(@, status)]
      /\ Return(c)
      /\ UNCHANGED <<policies, memberships, entitlements, creations, grants, directory>>
  BY DEF StatusCommit
<1>4. /\ tenants \in [Tenants -> Tenant] /\ announced \in [Tenants -> Seq(TenantStatuses)]
      /\ tenants[t] \in Tenant /\ tenants[t].version \in Nat
  BY <1>2 DEF IInv, TypeInv, TypeOK, Tenant, NoTenant
<1>5. tenant \in Tenant /\ tenant # NoTenant /\ tenant.status = status
      /\ tenant.version = tenants[t].version + 1
  BY <1>2, <1>4 DEF Tenant, NoTenant
<1> HIDE DEF call, t, status, tenant
<1>6. \A u \in Tenants : tenants'[u] = IF u = t THEN tenant ELSE tenants[u]
  BY <1>3, <1>4
<1>7. TypeInv'
  <2>1. tenants' \in [Tenants -> Tenant] /\ announced' \in [Tenants -> Seq(TenantStatuses)]
    BY <1>2, <1>3, <1>4, <1>5
  <2> QED BY <1>3, <2>1, EndType DEF IInv
<1>8. KnownCalls' /\ (Lookahead = 0 => CallsCurrent')
  BY <1>3, <1>5, <1>6, EndCurrent
<1>9. ASSUME NEW u \in Tenants PROVE Whole(u)'
  <2>1. Whole(u)
    BY DEF IInv
  <2>2. CASE u # t
    BY <1>3, <1>4, <1>6, <2>1, <2>2 DEF Whole
  <2>3. CASE u = t
    <3> DEFINE told == announced[t]
    <3>1. /\ tenants[t] # NoTenant /\ Len(told) = tenants[t].version - 1
          /\ \E r \in creations : {q \in creations : q.t = t} = {r}
      BY <2>1, <2>3, <1>1 DEF Whole, IInv, KnownCalls, Known, call, t, Idle
    <3>2. /\ told \in Seq(TenantStatuses) /\ announced'[t] = Append(told, status)
      BY <1>2, <1>3, <1>4
    <3>3. /\ Len(announced'[t]) = Len(told) + 1 /\ announced'[t] # <<>>
          /\ announced'[t][Len(announced'[t])] = status
      BY <1>2, <3>2
    <3>4. tenants'[t] = tenant /\ tenant # NoTenant
      BY <1>2, <1>5, <1>6
    <3>5. Len(announced'[t]) = tenants'[t].version - 1
      BY <1>4, <1>5, <3>1, <3>3, <3>4
    <3> HIDE DEF told
    <3> QED BY <1>3, <1>5, <2>1, <2>3, <3>1, <3>3, <3>4, <3>5 DEF Whole
  <2> QED BY <2>2, <2>3
<1>10. GrantsAreRecorded'
  BY <1>3 DEF IInv, GrantsAreRecorded
<1> QED BY <1>7, <1>8, <1>9, <1>10 DEF IInv

LEMMA MembershipCommitStep ==
  ASSUME IInv, NEW c \in Callers, MembershipCommit(c)
  PROVE  IInv' /\ (Lookahead = 0 => OneChange(memberships[calls[c].m], calls[c].after))
<1> DEFINE call == calls[c]  m == call.m
<1>1. call.op \in MembershipOps /\ call.stage = "read" /\ call # Idle
  BY DEF MembershipCommit, At, MembershipOps
<1>2. m \in Members /\ call.after \in Stored /\ (Lookahead = 0 => MemberCurrent(call))
  BY <1>1 DEF IInv, TypeInv, TypedCalls, Typed, CallsCurrent, Current
<1>3. /\ memberships[m].version = call.version
      /\ memberships' = [memberships EXCEPT ![m] = call.after]
      /\ Return(c)
      /\ UNCHANGED <<tenants, policies, entitlements, creations, grants, announced, directory>>
  BY DEF MembershipCommit
<1>4. Lookahead = 0 => OneChange(memberships[m], call.after)
  BY <1>1, <1>2, <1>3 DEF MemberCurrent
<1>5. memberships \in [Members -> Membership]
  BY DEF IInv, TypeInv, TypeOK
<1>6. TypeInv'
  <2>1. call.after \in Membership
    BY <1>2 DEF Stored, Membership
  <2>2. memberships' \in [Members -> Membership]
    BY <1>3, <1>5, <2>1
  <2> QED BY <1>3, <2>2, EndType DEF IInv
\* Without the bound on what callers send, a stale membership could be stored.
<1>7. KnownCalls' /\ (Lookahead = 0 => CallsCurrent')
  <2>1. KnownCalls'
    BY <1>3, KnownKept
  <2>2. ASSUME Lookahead = 0, NEW n \in Members
        PROVE  \/ memberships'[n] = memberships[n]
               \/ memberships'[n].version = memberships[n].version + 1
    BY <1>2, <1>3, <1>4, <1>5, <2>2 DEF OneChange
  <2>3. Lookahead = 0 => CallsCurrent'
    BY <1>3, <2>2, EndCurrent
  <2> QED BY <2>1, <2>3
<1>8. (\A t \in Tenants : Whole(t))' /\ GrantsAreRecorded'
  BY <1>3 DEF IInv, Whole, GrantsAreRecorded
<1> QED BY <1>4, <1>6, <1>7, <1>8 DEF IInv

LEMMA GrantCommitStep ==
  ASSUME IInv, NEW c \in Callers, GrantCommit(c)
  PROVE  IInv'
<1> DEFINE call == calls[c]  t == call.t  item == call.item  next == call.version + 1
           grant == [t |-> t, actor |-> call.actor, key |-> call.key,
                     item |-> item, expected |-> call.version, version |-> next]
<1>1. Typed(call) /\ call.op = "grant"
  BY DEF GrantCommit, At, IInv, TypeInv, TypedCalls
<1>2. /\ t \in Tenants /\ item \in Items /\ call.version \in Nat /\ next \in Nat
      /\ next = call.version + 1 /\ grant \in Grant
  BY <1>1 DEF Typed, Grant
<1>3. /\ entitlements[t].version = call.version /\ call.version # 0
      /\ entitlements' = [entitlements EXCEPT ![t].version = next, ![t].items[item] = next]
      /\ grants' = grants \cup {grant}
      /\ Return(c)
      /\ UNCHANGED <<tenants, policies, memberships, creations, announced, directory>>
  BY DEF GrantCommit
<1>4. \A g \in grants : ~(g.t = t /\ g.actor = grant.actor /\ g.key = grant.key)
  BY DEF GrantCommit, Recorded
<1>5. /\ grant.t = t /\ grant.item = item /\ grant.expected = call.version
      /\ grant.version = next
  OBVIOUS
<1>6. entitlements \in [Tenants -> Entitlements] /\ grants \subseteq Grant
  BY DEF IInv, TypeInv, TypeOK
<1> HIDE DEF call, t, item, next, grant
<1>7. /\ entitlements' \in [Tenants -> Entitlements]
      /\ entitlements'[t].version = next /\ entitlements'[t].items[item] = next
      /\ \A i \in Items \ {item} : entitlements'[t].items[i] = entitlements[t].items[i]
      /\ \A u \in Tenants \ {t} : entitlements'[u] = entitlements[u]
  BY <1>2, <1>3, <1>6 DEF Entitlements
<1>8. TypeInv'
  <2>1. grants' \subseteq Grant
    BY <1>2, <1>3, <1>6
  <2> QED BY <1>3, <1>7, <2>1, EndType DEF IInv
<1>9. KnownCalls' /\ (Lookahead = 0 => CallsCurrent')
  BY <1>3, EndCurrent
<1>10. ASSUME NEW u \in Tenants PROVE Whole(u)'
  <2>1. Whole(u)
    BY DEF IInv
  <2>2. entitlements'[u].version = 0 <=> entitlements[u].version = 0
    BY <1>2, <1>3, <1>7
  <2> QED BY <1>3, <2>1, <2>2 DEF Whole
<1>11. GrantsAreRecorded'
  <2>1. ASSUME NEW u \in Tenants, NEW g \in grants', NEW h \in grants', g.t = u, h.t = u,
               g.version = h.version \/ (g.actor = h.actor /\ g.key = h.key)
        PROVE  g = h
    <3>1. \A f \in grants : f.t = t => f.version \in Nat /\ f.version < next
      BY <1>2, <1>3, <1>6 DEF IInv, GrantsAreRecorded, Grant
    <3>2. \A f \in grants : f.t = t => f.version # next
      BY <1>2, <3>1
    <3>3. CASE g \in grants /\ h \in grants
      BY <2>1, <3>3 DEF IInv, GrantsAreRecorded
    <3> QED BY <1>3, <1>4, <1>5, <2>1, <3>2, <3>3
  <2>2. ASSUME NEW u \in Tenants, NEW g \in grants', g.t = u
        PROVE  g.version = g.expected + 1 /\ g.version <= entitlements'[u].version
    <3>1. CASE g = grant
      BY <1>2, <1>5, <1>7, <2>2, <3>1
    <3>2. CASE g \in grants
      <4>1. /\ g.version = g.expected + 1 /\ g.version <= entitlements[u].version
            /\ g.version \in Nat
        BY <1>6, <2>2, <3>2 DEF IInv, GrantsAreRecorded, Grant
      <4> QED BY <1>2, <1>3, <1>7, <4>1
    <3> QED BY <1>3, <3>1, <3>2
  <2>3. ASSUME NEW u \in Tenants, NEW i \in Items, entitlements'[u].items[i] # 0
        PROVE  \E g \in grants' : g.t = u /\ g.item = i /\ g.version = entitlements'[u].items[i]
    <3>1. CASE u = t /\ i = item
      BY <1>3, <1>5, <1>7, <3>1
    <3>2. CASE ~(u = t /\ i = item)
      <4>1. entitlements'[u].items[i] = entitlements[u].items[i]
        BY <1>7, <3>2
      <4> QED BY <1>3, <2>3, <4>1 DEF IInv, GrantsAreRecorded
    <3> QED BY <3>1, <3>2
  <2> QED BY <2>1, <2>2, <2>3 DEF GrantsAreRecorded
<1> QED BY <1>8, <1>9, <1>10, <1>11 DEF IInv

LEMMA WithdrawCommitStep ==
  ASSUME IInv, NEW c \in Callers, WithdrawCommit(c)
  PROVE  IInv'
<1> DEFINE call == calls[c]  t == call.t  item == call.item  next == call.version + 1
<1>1. Typed(call) /\ call.op = "withdraw"
  BY DEF WithdrawCommit, At, IInv, TypeInv, TypedCalls
<1>2. t \in Tenants /\ item \in Items /\ call.version \in Nat /\ next \in Nat
      /\ next = call.version + 1
  BY <1>1 DEF Typed
<1>3. /\ entitlements[t].version = call.version /\ call.version # 0
      /\ entitlements' = [entitlements EXCEPT ![t].version = next, ![t].items[item] = 0]
      /\ Return(c)
      /\ UNCHANGED <<tenants, policies, memberships, creations, grants, announced, directory>>
  BY DEF WithdrawCommit
<1>4. entitlements \in [Tenants -> Entitlements] /\ grants \subseteq Grant
  BY DEF IInv, TypeInv, TypeOK
<1> HIDE DEF call, t, item, next
<1>5. /\ entitlements' \in [Tenants -> Entitlements]
      /\ entitlements'[t].version = entitlements[t].version + 1
      /\ entitlements'[t].items[item] = 0
      /\ \A i \in Items \ {item} : entitlements'[t].items[i] = entitlements[t].items[i]
      /\ \A u \in Tenants \ {t} : entitlements'[u] = entitlements[u]
  BY <1>2, <1>3, <1>4 DEF Entitlements
<1>6. TypeInv'
  BY <1>3, <1>5, EndType DEF IInv
<1>7. KnownCalls' /\ (Lookahead = 0 => CallsCurrent')
  BY <1>3, EndCurrent
<1>8. \A u \in Tenants : entitlements[u].version \in Nat
  BY <1>4 DEF Entitlements
<1>9. ASSUME NEW u \in Tenants PROVE Whole(u)'
  <2>1. Whole(u)
    BY DEF IInv
  <2>2. entitlements'[u].version = 0 <=> entitlements[u].version = 0
    BY <1>2, <1>3, <1>5, <1>8
  <2> QED BY <1>3, <2>1, <2>2 DEF Whole
<1>10. GrantsAreRecorded'
  <2>1. ASSUME NEW u \in Tenants, NEW g \in grants, g.t = u
        PROVE  g.version <= entitlements'[u].version
    <3>1. g.version <= entitlements[u].version /\ g.version \in Nat
      BY <1>4, <2>1 DEF IInv, GrantsAreRecorded, Grant
    <3> QED BY <1>5, <1>8, <3>1
  <2>2. ASSUME NEW u \in Tenants, NEW i \in Items, entitlements'[u].items[i] # 0
        PROVE  entitlements'[u].items[i] = entitlements[u].items[i]
    BY <1>5, <2>2
  <2>3. ASSUME NEW u \in Tenants, NEW i \in Items, entitlements'[u].items[i] # 0
        PROVE  \E g \in grants : g.t = u /\ g.item = i /\ g.version = entitlements'[u].items[i]
    BY <2>2, <2>3 DEF IInv, GrantsAreRecorded
  <2>4. \A u \in Tenants, g, h \in grants :
          g.t = u /\ h.t = u /\ (g.version = h.version \/ (g.actor = h.actor /\ g.key = h.key))
          => g = h
    BY DEF IInv, GrantsAreRecorded
  <2>5. \A u \in Tenants, g \in grants : g.t = u => g.version = g.expected + 1
    BY DEF IInv, GrantsAreRecorded
  <2>6. UNCHANGED grants
    BY <1>3
  <2> QED BY <2>1, <2>3, <2>4, <2>5, <2>6 DEF GrantsAreRecorded
<1> QED BY <1>6, <1>7, <1>9, <1>10 DEF IInv

\* The directory decides who is authorized, and no invariant is about it.
LEMMA DirectoryStep ==
  ASSUME IInv, NEW s \in Subjects, Provision(s) \/ Deprovision(s)
  PROVE  IInv'
<1>1. UNCHANGED <<stores, calls>> /\ directory' \subseteq Subjects
  BY DEF Provision, Deprovision, IInv, TypeInv, TypeOK
<1>2. TypeInv'
  BY <1>1 DEF IInv, TypeInv, TypeOK, Total, TypedCalls, Typed, stores
<1>3. KnownCalls' /\ (CallsCurrent => CallsCurrent')
  BY <1>1 DEF IInv, KnownCalls, Known, CallsCurrent, Current, StatusCurrent, MemberCurrent, stores
<1>4. (\A t \in Tenants : Whole(t))' /\ GrantsAreRecorded'
  BY <1>1 DEF IInv, Whole, GrantsAreRecorded, stores
<1> QED BY <1>2, <1>3, <1>4 DEF IInv

LEMMA Initially == Init => IInv
<1> SUFFICES ASSUME Init PROVE IInv
  OBVIOUS
<1>1. TypeInv
  BY InitType
<1>2. KnownCalls /\ CallsCurrent
  BY DEF Init, KnownCalls, CallsCurrent
<1>3. \A t \in Tenants : Whole(t)
  BY DEF Init, Whole, NoTenant, NoEntitlements
<1>4. GrantsAreRecorded
  BY DEF Init, GrantsAreRecorded, NoEntitlements
<1> QED BY <1>1, <1>2, <1>3, <1>4 DEF IInv

LEMMA Unmoved == IInv /\ UNCHANGED vars => IInv'
BY DEF IInv, TypeInv, TypeOK, Total, TypedCalls, Typed, KnownCalls, Known, CallsCurrent,
       Current, StatusCurrent, MemberCurrent, Whole, GrantsAreRecorded, vars, stores

LEMMA Inductive == IInv /\ [Next]_vars => IInv'
<1> SUFFICES ASSUME IInv, Next PROVE IInv'
  BY Unmoved
<1>1. ASSUME NEW c \in Callers, NEW call,
             calls' = [calls EXCEPT ![c] = call], call = Idle \/ Sound(call),
             UNCHANGED <<stores, directory>>
      PROVE  IInv'
  BY <1>1, CallStep
<1>2. ASSUME NEW c \in Callers,
             CreateCommit(c) \/ StatusCommit(c) \/ MembershipCommit(c)
             \/ GrantCommit(c) \/ WithdrawCommit(c)
      PROVE  IInv'
  BY <1>2, CreateCommitStep, StatusCommitStep, MembershipCommitStep, GrantCommitStep,
     WithdrawCommitStep
<1>3. ASSUME NEW s \in Subjects, Provision(s) \/ Deprovision(s) PROVE IInv'
  BY <1>3, DirectoryStep
<1> QED BY <1>1, <1>2, <1>3, Steps

LEMMA Invariance == Spec => []IInv
BY Initially, Inductive, PTL DEF Spec

-----------------------------------------------------------------------------
\* Type correctness of the stores and of the calls.
THEOREM TypeCorrect == Spec => []TypeOK
<1>1. IInv => TypeOK
  BY DEF IInv, TypeInv
<1> QED BY <1>1, Invariance, PTL

\* A tenant is created once and whole, and its status is the one last
\* announced, whatever versions the callers send.
THEOREM TenantsStayWhole == Spec => []TenantsAreWhole
<1>1. ASSUME IInv PROVE TenantsAreWhole
  <2>1. ASSUME NEW t \in Tenants
        PROVE  Cardinality({r \in creations : r.t = t}) = IF tenants[t] = NoTenant THEN 0 ELSE 1
    <3>1. Whole(t)
      BY <1>1 DEF IInv
    <3>2. CASE tenants[t] = NoTenant
      BY <3>1, <3>2, FS_EmptySet DEF Whole
    <3>3. CASE tenants[t] # NoTenant
      <4>1. PICK r : {q \in creations : q.t = t} = {r}
        BY <3>1, <3>3 DEF Whole
      <4>2. Cardinality({r}) = 1
        BY FS_Singleton
      <4> QED BY <3>3, <4>1, <4>2, Zenon
    <3> QED BY <3>2, <3>3
  <2> QED BY <1>1, <2>1 DEF IInv, Whole, TenantsAreWhole
<1> QED BY <1>1, Invariance, PTL

\* Every grant keeps the record that made it, and no key grants twice.
THEOREM GrantsStayRecorded == Spec => []GrantsAreRecorded
<1>1. IInv => GrantsAreRecorded
  BY DEF IInv
<1> QED BY <1>1, Invariance, PTL

-----------------------------------------------------------------------------
\* Action properties

\* What changes memberships, and whose step it was.
LEMMA MembershipsMove ==
  ASSUME IInv, Next, memberships' # memberships
  PROVE  \E c \in Callers : MembershipCommit(c)
<1>1. ASSUME NEW c \in Callers,
             CreateCommit(c) \/ StatusCommit(c) \/ GrantCommit(c) \/ WithdrawCommit(c)
      PROVE  UNCHANGED memberships
  BY <1>1 DEF CreateCommit, StatusCommit, GrantCommit, WithdrawCommit
<1>2. ASSUME NEW s \in Subjects, Provision(s) \/ Deprovision(s) PROVE UNCHANGED memberships
  BY <1>2 DEF Provision, Deprovision, stores
<1>3. UNCHANGED stores => UNCHANGED memberships
  BY DEF stores
<1> QED BY <1>1, <1>2, <1>3, Steps, Zenon

LEMMA CommitMove ==
  ASSUME IInv, NEW c \in Callers, MembershipCommit(c)
  PROVE  LET call == calls[c] IN
         /\ call.op \in MembershipOps /\ call.stage = "read" /\ call # Idle
         /\ call.m \in Members /\ call.m[1] = call.t
         /\ memberships[call.m].version = call.version
         /\ \A m \in Members :
              memberships'[m] = IF m = call.m THEN call.after ELSE memberships[m]
         /\ \A d \in Callers : calls'[d] = IF d = c THEN Idle ELSE calls[d]
         /\ UNCHANGED directory
<1>1. LET call == calls[c] IN
      call.op \in MembershipOps /\ call.stage = "read" /\ call # Idle
  BY DEF MembershipCommit, At, MembershipOps
<1>2. LET call == calls[c] IN call.m \in Members /\ call.m[1] = call.t
  BY <1>1 DEF IInv, TypeInv, TypedCalls, Typed
<1> QED BY <1>1, <1>2 DEF MembershipCommit, Return, IInv, TypeInv, TypeOK, Total

\* Administrators who send no version that is not stored yet never overwrite
\* each other's change of a membership.
THEOREM OverwritesRefused ==
  ASSUME Lookahead = 0
  PROVE  Spec => NoSilentOverwrite
<1>1. ASSUME IInv, [Next]_vars, NEW m \in Members, memberships'[m] # memberships[m]
      PROVE  OneChange(memberships[m], memberships'[m])
  <2>1. PICK c \in Callers : MembershipCommit(c)
    BY <1>1, MembershipsMove DEF vars, stores
  <2>2. OneChange(memberships[calls[c].m], calls[c].after)
    BY <1>1, <2>1, MembershipCommitStep
  <2> QED BY <1>1, <2>1, <2>2, CommitMove
<1>2. IInv /\ [Next]_vars =>
        [\A m \in Members : LET old == memberships[m]  new == memberships'[m] IN
           new # old =>
              /\ new.version = old.version + 1
              /\ new.status = old.status \/ new.roles = old.roles
              /\ Cardinality((new.roles \ old.roles) \cup (old.roles \ new.roles)) <= 1]_vars
  BY <1>1 DEF OneChange
<1> QED BY <1>2, Invariance, PTL DEF Spec, NoSilentOverwrite

\* If whoever manages roles has every permission, no call gives its own actor a
\* permission he does not have when it commits.
THEOREM NobodyPromotesHimself ==
  ASSUME Lookahead = 0,
         \A r \in Roles : "role.manage" \in PermissionsOf[r] => PermissionsOf[r] = Permissions
  PROVE  Spec => NoSelfPromotion
<1>1. ASSUME IInv, [Next]_vars,
             NEW c \in Callers, NEW t \in Tenants, NEW s \in Subjects \ PlatformAdmins,
             calls[c] # Idle, calls'[c] = Idle, calls[c].actor = s, calls[c].t = t
      PROVE  Effective(t, s)' \subseteq Effective(t, s)
  <2> DEFINE call == calls[c]  m == <<t, s>>
  <2>1. Next
    BY <1>1 DEF vars
  <2>2. CASE UNCHANGED memberships
    <3>1. UNCHANGED directory
      <4>1. ASSUME NEW u \in Subjects, Provision(u) \/ Deprovision(u) PROVE FALSE
        <5>1. UNCHANGED calls
          BY <4>1, Zenon DEF Provision, Deprovision
        <5> QED BY <1>1, <5>1
      <4>2. ASSUME NEW d \in Callers,
                   CreateCommit(d) \/ StatusCommit(d) \/ MembershipCommit(d)
                   \/ GrantCommit(d) \/ WithdrawCommit(d)
            PROVE  UNCHANGED directory
        BY <4>2 DEF CreateCommit, StatusCommit, MembershipCommit, GrantCommit, WithdrawCommit
      <4> QED BY <1>1, <2>1, <4>1, <4>2, Steps
    <3> QED BY <2>2, <3>1 DEF Effective
  <2>3. CASE memberships' # memberships
    <3>1. PICK d \in Callers : MembershipCommit(d)
      BY <1>1, <2>1, <2>3, MembershipsMove
    <3>2. d = c
      BY <1>1, <3>1, CommitMove
    <3>3. /\ call.op \in MembershipOps /\ call.stage = "read"
          /\ call.m \in Members /\ call.m[1] = t
          /\ memberships[call.m].version = call.version
          /\ \A n \in Members :
               memberships'[n] = IF n = call.m THEN call.after ELSE memberships[n]
          /\ UNCHANGED directory
      BY <1>1, <3>1, <3>2, CommitMove
    <3>4. m \in Members /\ call.m = <<t, call.m[2]>>
      BY <3>3 DEF Members
    <3>5. CASE call.m # m
      <4>1. memberships'[m] = memberships[m]
        BY <3>3, <3>4, <3>5
      <4> QED BY <3>3, <4>1 DEF Effective
    <3>6. CASE call.m = m /\ s \notin directory
      BY <3>3, <3>6 DEF Effective
    <3>7. CASE call.m = m /\ s \in directory
      <4>1. call.m[2] = s /\ MemberCurrent(call) /\ call.after \in Stored
        BY <1>1, <3>3, <3>7
           DEF IInv, CallsCurrent, Current, TypeInv, TypedCalls, Typed
      <4>2. /\ memberships[m].status = "active"
            /\ call.op # "member" =>
                 \E r \in memberships[m].roles : "role.manage" \in PermissionsOf[r]
            /\ call.op = "member" => call.after.roles = memberships[m].roles
        BY <1>1, <3>3, <3>7, <4>1 DEF MemberCurrent
      <4>3. Effective(t, s) = UNION {PermissionsOf[r] : r \in memberships[m].roles}
        BY <3>7, <4>2 DEF Effective
      <4>4. Effective(t, s)' \subseteq UNION {PermissionsOf[r] : r \in call.after.roles}
        BY <3>3, <3>4, <3>7 DEF Effective
      <4>5. CASE call.op = "member"
        BY <4>2, <4>3, <4>4, <4>5
      <4>6. CASE call.op # "member"
        <5>1. Permissions \subseteq Effective(t, s)
          <6>1. memberships[m].roles \subseteq Roles
            BY <1>1, <3>4 DEF IInv, TypeInv, TypeOK, Membership, NoMembership
          <6> QED BY <4>2, <4>3, <4>6, <6>1
        <5>2. UNION {PermissionsOf[r] : r \in call.after.roles} \subseteq Permissions
          BY <4>1, ControlPlaneAssumption DEF Stored
        <5> QED BY <4>4, <5>1, <5>2
      <4> QED BY <4>5, <4>6
    <3> QED BY <3>5, <3>6, <3>7
  <2> QED BY <2>2, <2>3
<1>2. IInv /\ [Next]_vars =>
        [\A c \in Callers, t \in Tenants, s \in Subjects \ PlatformAdmins :
           /\ calls[c] # Idle /\ calls'[c] = Idle
           /\ calls[c].actor = s /\ calls[c].t = t
           => Effective(t, s)' \subseteq Effective(t, s)]_vars
  BY <1>1
<1> QED BY <1>2, Invariance, PTL DEF Spec, NoSelfPromotion

\* Only a platform administrator's call makes a suspended tenant active again.
THEOREM OnlyPlatformMayReactivate ==
  ASSUME Lookahead = 0
  PROVE  Spec => OnlyPlatformReactivates
<1>1. ASSUME IInv, [Next]_vars, NEW t \in Tenants,
             tenants[t].status = "suspended", tenants'[t].status = "active"
      PROVE  \E c \in Callers : /\ calls[c] # Idle /\ calls'[c] = Idle
                                /\ calls[c].op = "status" /\ calls[c].t = t
                                /\ calls[c].actor \in PlatformAdmins
  <2>1. Next
    BY <1>1 DEF vars, stores
  <2>2. tenants' # tenants /\ tenants \in [Tenants -> Tenant]
    BY <1>1 DEF IInv, TypeInv, TypeOK
  <2>3. ASSUME NEW c \in Callers, CreateCommit(c) PROVE FALSE
    <3>1. /\ tenants[calls[c].t].status = "none"
          /\ tenants' = [tenants EXCEPT ![calls[c].t] = [status |-> "active", version |-> 1]]
      BY <2>3 DEF CreateCommit, NoTenant
    <3>2. calls[c].t # t
      BY <1>1, <3>1
    <3> QED BY <1>1, <2>2, <3>1, <3>2
  <2>4. ASSUME NEW c \in Callers, MembershipCommit(c) \/ GrantCommit(c) \/ WithdrawCommit(c)
        PROVE  FALSE
    BY <2>2, <2>4 DEF MembershipCommit, GrantCommit, WithdrawCommit
  <2>5. ASSUME NEW s \in Subjects, Provision(s) \/ Deprovision(s) PROVE FALSE
    BY <2>2, <2>5 DEF Provision, Deprovision, stores
  <2>6. PICK c \in Callers : StatusCommit(c)
    BY <1>1, <2>1, <2>2, <2>3, <2>4, <2>5, Steps DEF stores
  <2> DEFINE call == calls[c]
  <2>7. /\ call # Idle /\ call.op = "status" /\ call.stage = "authorized"
        /\ tenants[call.t].version = call.version
        /\ tenants' = [tenants EXCEPT ![call.t] =
                         [status |-> call.status, version |-> @.version + 1]]
        /\ calls' = [calls EXCEPT ![c] = Idle]
    BY <2>6 DEF StatusCommit, At, Return
  <2>8. call.t = t
    BY <1>1, <2>2, <2>7
  <2>9. StatusCurrent(call)
    BY <1>1, <2>7 DEF IInv, CallsCurrent, Current
  <2>10. call.actor \in PlatformAdmins
    BY <1>1, <2>7, <2>8, <2>9 DEF StatusCurrent
  <2>11. calls'[c] = Idle
    BY <1>1, <2>7 DEF IInv, TypeInv, Total
  <2> QED BY <2>7, <2>8, <2>10, <2>11
<1>2. IInv /\ [Next]_vars =>
        [\A t \in Tenants :
           tenants[t].status = "suspended" /\ tenants'[t].status = "active"
           => \E c \in Callers : /\ calls[c] # Idle /\ calls'[c] = Idle
                                 /\ calls[c].op = "status" /\ calls[c].t = t
                                 /\ calls[c].actor \in PlatformAdmins]_vars
  BY <1>1
<1> QED BY <1>2, Invariance, PTL DEF Spec, OnlyPlatformReactivates
=============================================================================
