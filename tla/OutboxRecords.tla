---------------------------- MODULE OutboxRecords ----------------------------
(***************************************************************************)
(* One record of the transactional outbox (services/data_service_common):  *)
(* when it may be claimed, and what claim, acknowledge, retry, cancel,     *)
(* transition and reconcile_dead_letter make of it.                        *)
(*                                                                         *)
(* Only the distance of a due time or a lease from the clock matters, so   *)
(* wait and lease count the ticks that are left and Aged passes one tick.  *)
(***************************************************************************)
EXTENDS Integers

CONSTANTS
    Owners,       \* lease owners; workers may share one
    LeaseTicks,   \* lease_seconds
    MaxWait       \* the longest delay of a retry

ASSUME OutboxAssumption == LeaseTicks \in Nat \ {0} /\ MaxWait \in Nat

Nobody == "nobody"
TerminalRecord == {"accepted", "cancelled", "dead_lettered"}
OutboxStatus == {"none", "pending", "claimed"} \cup TerminalRecord
OutboxRecord ==
    [status : OutboxStatus, attempts : Nat, max : Nat, wait : Nat,
     owner : Owners \cup {Nobody}, lease : Nat, version : Nat]

NoRecord ==
    [status |-> "none", attempts |-> 0, max |-> 0, wait |-> 0,
     owner |-> Nobody, lease |-> 0, version |-> 0]

\* The record that enqueue stores.
NewRecord(max) == [NoRecord EXCEPT !.status = "pending", !.max = max, !.version = 1]

\* Faulty: claims whose lease has run out are not taken over.
EligiblePending(rec) == rec.status = "pending" /\ rec.wait = 0

\* eligible: pending and due, or claimed under a lease that has run out.
Eligible(rec) ==
    \/ rec.status = "pending" /\ rec.wait = 0
    \/ rec.status = "claimed" /\ rec.lease = 0

\* Faulty: one attempt too many.
ExhaustedLate(rec) == rec.attempts > rec.max

Exhausted(rec) == rec.attempts >= rec.max

Claimable(rec) == Eligible(rec) /\ ~Exhausted(rec)

Unleased(rec, status, wait) ==
    [rec EXCEPT !.status = status, !.wait = wait, !.owner = Nobody, !.lease = 0,
                !.version = @ + 1]

AfterClaim(rec, owner) ==
    [rec EXCEPT !.status = "claimed", !.attempts = @ + 1, !.wait = 0,
                !.owner = owner, !.lease = LeaseTicks, !.version = @ + 1]

\* Faulty: a claim that is known by its owner's name or by its version alone,
\* and a lease that is.
HoldsClaimByName(rec, owner, version) == rec.status = "claimed" /\ rec.owner = owner
HoldsClaimByVersion(rec, owner, version) == rec.version >= version
HoldsLeaseByName(rec, owner, version) == rec.status = "claimed" /\ rec.owner = owner

\* _require_claim: the caller owns the lease and claimed this very version.
\* The lease must not have run out by the time the caller names; a dispatcher
\* names the time of its claim, an owning service the time of the call.
HoldsClaim(rec, owner, version) ==
    rec.status = "claimed" /\ rec.owner = owner /\ rec.version = version
HoldsLease(rec, owner, version) == HoldsClaim(rec, owner, version) /\ rec.lease > 0

AfterAcknowledge(rec) == Unleased(rec, "accepted", 0)
AfterRetry(rec, wait) ==
    IF Exhausted(rec) THEN Unleased(rec, "dead_lettered", 0)
                      ELSE Unleased(rec, "pending", wait)
\* Faulty: a claimed record is not cancelled.
AfterCancelUnclaimed(rec) ==
    IF rec.status = "pending" THEN Unleased(rec, "cancelled", 0) ELSE rec

AfterCancel(rec) ==
    IF rec.status \in TerminalRecord \cup {"none"} THEN rec
                                                   ELSE Unleased(rec, "cancelled", 0)
\* transition and reconcile_dead_letter
AfterDeadLetter(rec) == Unleased(rec, "dead_lettered", 0)

AfterTick(rec) ==
    [rec EXCEPT !.wait = IF @ > 0 THEN @ - 1 ELSE 0,
                !.lease = IF @ > 0 THEN @ - 1 ELSE 0]
=============================================================================
