-------------------------------- MODULE Outbox --------------------------------
(***************************************************************************)
(* The outbox under its dispatchers: OutboxDispatcher.dispatch claims a    *)
(* record, publishes its event, and then acknowledges or retries. A worker *)
(* may crash, or be overtaken by the expiry of its lease, at any point.    *)
(*                                                                         *)
(* The service that owns the records enqueues each in a unit of work that  *)
(* then commits. A unit of work that is refused copied the whole outbox    *)
(* when it began and now puts the copy back. Those of the gateway's        *)
(* outcomes, storage, analytics and audit hold the lock of their own state *)
(* meanwhile and not that of the outbox, so that a dispatcher steps in     *)
(* between and is undone; that of the control plane holds both locks,      *)
(* which MaxRefusals = 0 stands for. Every refusal of these services comes *)
(* before the unit enqueues anything, and a unit that commits puts nothing *)
(* back.                                                                   *)
(***************************************************************************)
EXTENDS OutboxRecords

CONSTANTS
    Records,      \* record ids
    Workers,      \* dispatcher processes
    OwnerOf,      \* OwnerOf[w]: the lease owner that worker w claims under
    MaxAttempts,  \* max_attempts of every record
    MaxRefusals   \* bound on the refused units of work that dispatchers run into

ASSUME DispatcherAssumption ==
    /\ OwnerOf \in [Workers -> Owners]
    /\ MaxAttempts \in Nat \ {0}
    /\ MaxRefusals \in Nat

VARIABLES
    records,      \* records[i]: the stored record
    workers,      \* workers[w]: the dispatch of worker w
    published,    \* the events the downstream has accepted
    tries,        \* tries[i]: how often the publisher was called for i
    snapshots,    \* what the owner's unit of work under way has copied, if any
    refusals      \* how many units of work were refused

vars == <<records, workers, published, tries, snapshots, refusals>>
units == <<snapshots, refusals>>

Resting == [stage |-> "rest"]
Dispatch == [stage : {"claimed", "published", "failed"}, id : Records, version : Nat]

Init ==
    /\ records = [i \in Records |-> NoRecord]
    /\ workers = [w \in Workers |-> Resting]
    /\ published = {}
    /\ tries = [i \in Records |-> 0]
    /\ snapshots = {}
    /\ refusals = 0

\* enqueue stores a record once; the same record again changes nothing. The
\* lock of the owner's state keeps it out of another unit of work.
Enqueue(i) ==
    /\ records[i] = NoRecord
    /\ snapshots = {}
    /\ records' = [records EXCEPT ![i] = NewRecord(MaxAttempts)]
    /\ UNCHANGED <<workers, published, tries, units>>

\* A unit of work that will be refused copies the outbox as it begins.
EnterUnit ==
    /\ snapshots = {}
    /\ refusals < MaxRefusals
    /\ snapshots' = {records}
    /\ UNCHANGED <<records, workers, published, tries, refusals>>

\* Its refusal puts the copy back, whatever dispatchers did in the meantime.
RefuseUnit ==
    /\ \E s \in snapshots : records' = s
    /\ snapshots' = {}
    /\ refusals' = refusals + 1
    /\ UNCHANGED <<workers, published, tries>>

Claim(w, i) ==
    /\ workers[w] = Resting
    /\ Claimable(records[i])
    /\ records' = [records EXCEPT ![i] = AfterClaim(@, OwnerOf[w])]
    /\ workers' = [workers EXCEPT ![w] =
                     [stage |-> "claimed", id |-> i, version |-> records[i].version + 1]]
    /\ UNCHANGED <<published, tries, units>>

\* The publisher accepts the event or raises; it may raise having accepted.
Publish(w) ==
    LET i == workers[w].id IN
    /\ workers[w].stage = "claimed"
    /\ tries' = [tries EXCEPT ![i] = @ + 1]
    /\ \/ /\ published' = published \cup {i}
          /\ workers' = [workers EXCEPT ![w].stage = "published"]
       \/ /\ published' \in {published, published \cup {i}}
          /\ workers' = [workers EXCEPT ![w].stage = "failed"]
    /\ UNCHANGED <<records, units>>

\* acknowledge answers an accepted record without looking at the claim.
Acknowledge(w) ==
    LET i == workers[w].id IN
    /\ workers[w].stage = "published"
    /\ records' =
         IF HoldsClaim(records[i], OwnerOf[w], workers[w].version)
         THEN [records EXCEPT ![i] = AfterAcknowledge(@)]
         ELSE records
    /\ workers' = [workers EXCEPT ![w] = Resting]
    /\ UNCHANGED <<published, tries, units>>

Retry(w, wait) ==
    LET i == workers[w].id IN
    /\ workers[w].stage = "failed"
    /\ records' =
         IF HoldsClaim(records[i], OwnerOf[w], workers[w].version)
         THEN [records EXCEPT ![i] = AfterRetry(@, wait)]
         ELSE records
    /\ workers' = [workers EXCEPT ![w] = Resting]
    /\ UNCHANGED <<published, tries, units>>

Crash(w) ==
    /\ workers[w] # Resting
    /\ workers' = [workers EXCEPT ![w] = Resting]
    /\ UNCHANGED <<records, published, tries, units>>

Aged(stored) == [i \in Records |-> AfterTick(stored[i])]

\* Due times and leases are instants: they come nearer in the copy as well.
Tick ==
    /\ \E stored \in {records} \cup snapshots, i \in Records :
         stored[i].wait > 0 \/ stored[i].lease > 0
    /\ records' = Aged(records)
    /\ snapshots' = {Aged(s) : s \in snapshots}
    /\ UNCHANGED <<workers, published, tries, refusals>>

Next ==
    \/ \E i \in Records : Enqueue(i)
    \/ \E w \in Workers :
        \/ \E i \in Records : Claim(w, i)
        \/ Publish(w)
        \/ Acknowledge(w)
        \/ \E wait \in 0 .. MaxWait : Retry(w, wait)
        \/ Crash(w)
    \/ EnterUnit \/ RefuseUnit
    \/ Tick

Spec == Init /\ [][Next]_vars

-----------------------------------------------------------------------------
\* The types of the records and of the dispatches under way.
TypeOK ==
    /\ records \in [Records -> OutboxRecord]
    /\ workers \in [Workers -> {Resting} \cup Dispatch]
    /\ published \subseteq Records
    /\ tries \in [Records -> Nat]
    /\ snapshots \subseteq [Records -> OutboxRecord]
    /\ refusals \in Nat

\* A record is acknowledged only after the downstream accepted its event,
\* whichever worker published it and whoever had claimed it since.
AcceptedWasPublished ==
    \A i \in Records : records[i].status = "accepted" => i \in published

\* What the workers know: a dispatch is published once the publisher has
\* accepted it, and it runs on a version that was stored, no two on the same
\* one, until a refused unit of work takes a version back.
DispatchesAge ==
    /\ \A w \in Workers :
         workers[w] # Resting /\ workers[w].stage = "published" => workers[w].id \in published
    /\ refusals = 0 => \A w \in Workers : workers[w] # Resting =>
         /\ workers[w].version <= records[workers[w].id].version
         /\ \A v \in Workers :
              /\ workers[v] # Resting
              /\ workers[v].id = workers[w].id /\ workers[v].version = workers[w].version
              => v = w

\* No event is offered to the publisher more often than max_attempts allows,
\* although workers that lost their lease go on publishing, and once more as
\* often for every refused unit of work that took attempts back.
TriesBounded == \A i \in Records : tries[i] <= MaxAttempts * (refusals + 1)

\* "Dispatchers claim leases, exclude concurrent processing": two workers never
\* both hold the claim of a record. A refused unit of work can break it: it
\* undoes a claim, and the version of that claim is given out a second time.
Exclusive ==
    \A v, w \in Workers : \A i \in Records :
        LET Holds(u) == /\ workers[u] # Resting /\ workers[u].id = i
                        /\ HoldsClaim(records[i], OwnerOf[u], workers[u].version)
        IN  Holds(v) /\ Holds(w) => v = w

\* Up to the first refusal it holds, even under one owner name, because a later
\* claim outdates the version of every earlier one.
OneClaimant == refusals = 0 => Exclusive

\* A record that is accepted or dead-lettered stays as it is, whatever late
\* acknowledgement or retry arrives, and whatever the clock does: only a refused
\* unit of work takes its resolution back.
TerminalForGood ==
    [][refusals' = refusals =>
         \A i \in Records : records[i].status \in TerminalRecord
                              => records'[i] = records[i]]_vars

\* A record waits for its owner only if its last dispatch was abandoned, or
\* what came of it was taken back.
Stuck(i) == records[i].status = "claimed" /\ Exhausted(records[i])

\* Abandoned and undone work is recovered: every record is in the end resolved
\* for good or left in its final claim.
ResolvedOrStuck ==
    <>[](\A i \in Records :
            records[i].status \in TerminalRecord \cup {"none"} \/ Stuck(i))

\* "poison events become visible dead letters": every record is resolved.
EventuallyResolved ==
    \A i \in Records : records[i].status = "pending" ~> records[i].status \in TerminalRecord
=============================================================================
