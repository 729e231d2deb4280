-------------------------- MODULE NotificationProofs --------------------------
(***************************************************************************)
(* Safety of the notification service under any number of notifications    *)
(* and workers, and for any set of attempt limits. What is to be shown of  *)
(* one notification depends on its own stores only (Frame), so each action *)
(* is judged at the notification that it is about. What a worker knows     *)
(* (Knows) ties its answer to the record as long as the versions agree.    *)
(***************************************************************************)
EXTENDS Notifications, TLAPS

\* A resolved record waits for nothing.
Rested(rec) == rec.status \in TerminalRecord => rec.wait = 0 /\ rec.lease = 0

\* The record of a notification that was never enqueued is none, and a claimed
\* one counts its claims.
Fits(n) ==
    /\ Rested(records[n])
    /\ notifications[n].status \in {"none", "suppressed"} => records[n] = NoRecord
    /\ records[n].status = "claimed" => records[n].attempts >= 1

\* What a worker knows of the notification that it delivers.
Knows(w) ==
    workers[w] # Resting => LET n == workers[w].n IN
        /\ notifications[n].status \notin {"none", "suppressed"}
        /\ workers[w].number \in 1 .. records[n].attempts
        /\ workers[w].version <= records[n].version
        /\ workers[w].version = records[n].version => workers[w].number = records[n].attempts
        /\ workers[w].stage = "accepted" => n \in delivered

Paired(n) == SetApart(n) \/ records[n].status \in Partner(notifications[n].status)
Whole(n) == Fits(n) /\ Paired(n) /\ HistoryTells(n)
IInv ==
    /\ TypeOK
    /\ \A n \in Notifications : Whole(n)
    /\ \A w \in Workers : Knows(w)

-----------------------------------------------------------------------------
\* What becomes of a record.

LEMMA ClaimStep ==
  ASSUME NEW rec \in OutboxRecord
  PROVE  LET new == AfterClaim(rec, WorkerId) IN
         /\ new \in OutboxRecord /\ new.status = "claimed" /\ new.max = rec.max
         /\ new.attempts = rec.attempts + 1 /\ new.version = rec.version + 1
<1> DEFINE new == AfterClaim(rec, WorkerId)
<1>1. PICK number \in Nat : number = rec.attempts + 1
  BY DEF OutboxRecord
<1>2. PICK version \in Nat : version = rec.version + 1
  BY DEF OutboxRecord
<1>3. LeaseTicks \in Nat /\ "claimed" \in OutboxStatus /\ WorkerId \in Owners
  BY OutboxAssumption, NotificationAssumption DEF OutboxStatus
<1>4. new = [rec EXCEPT !.status = "claimed", !.attempts = number, !.wait = 0,
                        !.owner = WorkerId, !.lease = LeaseTicks, !.version = version]
  BY <1>1, <1>2, Zenon DEF AfterClaim
<1> HIDE DEF new
<1>5. /\ new \in OutboxRecord /\ new.status = "claimed" /\ new.max = rec.max
      /\ new.attempts = number /\ new.version = version
  BY <1>3, <1>4 DEF OutboxRecord
<1>6. /\ new \in OutboxRecord /\ new.status = "claimed" /\ new.max = rec.max
      /\ new.attempts = rec.attempts + 1 /\ new.version = rec.version + 1
  BY <1>1, <1>2, <1>5
<1> QED BY <1>6 DEF new

LEMMA UnleaseStep ==
  ASSUME NEW rec \in OutboxRecord, NEW status \in TerminalRecord \cup {"pending"},
         NEW n \in Nat, status = "pending" \/ n = 0
  PROVE  LET new == Unleased(rec, status, n) IN
         /\ new \in OutboxRecord /\ new.status = status /\ new.max = rec.max
         /\ new.attempts = rec.attempts /\ new.version = rec.version + 1 /\ Rested(new)
<1> DEFINE new == Unleased(rec, status, n)
<1>1. status \in OutboxStatus /\ (status = "pending" => status \notin TerminalRecord)
  BY DEF OutboxStatus, TerminalRecord
<1>2. PICK version \in Nat : version = rec.version + 1
  BY DEF OutboxRecord
<1>3. new = [rec EXCEPT !.status = status, !.wait = n, !.owner = Nobody, !.lease = 0,
                        !.version = version]
  BY <1>2, Zenon DEF Unleased
<1> HIDE DEF new
<1>4. /\ new \in OutboxRecord /\ new.version = version /\ new.status = status
      /\ new.max = rec.max /\ new.attempts = rec.attempts /\ new.wait = n /\ new.lease = 0
  BY <1>1, <1>3 DEF OutboxRecord
<1>5. /\ new \in OutboxRecord /\ new.status = status /\ new.max = rec.max
      /\ new.attempts = rec.attempts /\ new.version = rec.version + 1 /\ Rested(new)
  BY <1>1, <1>2, <1>4 DEF Rested
<1> QED BY <1>5 DEF new

\* A cancellation changes a record that is not resolved yet, and no other.
LEMMA CancelStep ==
  ASSUME NEW rec \in OutboxRecord
  PROVE  IF rec.status \in TerminalRecord \cup {"none"}
         THEN AfterCancel(rec) = rec
         ELSE LET new == AfterCancel(rec) IN
              /\ new \in OutboxRecord /\ new.status = "cancelled" /\ new.max = rec.max
              /\ new.attempts = rec.attempts /\ new.version = rec.version + 1 /\ Rested(new)
BY UnleaseStep DEF AfterCancel, TerminalRecord

LEMMA RetryStep ==
  ASSUME NEW rec \in OutboxRecord, NEW wait \in Nat
  PROVE  LET new == AfterRetry(rec, wait) IN
         /\ new \in OutboxRecord /\ new.max = rec.max /\ Rested(new)
         /\ new.attempts = rec.attempts /\ new.version = rec.version + 1
         /\ new.status = IF Exhausted(rec) THEN "dead_lettered" ELSE "pending"
<1>1. CASE Exhausted(rec)
  BY <1>1, UnleaseStep DEF AfterRetry, TerminalRecord
<1>2. CASE ~Exhausted(rec)
  BY <1>2, UnleaseStep DEF AfterRetry
<1> QED BY <1>1, <1>2

LEMMA EndStep ==
  ASSUME NEW rec \in OutboxRecord
  PROVE  /\ LET new == AfterAcknowledge(rec) IN
            /\ new \in OutboxRecord /\ new.status = "accepted" /\ new.max = rec.max
            /\ new.attempts = rec.attempts /\ new.version = rec.version + 1 /\ Rested(new)
         /\ LET new == AfterDeadLetter(rec) IN
            /\ new \in OutboxRecord /\ new.status = "dead_lettered" /\ new.max = rec.max
            /\ new.attempts = rec.attempts /\ new.version = rec.version + 1 /\ Rested(new)
BY UnleaseStep DEF AfterAcknowledge, AfterDeadLetter, TerminalRecord

\* Time leaves a record in its place, and one that waits for nothing as it is.
LEMMA TickStep ==
  ASSUME NEW rec \in OutboxRecord
  PROVE  LET new == AfterTick(rec) IN
         /\ new \in OutboxRecord /\ new.status = rec.status /\ new.max = rec.max
         /\ new.attempts = rec.attempts /\ new.version = rec.version
         /\ rec.wait = 0 /\ rec.lease = 0 => new = rec
<1> DEFINE down(n) == IF n > 0 THEN n - 1 ELSE 0
<1>1. rec.wait \in Nat /\ rec.lease \in Nat
  BY DEF OutboxRecord
<1>2. down(rec.wait) \in Nat /\ down(rec.lease) \in Nat /\ down(0) = 0
  BY <1>1
<1>3. AfterTick(rec) = [rec EXCEPT !.wait = down(rec.wait), !.lease = down(rec.lease)]
  BY DEF AfterTick
<1> HIDE DEF down
<1> QED BY <1>2, <1>3 DEF OutboxRecord

-----------------------------------------------------------------------------
\* A step that is about one notification.

\* Nothing changes about m.
Untouched(m) ==
    /\ notifications'[m] = notifications[m] /\ records'[m] = records[m]
    /\ m \in delivered' <=> m \in delivered
    /\ \A a : a.n = m => (a \in attempts' <=> a \in attempts)
    /\ \A d : d.n = m => (d \in deadLetters' <=> d \in deadLetters)

\* A history tells what it did while nothing is added to it; a delivery by the
\* provider does not contradict that of a notification that was enqueued.
LEMMA HistoryStays ==
  ASSUME NEW m, HistoryTells(m),
         notifications'[m].status = notifications[m].status,
         records'[m].attempts = records[m].attempts, records'[m].max = records[m].max,
         \A a : a.n = m => (a \in attempts' <=> a \in attempts),
         \A d : d.n = m => (d \in deadLetters' <=> d \in deadLetters),
         m \in delivered => m \in delivered',
         m \in delivered' => m \in delivered \/ notifications[m].status \notin {"none", "suppressed"}
  PROVE  HistoryTells(m)'
<1>1. /\ {d \in deadLetters' : d.n = m} = {d \in deadLetters : d.n = m}
      /\ {a \in attempts' : a.n = m /\ a.outcome # "retryable_failure"} =
           {a \in attempts : a.n = m /\ a.outcome # "retryable_failure"}
  OBVIOUS
<1>2. RaisedLimit(m)' <=> RaisedLimit(m)
  BY DEF RaisedLimit
<1> QED BY <1>1, <1>2 DEF HistoryTells

LEMMA Frame ==
  ASSUME NEW m \in Notifications, Whole(m), Untouched(m)
  PROVE  Whole(m)'
<1>1. Fits(m)' /\ Paired(m)'
  BY DEF Whole, Fits, Paired, SetApart, RaisedLimit, Untouched, Rested
<1>2. HistoryTells(m)'
  BY HistoryStays DEF Whole, Untouched
<1> QED BY <1>1, <1>2 DEF Whole

\* A record does not go back, and neither does what is known of it.
Onward(n) ==
    /\ notifications[n].status \notin {"none", "suppressed"}
          => notifications'[n].status \notin {"none", "suppressed"}
    /\ records'[n].version >= records[n].version
    /\ records'[n].version = records[n].version => records'[n].attempts = records[n].attempts
    /\ records'[n].attempts >= records[n].attempts
    /\ n \in delivered => n \in delivered'

LEMMA KnowledgeStays ==
  ASSUME IInv, NEW w \in Workers, Knows(w), workers'[w] \in {workers[w], Resting},
         TypeOK', workers[w] # Resting => Onward(workers[w].n)
  PROVE  Knows(w)'
<1> SUFFICES ASSUME workers'[w] = workers[w], workers[w] # Resting PROVE Knows(w)'
  BY DEF Knows
<1> DEFINE n == workers[w].n
<1>1. /\ n \in Notifications /\ workers[w].version \in Nat
      /\ records[n].version \in Nat /\ records'[n].version \in Nat
      /\ workers[w].number \in Nat
      /\ records[n].attempts \in Nat /\ records'[n].attempts \in Nat
  BY DEF IInv, TypeOK, Dispatch, OutboxRecord
<1>2. Onward(n)
  OBVIOUS
<1> QED BY <1>1, <1>2 DEF Knows, Onward

LEMMA StepAt ==
  ASSUME IInv, NEW n \in Notifications, TypeOK', Whole(n)', Onward(n),
         \A m \in Notifications \ {n} : Untouched(m),
         \A w \in Workers : workers'[w] \in {workers[w], Resting}
  PROVE  IInv'
<1>1. \A m \in Notifications : Whole(m)'
  BY Frame DEF IInv
<1>2. \A m \in Notifications : Onward(m)
  BY DEF Onward, Untouched, IInv, TypeOK, OutboxRecord
<1>3. ASSUME NEW w \in Workers PROVE Knows(w)'
  <2>1. workers[w] # Resting => workers[w].n \in Notifications
    BY DEF IInv, TypeOK, Dispatch
  <2> QED BY <1>2, <2>1, KnowledgeStays DEF IInv
<1> QED BY <1>1, <1>3 DEF IInv

\* What is stored of one notification.
LEMMA Stored ==
  ASSUME IInv, NEW n \in Notifications
  PROVE  /\ Whole(n)
         /\ records[n] \in OutboxRecord /\ records[n].version \in Nat
         /\ records[n].attempts \in Nat /\ records[n].max \in Nat
         /\ notifications[n] \in [status : NotificationStatus, content : Nat]
BY DEF IInv, TypeOK, OutboxRecord

\* Other notifications keep what they have if one changes.
LEMMA OthersUntouched ==
  ASSUME IInv, NEW n \in Notifications, NEW notification, NEW rec,
         notifications' = [notifications EXCEPT ![n] = notification],
         records' = [records EXCEPT ![n] = rec],
         delivered' = delivered,
         \A a \in attempts' : a \in attempts \/ a.n = n, attempts \subseteq attempts',
         \A d \in deadLetters' : d \in deadLetters \/ d.n = n, deadLetters \subseteq deadLetters'
  PROVE  \A m \in Notifications \ {n} : Untouched(m)
BY DEF IInv, TypeOK, Untouched

LEMMA Creating ==
  ASSUME IInv, NEW n \in Notifications, NEW limit \in Limits, Create(n, limit)
  PROVE  IInv'
<1> DEFINE active == templates[TemplateOf[n]].active
<1>0. /\ notifications[n].status = "none" /\ records[n] = NoRecord /\ Whole(n)
      /\ notifications[n] \in [status : NotificationStatus, content : Nat]
  BY Stored DEF Whole, Fits, Create
<1>1. active \in Nat /\ limit \in Nat /\ limit >= 1
  BY NotificationAssumption DEF IInv, TypeOK
<1>2. NoRecord \in OutboxRecord /\ NoRecord.attempts = 0 /\ NoRecord.version = 0
  BY DEF NoRecord, OutboxRecord, OutboxStatus, Nobody
<1>3. /\ n \notin delivered
      /\ \A a \in attempts : a.n # n
      /\ \A d \in deadLetters : d.n # n
  BY <1>0, <1>2 DEF Whole, HistoryTells
<1>4. /\ UNCHANGED <<templates, enabled, attempts, deadLetters, delivered, workers>>
      /\ \A w \in Workers : workers'[w] \in {workers[w], Resting}
  BY DEF Create, content, books
<1>5. CASE /\ notifications' = [notifications EXCEPT ![n] =
                                  [status |-> "enqueued", content |-> active]]
           /\ records' = [records EXCEPT ![n] = NewRecord(limit)]
  <2>1. /\ NewRecord(limit) \in OutboxRecord /\ NewRecord(limit).status = "pending"
        /\ NewRecord(limit).attempts = 0 /\ NewRecord(limit).version = 1
        /\ Rested(NewRecord(limit))
    BY <1>1 DEF NewRecord, NoRecord, OutboxRecord, OutboxStatus, TerminalRecord, Nobody, Rested
  <2>2. /\ notifications'[n] = [status |-> "enqueued", content |-> active]
        /\ records'[n] = NewRecord(limit)
    BY <1>5 DEF IInv, TypeOK
  <2>3. TypeOK'
    BY <1>1, <1>4, <1>5, <2>1 DEF IInv, TypeOK, NotificationStatus
  <2>4. Fits(n)' /\ Paired(n)'
    BY <2>1, <2>2 DEF Fits, Paired, Partner
  <2>5. HistoryTells(n)'
    BY <1>3, <1>4, <2>1, <2>2 DEF HistoryTells
  <2>6. Onward(n)
    BY <1>0, <1>2, <1>4, <2>1, <2>2 DEF Onward
  <2>7. \A m \in Notifications \ {n} : Untouched(m)
    BY <1>4, <1>5, OthersUntouched
  <2> QED BY <1>4, <2>3, <2>4, <2>5, <2>6, <2>7, StepAt DEF Whole
<1>6. CASE /\ notifications' = [notifications EXCEPT ![n] =
                                  [status |-> "suppressed", content |-> active]]
           /\ records' = records
  <2>2. /\ notifications'[n] = [status |-> "suppressed", content |-> active]
        /\ records'[n] = NoRecord
    BY <1>0, <1>6 DEF IInv, TypeOK
  <2>3. TypeOK'
    BY <1>1, <1>4, <1>6 DEF IInv, TypeOK, NotificationStatus, Terminal
  <2>4. Fits(n)' /\ Paired(n)'
    BY <2>2 DEF Fits, Paired, Partner, Rested, NoRecord, TerminalRecord
  <2>5. HistoryTells(n)'
    BY <1>3, <1>4, <2>2 DEF HistoryTells
  <2>6. Onward(n)
    BY <1>0, <1>2, <1>4, <2>2 DEF Onward
  <2>7. \A m \in Notifications \ {n} : Untouched(m)
    BY <1>4, <1>6 DEF IInv, TypeOK, Untouched
  <2> QED BY <1>4, <2>3, <2>4, <2>5, <2>6, <2>7, StepAt DEF Whole
<1> QED BY <1>5, <1>6 DEF Create

LEMMA Partners ==
  /\ Partner("enqueued") = {"pending", "claimed"} /\ Partner("delivered") = {"accepted"}
  /\ Partner("cancelled") = {"cancelled"} /\ Partner("dead_lettered") = {"dead_lettered"}
BY Zenon DEF Partner

\* A cancellation of a notification that is enqueued or cancelled already.
LEMMA Cancelling ==
  ASSUME IInv, NEW n \in Notifications, notifications[n].status \in {"enqueued", "cancelled"},
         notifications' = [notifications EXCEPT ![n].status = "cancelled"],
         records' = [records EXCEPT ![n] = AfterCancel(@)],
         UNCHANGED <<templates, enabled, attempts, deadLetters, delivered>>,
         \A w \in Workers : workers'[w] \in {workers[w], Resting}, TypeOK'
  PROVE  IInv'
<1> DEFINE rec == records[n]  new == AfterCancel(rec)
           notification == [notifications[n] EXCEPT !.status = "cancelled"]
<1>1. /\ rec \in OutboxRecord /\ Whole(n)
      /\ rec.version \in Nat /\ rec.attempts \in Nat
      /\ notifications[n] \in [status : NotificationStatus, content : Nat]
  BY Stored
<1>2. /\ notifications' = [notifications EXCEPT ![n] = notification]
      /\ records' = [records EXCEPT ![n] = new]
  OBVIOUS
<1>3. /\ notifications'[n].status = "cancelled" /\ records'[n] = new
  BY <1>1 DEF IInv, TypeOK
<1>4. /\ new.attempts = rec.attempts /\ new.max = rec.max
      /\ Rested(new) /\ new.status # "claimed"
      /\ new.version = rec.version \/ new.version = rec.version + 1
      /\ SetApart(n) => new.status = "dead_lettered"
      /\ ~SetApart(n) => new.status = "cancelled"
  <2>1. CASE rec.status \in TerminalRecord \cup {"none"}
    <3>1. new = rec
      BY <1>1, <2>1, CancelStep
    <3>2. Rested(rec) /\ rec.status # "claimed"
      BY <1>1, <2>1 DEF Whole, Fits, TerminalRecord
    <3>3. SetApart(n) => rec.status = "dead_lettered"
      BY DEF SetApart
    <3>4. ~SetApart(n) => rec.status = "cancelled"
      BY <1>1, <2>1, Partners DEF Whole, Paired, TerminalRecord
    <3> HIDE DEF rec, new
    <3> QED BY <3>1, <3>2, <3>3, <3>4
  <2>2. CASE rec.status \notin TerminalRecord \cup {"none"}
    <3>1. /\ new.status = "cancelled" /\ new.max = rec.max /\ new.attempts = rec.attempts
          /\ new.version = rec.version + 1 /\ Rested(new)
      BY <1>1, <2>2, CancelStep
    <3>2. ~SetApart(n)
      BY <2>2 DEF SetApart, TerminalRecord
    <3> HIDE DEF rec, new
    <3> QED BY <3>1, <3>2
  <2> QED BY <2>1, <2>2
<1>5. Fits(n)'
  BY <1>3, <1>4 DEF Fits
<1>6. Paired(n)'
  BY <1>3, <1>4, Partners DEF Paired, SetApart, RaisedLimit
<1>7. HistoryTells(n)'
  BY <1>1, <1>3, <1>4 DEF Whole, HistoryTells
<1>8. Onward(n)
  BY <1>1, <1>3, <1>4 DEF Onward
<1>9. \A m \in Notifications \ {n} : Untouched(m)
  BY <1>2, OthersUntouched
<1> QED BY <1>5, <1>6, <1>7, <1>8, <1>9, StepAt DEF Whole

\* A cancelled record is a record.
LEMMA CancelTyped ==
  ASSUME TypeOK, NEW n \in Notifications
  PROVE  AfterCancel(records[n]) \in OutboxRecord
<1>1. records[n] \in OutboxRecord
  BY DEF TypeOK
<1> QED BY <1>1, CancelStep

LEMMA Claiming ==
  ASSUME IInv, NEW w \in Workers, NEW n \in Notifications, Claim(w, n)
  PROVE  IInv'
<1> DEFINE rec == records[n]  new == AfterClaim(rec, WorkerId)
           job == [stage |-> "claimed", n |-> n, number |-> rec.attempts + 1,
                   version |-> rec.version + 1]
<1>0. /\ rec \in OutboxRecord /\ Whole(n) /\ notifications[n].status = "enqueued"
      /\ rec.version \in Nat /\ rec.attempts \in Nat
      /\ rec.status \in {"pending", "claimed"}
  BY Stored DEF Claim, Claimable, Eligible
<1>1. /\ new \in OutboxRecord /\ new.status = "claimed" /\ new.max = rec.max
      /\ new.attempts = rec.attempts + 1 /\ new.version = rec.version + 1
  BY <1>0, ClaimStep
<1>2. /\ records' = [records EXCEPT ![n] = new] /\ workers' = [workers EXCEPT ![w] = job]
      /\ UNCHANGED <<templates, enabled, notifications, attempts, deadLetters, delivered>>
  BY DEF Claim, content, books
<1>3. job \in Dispatch
  BY <1>0 DEF Dispatch
<1>4. Rested(new)
  BY <1>1 DEF Rested, TerminalRecord
<1>5. job.n = n /\ job.stage = "claimed" /\ job.number = rec.attempts + 1
      /\ job.version = rec.version + 1
  OBVIOUS
<1> HIDE DEF new, job
<1>6. TypeOK'
  BY <1>1, <1>2, <1>3 DEF IInv, TypeOK
<1>7. records'[n] = new /\ notifications'[n] = notifications[n] /\ workers'[w] = job
  BY <1>2 DEF IInv, TypeOK
<1>8. Fits(n)' /\ Paired(n)'
  BY <1>0, <1>1, <1>4, <1>7, Partners DEF Fits, Paired
<1>9. HistoryTells(n)'
  <2>1. /\ \A a \in attempts : a.n = n => a.number \in 1 .. rec.attempts
        /\ {a \in attempts : a.n = n /\ a.outcome # "retryable_failure"} = {}
        /\ {d \in deadLetters : d.n = n} = {}
    BY <1>0 DEF Whole, HistoryTells
  <2>2. \A a \in attempts : a.n = n => a.number \in 1 .. rec.attempts + 1
    BY <1>0, <2>1
  <2> QED BY <1>0, <1>1, <1>2, <1>7, <2>1, <2>2 DEF HistoryTells
<1>10. \A m \in Notifications : Onward(m)
  BY <1>0, <1>1, <1>2 DEF Onward, IInv, TypeOK, OutboxRecord
<1>11. \A m \in Notifications \ {n} : Untouched(m)
  BY <1>2 DEF IInv, TypeOK, Untouched
<1>12. \A m \in Notifications : Whole(m)'
  BY <1>8, <1>9, <1>11, Frame DEF IInv, Whole
<1>13. ASSUME NEW v \in Workers PROVE Knows(v)'
  <2>1. CASE v = w
    BY <1>0, <1>1, <1>5, <1>7, <2>1 DEF Knows
  <2>2. CASE v # w
    <3>1. workers'[v] = workers[v] /\ (workers[v] # Resting => workers[v].n \in Notifications)
      BY <1>2, <2>2 DEF IInv, TypeOK, Dispatch
    <3> QED BY <1>6, <1>10, <3>1, KnowledgeStays DEF IInv
  <2> QED BY <2>1, <2>2
<1> QED BY <1>6, <1>12, <1>13 DEF IInv

\* An attempt of an enqueued notification, recorded together with its end: a
\* final outcome with the status that tells it, or a failure to be retried. It
\* is the last one unless the record was given up under a lower limit.
Closes(outcome, status) ==
    \/ outcome = "accepted" /\ status = "delivered"
    \/ outcome = "permanent_failure" /\ status = "dead_lettered"
    \/ outcome = "retryable_failure" /\ status = "enqueued"

LEMMA Recording ==
  ASSUME IInv, NEW n \in Notifications, NEW outcome \in Outcomes, NEW status, NEW new,
         NEW k \in 1 .. records[n].attempts,
         notifications[n].status = "enqueued", Closes(outcome, status),
         new \in OutboxRecord, Rested(new), new.status # "claimed",
         new.attempts = records[n].attempts,
         new = records[n] \/ new.version = records[n].version + 1,
         \/ new.status \in Partner(status)
         \/ /\ status = "enqueued" /\ new.status = "dead_lettered"
            /\ \E limit \in Limits : limit > new.max,
         outcome = "accepted" => n \in delivered,
         \/ k = records[n].attempts
         \/ outcome = "permanent_failure" /\ \E limit \in Limits : limit > new.max,
         AppendAttempt(n, k, outcome),
         IF outcome = "permanent_failure" THEN DeadLetter(n, k)
         ELSE /\ notifications' = [notifications EXCEPT ![n].status = status]
              /\ deadLetters' = deadLetters,
         records' = [records EXCEPT ![n] = new],
         UNCHANGED <<templates, enabled, delivered>>,
         \A w \in Workers : workers'[w] \in {workers[w], Resting},
         workers' \in [Workers -> {Resting} \cup Dispatch]
  PROVE  IInv'
<1> DEFINE a0 == [n |-> n, number |-> k, outcome |-> outcome]
           d0 == [n |-> n, number |-> k]
<1>0. /\ Whole(n) /\ records[n] \in OutboxRecord /\ records[n].version \in Nat
      /\ records[n].attempts \in Nat /\ k \in Nat
      /\ notifications[n] \in [status : NotificationStatus, content : Nat]
  BY Stored
<1>1. /\ notifications' = [notifications EXCEPT ![n].status = status]
      /\ deadLetters' = IF outcome = "permanent_failure" THEN deadLetters \cup {d0}
                        ELSE deadLetters
      /\ attempts' = attempts \cup {a0}
  BY DEF Closes, DeadLetter, AppendAttempt
<1>2. a0 \in Attempt /\ d0 \in [n : Notifications, number : Nat] /\ a0.n = n /\ d0.n = n
      /\ a0.number = k /\ a0.outcome = outcome
  BY <1>0 DEF Attempt
<1>3. status \in NotificationStatus
  BY DEF Closes, NotificationStatus, Terminal
<1>4. notifications'[n].status = status /\ records'[n] = new
  BY <1>1, <1>0 DEF IInv, TypeOK
<1>5. TypeOK'
  <2>1. [notifications[n] EXCEPT !.status = status] \in [status : NotificationStatus, content : Nat]
    BY <1>0, <1>3
  <2>2. notifications' \in [Notifications -> [status : NotificationStatus, content : Nat]]
    BY <1>1, <2>1 DEF IInv, TypeOK
  <2>3. attempts' \subseteq Attempt /\ deadLetters' \subseteq [n : Notifications, number : Nat]
    BY <1>1, <1>2 DEF IInv, TypeOK
  <2> QED BY <2>2, <2>3 DEF IInv, TypeOK
<1> HIDE DEF a0, d0
<1>6. Fits(n)'
  BY <1>4 DEF Fits, Closes
<1>7. Paired(n)'
  BY <1>4 DEF Paired, SetApart, RaisedLimit
<1>8. HistoryTells(n)'
  <2>1. /\ \A a \in attempts : a.n = n => a.number \in 1 .. records[n].attempts
        /\ {a \in attempts : a.n = n /\ a.outcome # "retryable_failure"} = {}
        /\ {d \in deadLetters : d.n = n} = {}
    BY <1>0 DEF Whole, HistoryTells
  <2>2. /\ \A a \in attempts' : a.n = n => a.number \in 1 .. records[n].attempts
        /\ {a \in attempts' : a.n = n /\ a.outcome # "retryable_failure"} =
             IF outcome = "retryable_failure" THEN {} ELSE {a0}
        /\ {d \in deadLetters' : d.n = n} = IF outcome = "permanent_failure" THEN {d0} ELSE {}
    BY <1>1, <1>2, <2>1
  <2>3. (\E limit \in Limits : limit > new.max) => RaisedLimit(n)'
    BY <1>4 DEF RaisedLimit
  <2>4. records'[n].attempts = records[n].attempts /\ delivered' = delivered
    BY <1>4
  <2>5. CASE outcome = "accepted" /\ status = "delivered"
    <3>1. a0 = [n |-> n, number |-> records[n].attempts, outcome |-> "accepted"]
      BY <2>5 DEF a0
    <3> QED BY <1>4, <2>2, <2>4, <2>5, <3>1 DEF HistoryTells
  <2>6. CASE outcome = "permanent_failure" /\ status = "dead_lettered"
    <3>1. a0 = [n |-> n, number |-> k, outcome |-> "permanent_failure"]
      BY <2>6 DEF a0
    <3>2. d0 = [n |-> n, number |-> k] /\ (k = records[n].attempts \/ RaisedLimit(n)')
      BY <2>3 DEF d0
    <3> QED BY <1>4, <2>2, <2>4, <2>6, <3>1, <3>2 DEF HistoryTells
  <2>7. CASE outcome = "retryable_failure" /\ status = "enqueued"
    BY <1>4, <2>2, <2>4, <2>7 DEF HistoryTells
  <2> QED BY <2>5, <2>6, <2>7 DEF Closes
<1>9. Onward(n)
  BY <1>0, <1>4 DEF Onward, Closes
<1>10. \A m \in Notifications \ {n} : Untouched(m)
  BY <1>1, <1>2, OthersUntouched
<1> QED BY <1>5, <1>6, <1>7, <1>8, <1>9, <1>10, StepAt DEF Whole

LEMMA Reconciling ==
  ASSUME IInv, NEW n \in Notifications, ReconcileExhausted(n)
  PROVE  IInv'
<1> DEFINE new == AfterDeadLetter(records[n])
<1>1. /\ records[n] \in OutboxRecord /\ Fits(n)
  BY Stored DEF Whole
<1>2. /\ new \in OutboxRecord /\ new.status = "dead_lettered" /\ Rested(new)
      /\ new.attempts = records[n].attempts /\ new.version = records[n].version + 1
  BY <1>1, EndStep
<1>3. /\ records' = [records EXCEPT ![n] = new]
      /\ notifications[n].status = "enqueued" /\ records[n].attempts >= 1
      /\ UNCHANGED <<templates, enabled, delivered, workers>>
      /\ AppendAttempt(n, records[n].attempts, "permanent_failure")
      /\ DeadLetter(n, records[n].attempts)
  BY <1>1 DEF ReconcileExhausted, content, Fits
<1>4. workers' \in [Workers -> {Resting} \cup Dispatch]
  BY <1>3 DEF IInv, TypeOK
<1> HIDE DEF new
<1>5. Closes("permanent_failure", "dead_lettered") /\ "permanent_failure" \in Outcomes
  BY DEF Closes, Outcomes
<1>6. records[n].attempts \in 1 .. records[n].attempts
  BY <1>1, <1>3 DEF OutboxRecord
<1> QED BY <1>2, <1>3, <1>4, <1>5, <1>6, Partners, Recording

LEMMA Delivering ==
  ASSUME IInv, NEW w \in Workers, Deliver(w)
  PROVE  IInv'
<1>0. workers[w] # Resting /\ workers[w].stage = "claimed" /\ workers[w] \in Dispatch
      /\ Knows(w)
  BY DEF Deliver, IInv, TypeOK, Resting
<1>a. PICK n \in Notifications : n = workers[w].n
  BY <1>0 DEF Dispatch
<1>1. PICK outcome \in Outcomes :
        /\ workers' = [workers EXCEPT ![w].stage = outcome]
        /\ delivered \subseteq delivered' /\ delivered' \subseteq delivered \cup {n}
        /\ outcome = "accepted" => n \in delivered'
  BY <1>a DEF Deliver, Outcomes
<1>2. UNCHANGED <<templates, enabled, notifications, records, attempts, deadLetters>>
  BY DEF Deliver, content, books
<1>3. [workers[w] EXCEPT !.stage = outcome] \in Dispatch
  BY <1>0 DEF Dispatch
<1>4. TypeOK'
  <2>1. workers' \in [Workers -> {Resting} \cup Dispatch]
    BY <1>1, <1>3 DEF IInv, TypeOK
  <2> QED BY <1>0, <1>1, <1>2, <2>1 DEF IInv, TypeOK
<1>5. \A m \in Notifications : Whole(m)'
  <2>1. ASSUME NEW m \in Notifications, m # n PROVE Whole(m)'
    BY <1>1, <1>2, <2>1, Frame DEF IInv, Untouched
  <2>2. Whole(n)'
    <3>1. notifications[n].status \notin {"none", "suppressed"} /\ Whole(n)
      BY <1>0, <1>a DEF Knows, IInv
    <3>2. Fits(n)' /\ Paired(n)'
      BY <1>2, <3>1 DEF Whole, Fits, Paired, SetApart, RaisedLimit
    <3>3. HistoryTells(n)'
      BY <1>1, <1>2, <3>1, HistoryStays DEF Whole
    <3> QED BY <3>2, <3>3 DEF Whole
  <2> QED BY <2>1, <2>2
<1>6. ASSUME NEW v \in Workers PROVE Knows(v)'
  <2>1. CASE v = w
    <3>1. workers'[w] = [workers[w] EXCEPT !.stage = outcome]
      BY <1>1 DEF IInv, TypeOK
    <3>2. /\ workers'[w].n = n /\ workers'[w].number = workers[w].number
          /\ workers'[w].version = workers[w].version /\ workers'[w].stage = outcome
      BY <1>0, <1>a, <3>1 DEF Dispatch
    <3> QED BY <1>0, <1>a, <1>1, <1>2, <2>1, <3>2 DEF Knows
  <2>2. CASE v # w
    <3>1. workers'[v] = workers[v] /\ Knows(v)
      BY <1>1, <2>2 DEF IInv, TypeOK
    <3> QED BY <1>1, <1>2, <3>1 DEF Knows
  <2> QED BY <2>1, <2>2
<1> QED BY <1>4, <1>5, <1>6 DEF IInv

\* A worker that still holds the claim it made knows the attempt it is at.
LEMMA Holding ==
  ASSUME IInv, NEW w \in Workers, workers[w] # Resting,
         NEW n \in Notifications, n = workers[w].n,
         HoldsLease(records[n], WorkerId, workers[w].version),
         notifications[n].status \notin Terminal
  PROVE  /\ notifications[n].status = "enqueued"
         /\ workers[w].number = records[n].attempts /\ records[n].attempts >= 1
<1>1. Whole(n) /\ notifications[n].status \in NotificationStatus /\ Knows(w)
  BY Stored DEF IInv
<1> QED BY <1>1 DEF Knows, HoldsLease, HoldsClaim, NotificationStatus

LEMMA RetryDelayTyped ==
  ASSUME NEW number \in Nat
  PROVE  RetryDelay(number) \in Nat
<1> DEFINE delay == 2 ^ (number - 1)
<1>1. IF delay \in 0 .. MaxWait THEN delay \in Nat ELSE MaxWait \in Nat
  BY OutboxAssumption
<1> HIDE DEF delay
<1>2. (IF delay \in 0 .. MaxWait THEN delay ELSE MaxWait) \in Nat
  BY <1>1
<1> QED BY <1>2 DEF RetryDelay, delay

LEMMA Finalizing ==
  ASSUME IInv, NEW w \in Workers, NEW limit \in Limits, Finalize(w, limit)
  PROVE  IInv'
<1>0. workers[w] # Resting /\ workers[w] \in Dispatch /\ Knows(w)
  BY DEF Finalize, IInv, TypeOK, Resting, Outcomes
<1>1. PICK n \in Notifications : n = workers[w].n
  BY <1>0 DEF Dispatch
<1> DEFINE rec == records[n]  k == workers[w].number
<1>2. /\ rec \in OutboxRecord /\ Whole(n) /\ rec.attempts \in Nat /\ rec.max \in Nat
      /\ k \in 1 .. rec.attempts
      /\ notifications[n] \in [status : NotificationStatus, content : Nat]
  BY <1>0, <1>1, Stored DEF Knows
<1>3. /\ workers' = [workers EXCEPT ![w] = Resting]
      /\ UNCHANGED <<templates, enabled, delivered>>
  BY DEF Finalize, content
<1>4. /\ workers' \in [Workers -> {Resting} \cup Dispatch]
      /\ \A v \in Workers : workers'[v] \in {workers[v], Resting}
  BY <1>3 DEF IInv, TypeOK
<1>5. CASE UNCHANGED <<notifications, records, attempts, deadLetters>>
  <2>1. TypeOK' /\ \A m \in Notifications : Untouched(m)
    BY <1>3, <1>4, <1>5 DEF IInv, TypeOK, Untouched
  <2>2. Whole(n)' /\ Onward(n)
    BY <1>2, <1>3, <1>5, <2>1, Frame DEF Onward, OutboxRecord
  <2> QED BY <1>4, <2>1, <2>2, StepAt
<1>6. CASE notifications[n].status \in Terminal
  <2>1. records' = [records EXCEPT ![n] = AfterCancel(rec)]
        /\ UNCHANGED <<notifications, attempts, deadLetters>>
    BY <1>1, <1>6 DEF Finalize, books
  <2>2. rec.status \in TerminalRecord \cup {"none"}
    BY <1>2, <1>6, Zenon DEF Whole, Paired, SetApart, RaisedLimit, Partner, Terminal, TerminalRecord
  <2>3. AfterCancel(rec) = rec
    BY <1>2, <2>2, CancelStep
  <2>4. UNCHANGED records
    BY <2>1, <2>3 DEF IInv, TypeOK
  <2> QED BY <1>5, <2>1, <2>4
<1>7. CASE notifications[n].status \notin Terminal /\ HoldsLease(rec, WorkerId, workers[w].version)
  <2>1. /\ notifications[n].status = "enqueued" /\ k = rec.attempts /\ rec.attempts >= 1
        /\ rec.status = "claimed"
    BY <1>0, <1>1, <1>7, Holding DEF HoldsLease, HoldsClaim
  <2>2. CASE /\ workers[w].stage = "accepted"
             /\ AppendAttempt(n, k, "accepted")
             /\ notifications' = [notifications EXCEPT ![n].status = "delivered"]
             /\ records' = [records EXCEPT ![n] = AfterAcknowledge(rec)]
             /\ UNCHANGED deadLetters
    <3> DEFINE new == AfterAcknowledge(rec)
    <3>1. /\ new \in OutboxRecord /\ new.status = "accepted" /\ Rested(new)
          /\ new.attempts = rec.attempts /\ new.version = rec.version + 1
      BY <1>2, EndStep
    <3>2. n \in delivered
      BY <1>0, <1>1, <2>2 DEF Knows
    <3>3. Closes("accepted", "delivered") /\ "accepted" \in Outcomes
      BY DEF Closes, Outcomes
    <3> HIDE DEF new
    <3>4. new.status \in Partner("delivered")
      BY <3>1, Partners
    <3>5. records' = [records EXCEPT ![n] = new]
      BY <2>2 DEF new
    <3> QED BY <1>2, <1>3, <1>4, <2>1, <2>2, <3>1, <3>2, <3>3, <3>4, <3>5, Recording
  <2>3. CASE /\ k < limit
             /\ AppendAttempt(n, k, "retryable_failure")
             /\ records' = [records EXCEPT ![n] = AfterRetry(rec, RetryDelay(k))]
             /\ UNCHANGED <<notifications, deadLetters>>
    <3> DEFINE new == AfterRetry(rec, RetryDelay(k))
    <3>1. RetryDelay(k) \in Nat
      BY <1>2, <2>1, RetryDelayTyped
    <3>2. /\ new \in OutboxRecord /\ new.max = rec.max /\ Rested(new)
          /\ new.attempts = rec.attempts /\ new.version = rec.version + 1
          /\ new.status = IF Exhausted(rec) THEN "dead_lettered" ELSE "pending"
      BY <1>2, <3>1, RetryStep
    <3>3. Closes("retryable_failure", "enqueued") /\ "retryable_failure" \in Outcomes
      BY DEF Closes, Outcomes
    <3> HIDE DEF new
    <3>4. \/ new.status \in Partner("enqueued")
          \/ new.status = "dead_lettered" /\ \E l \in Limits : l > new.max
      <4>1. limit \in Nat
        BY NotificationAssumption
      <4> QED BY <1>2, <2>1, <2>3, <3>2, <4>1, Partners DEF Exhausted
    <3>5. notifications' = [notifications EXCEPT ![n].status = "enqueued"]
      BY <1>2, <2>1, <2>3 DEF IInv, TypeOK
    <3>6. records' = [records EXCEPT ![n] = new] /\ new.status # "claimed"
      BY <2>3, <3>2 DEF new
    <3> QED BY <1>2, <1>3, <1>4, <2>1, <2>3, <3>2, <3>3, <3>4, <3>5, <3>6, Recording
  <2>4. CASE /\ AppendAttempt(n, k, "permanent_failure")
             /\ DeadLetter(n, k)
             /\ records' = [records EXCEPT ![n] = AfterDeadLetter(rec)]
    <3> DEFINE new == AfterDeadLetter(rec)
    <3>1. /\ new \in OutboxRecord /\ new.status = "dead_lettered" /\ Rested(new)
          /\ new.attempts = rec.attempts /\ new.version = rec.version + 1
      BY <1>2, EndStep
    <3>2. Closes("permanent_failure", "dead_lettered") /\ "permanent_failure" \in Outcomes
      BY DEF Closes, Outcomes
    <3> HIDE DEF new
    <3>3. new.status \in Partner("dead_lettered")
      BY <3>1, Partners
    <3>4. records' = [records EXCEPT ![n] = new]
      BY <2>4 DEF new
    <3> QED BY <1>2, <1>3, <1>4, <2>1, <2>4, <3>1, <3>2, <3>3, <3>4, Recording
  <2> QED BY <1>1, <1>7, <2>2, <2>3, <2>4 DEF Finalize
\* A claim that was lost when the record was given up under a lower limit.
<1>8. CASE /\ notifications[n].status \notin Terminal /\ rec.status = "dead_lettered"
           /\ AppendAttempt(n, k, "permanent_failure")
           /\ DeadLetter(n, k)
           /\ records' = records
  <2>1. notifications[n].status \in NotificationStatus
        /\ notifications[n].status \notin {"none", "suppressed"}
    BY <1>0, <1>1, <1>2 DEF Knows
  <2>2. notifications[n].status = "enqueued"
    BY <1>8, <2>1 DEF NotificationStatus
  <2>3. \E l \in Limits : l > rec.max
    BY <1>2, <1>8, <2>2, Partners DEF Whole, Paired, SetApart, RaisedLimit
  <2>4. /\ Rested(rec) /\ rec.status # "claimed" /\ rec.status \in Partner("dead_lettered")
        /\ records' = [records EXCEPT ![n] = rec]
    BY <1>2, <1>8, Partners DEF Whole, Fits, IInv, TypeOK
  <2>5. Closes("permanent_failure", "dead_lettered") /\ "permanent_failure" \in Outcomes
    BY DEF Closes, Outcomes
  <2> QED BY <1>2, <1>3, <1>4, <1>8, <2>2, <2>3, <2>4, <2>5, Recording
<1> QED BY <1>1, <1>5, <1>6, <1>7, <1>8 DEF Finalize, books

LEMMA Ticking ==
  ASSUME IInv, Tick
  PROVE  IInv' /\ \A n \in Notifications : notifications[n].status \in Terminal
                                             => records'[n] = records[n]
<1>1. ASSUME NEW n \in Notifications
      PROVE  /\ records'[n] \in OutboxRecord /\ records'[n].status = records[n].status
             /\ records'[n].max = records[n].max /\ records'[n].attempts = records[n].attempts
             /\ records'[n].version = records[n].version
             /\ records[n].wait = 0 /\ records[n].lease = 0 => records'[n] = records[n]
  <2>1. records[n] \in OutboxRecord /\ records'[n] = AfterTick(records[n])
    BY DEF IInv, TypeOK, Tick
  <2> QED BY <2>1, TickStep
<1>2. /\ UNCHANGED <<templates, enabled, notifications, attempts, deadLetters, delivered, workers>>
      /\ records' = [n \in Notifications |-> AfterTick(records[n])]
  BY DEF Tick, content, books
<1>3. TypeOK'
  BY <1>1, <1>2 DEF IInv, TypeOK
<1>4. ASSUME NEW n \in Notifications
      PROVE  Whole(n)' /\ (notifications[n].status \in Terminal => records'[n] = records[n])
  <2>1. Whole(n)
    BY DEF IInv
  <2>2. NoRecord.wait = 0 /\ NoRecord.lease = 0
    BY DEF NoRecord
  <2>3. Fits(n)'
    BY <1>1, <1>2, <2>1, <2>2 DEF Whole, Fits, Rested
  <2>4. Paired(n)'
    BY <1>1, <1>2, <2>1 DEF Whole, Paired, SetApart, RaisedLimit
  <2>5. HistoryTells(n)'
    BY <1>1, <1>2, <2>1, HistoryStays DEF Whole
  <2>6. ASSUME notifications[n].status \in Terminal PROVE records'[n] = records[n]
    <3>1. records[n] = NoRecord \/ records[n].status \in TerminalRecord
      BY <2>1, <2>6, Zenon DEF Whole, Fits, Paired, SetApart, RaisedLimit, Partner, Terminal, TerminalRecord
    <3> QED BY <1>1, <2>1, <2>2, <3>1 DEF Whole, Fits, Rested
  <2> QED BY <2>3, <2>4, <2>5, <2>6 DEF Whole
<1>5. ASSUME NEW w \in Workers PROVE Knows(w)'
  <2>1. workers[w] # Resting => workers[w].n \in Notifications
    BY DEF IInv, TypeOK, Dispatch
  <2>2. workers[w] # Resting => Onward(workers[w].n)
    BY <1>1, <1>2, <2>1 DEF Onward, IInv, TypeOK, OutboxRecord
  <2> QED BY <1>2, <1>3, <2>2, KnowledgeStays DEF IInv
<1> QED BY <1>3, <1>4, <1>5 DEF IInv

\* Nothing stored changes: a worker gives up, or templates and preferences do.
LEMMA StoresStay ==
  ASSUME IInv, UNCHANGED <<notifications, records, attempts, deadLetters, delivered>>,
         TypeOK', \A w \in Workers : workers'[w] \in {workers[w], Resting}
  PROVE  IInv'
<1>1. \A n \in Notifications : Untouched(n) /\ Onward(n)
  BY DEF Untouched, Onward, IInv, TypeOK, OutboxRecord
<1>2. \A n \in Notifications : Whole(n)'
  BY <1>1, Frame DEF IInv
<1>3. ASSUME NEW w \in Workers PROVE Knows(w)'
  <2>1. workers[w] # Resting => workers[w].n \in Notifications
    BY DEF IInv, TypeOK, Dispatch
  <2> QED BY <1>1, <2>1, KnowledgeStays DEF IInv
<1> QED BY <1>2, <1>3 DEF IInv

LEMMA Managing ==
  ASSUME IInv, Manage
  PROVE  IInv'
<1>1. ASSUME NEW t \in Templates,
             \/ RegisterTemplate(t) \/ AddTemplateVersion(t)
             \/ \E version \in 1 .. MaxTemplate : ActivateTemplate(t, version)
      PROVE  IInv'
  <2>1. UNCHANGED <<enabled, notifications, records, attempts, deadLetters, delivered, workers>>
    BY <1>1 DEF RegisterTemplate, AddTemplateVersion, ActivateTemplate, books
  <2>2. templates[t].newest \in Nat /\ templates[t].active \in Nat
    BY DEF IInv, TypeOK
  <2>3. templates' \in [Templates -> [newest : Nat, active : Nat]]
    <3>1. CASE RegisterTemplate(t)
      BY <2>2, <3>1 DEF RegisterTemplate, IInv, TypeOK
    <3>2. CASE AddTemplateVersion(t)
      <4>1. PICK newest \in Nat : newest = templates[t].newest + 1
        BY <2>2
      <4>2. templates' = [templates EXCEPT ![t].newest = newest]
        BY <3>2, <4>1 DEF AddTemplateVersion
      <4> QED BY <2>2, <4>2 DEF IInv, TypeOK
    <3>3. ASSUME NEW version \in 1 .. MaxTemplate, ActivateTemplate(t, version)
          PROVE  templates' \in [Templates -> [newest : Nat, active : Nat]]
      BY <2>2, <3>3 DEF ActivateTemplate, IInv, TypeOK
    <3> QED BY <1>1, <3>1, <3>2, <3>3
  <2>4. TypeOK'
    BY <2>1, <2>3 DEF IInv, TypeOK
  <2> QED BY <2>1, <2>4, StoresStay
<1>2. ASSUME NEW r \in Recipients, NEW value \in BOOLEAN, SetPreference(r, value)
      PROVE  IInv'
  <2>1. /\ UNCHANGED <<templates, notifications, records, attempts, deadLetters, delivered, workers>>
        /\ enabled' = [enabled EXCEPT ![r] = value]
    BY <1>2 DEF SetPreference, books
  <2>2. TypeOK'
    BY <2>1 DEF IInv, TypeOK
  <2> QED BY <2>1, <2>2, StoresStay
<1>3. ASSUME NEW n \in Notifications, Cancel(n) PROVE IInv'
  <2>1. /\ notifications[n].status = "enqueued"
        /\ notifications' = [notifications EXCEPT ![n].status = "cancelled"]
        /\ records' = [records EXCEPT ![n] = AfterCancel(@)]
        /\ UNCHANGED <<templates, enabled, attempts, deadLetters, delivered, workers>>
    BY <1>3 DEF Cancel, content, books
  <2>2. TypeOK'
    BY <2>1, CancelTyped DEF IInv, TypeOK, NotificationStatus, Terminal
  <2> QED BY <2>1, <2>2, Cancelling
<1>4. ASSUME NEW n \in Notifications, NEW limit \in Limits, Create(n, limit) PROVE IInv'
  BY <1>4, Creating
<1> QED BY <1>1, <1>2, <1>3, <1>4 DEF Manage

LEMMA Initially == Init => IInv
<1> SUFFICES ASSUME Init PROVE IInv
  OBVIOUS
<1>1. NoRecord \in OutboxRecord /\ Rested(NoRecord) /\ NoRecord.status = "none"
      /\ NoRecord.attempts = 0
  BY DEF NoRecord, OutboxRecord, OutboxStatus, TerminalRecord, Nobody, Rested
<1>2. TypeOK
  BY <1>1 DEF Init, TypeOK, NotificationStatus
<1>3. ASSUME NEW n \in Notifications PROVE Whole(n)
  <2>1. notifications[n].status = "none" /\ records[n] = NoRecord
    BY DEF Init
  <2>2. Fits(n)
    BY <1>1, <2>1 DEF Fits
  <2>3. Paired(n)
    BY <1>1, <2>1, Zenon DEF Paired, Partner
  <2>4. HistoryTells(n)
    BY <1>1, <2>1 DEF Init, HistoryTells
  <2> QED BY <2>2, <2>3, <2>4 DEF Whole
<1> QED BY <1>2, <1>3 DEF IInv, Init, Knows

\* Every step keeps the invariant.
LEMMA Inductive == IInv /\ [Next]_vars => IInv'
<1> SUFFICES ASSUME IInv, [Next]_vars PROVE IInv'
  OBVIOUS
<1>1. ASSUME NEW n \in Notifications, Replay(n) PROVE IInv'
  <2>1. /\ notifications[n].status = "cancelled"
        /\ records' = [records EXCEPT ![n] = AfterCancel(@)]
        /\ UNCHANGED <<templates, enabled, notifications, attempts, deadLetters, delivered, workers>>
    BY <1>1 DEF Replay, content, books
  <2>2. notifications' = [notifications EXCEPT ![n].status = "cancelled"]
    BY <2>1 DEF IInv, TypeOK
  <2>3. TypeOK'
    BY <2>1, CancelTyped DEF IInv, TypeOK
  <2> QED BY <2>1, <2>2, <2>3, Cancelling
<1>2. ASSUME NEW w \in Workers, Crash(w) PROVE IInv'
  <2>1. /\ workers' = [workers EXCEPT ![w] = Resting]
        /\ UNCHANGED <<templates, enabled, notifications, records, attempts, deadLetters, delivered>>
    BY <1>2 DEF Crash, content, books
  <2>2. TypeOK' /\ \A v \in Workers : workers'[v] \in {workers[v], Resting}
    BY <2>1 DEF IInv, TypeOK
  <2> QED BY <2>1, <2>2, StoresStay
<1>3. CASE UNCHANGED vars
  <2>1. UNCHANGED <<templates, enabled, notifications, records, attempts, deadLetters, delivered, workers>>
    BY <1>3 DEF vars
  <2>2. TypeOK'
    BY <2>1 DEF IInv, TypeOK
  <2> QED BY <2>1, <2>2, StoresStay
<1> QED BY <1>1, <1>2, <1>3, Managing, Reconciling, Claiming, Delivering, Finalizing, Ticking
     DEF Next, DispatchNext

-----------------------------------------------------------------------------
\* What is final.

\* The record of a resolved notification can no longer be cancelled.
LEMMA ResolvedRecord ==
  ASSUME IInv, NEW n \in Notifications, notifications[n].status \in Terminal
  PROVE  AfterCancel(records[n]) = records[n]
<1>1. Whole(n) /\ records[n] \in OutboxRecord
  BY Stored
<1>2. records[n].status \in TerminalRecord \cup {"none"}
  BY <1>1, Zenon DEF Whole, Paired, SetApart, RaisedLimit, Partner, Terminal, TerminalRecord
<1> QED BY <1>1, <1>2, CancelStep

\* What a step may not change of a resolved notification.
Kept(n) ==
    /\ notifications'[n] = notifications[n]
    /\ records'[n] = records[n]
    /\ {a \in attempts' : a.n = n} = {a \in attempts : a.n = n}

LEMMA ResolvedKept ==
  ASSUME IInv, [Next]_vars, NEW n \in Notifications, notifications[n].status \in Terminal
  PROVE  Kept(n)
<1>0. /\ AfterCancel(records[n]) = records[n]
      /\ notifications \in [Notifications -> [status : NotificationStatus, content : Nat]]
      /\ records \in [Notifications -> OutboxRecord]
  BY ResolvedRecord DEF IInv, TypeOK
<1>1. ASSUME UNCHANGED <<notifications, records, attempts>> PROVE Kept(n)
  BY <1>1 DEF Kept
<1>2. CASE Manage
  <2>1. ASSUME NEW m \in Notifications, NEW limit \in Limits, Create(m, limit)
        PROVE  Kept(n)
    <3>1. m # n /\ UNCHANGED attempts
      BY <2>1 DEF Create, Terminal, books
    <3> QED BY <1>0, <2>1, <3>1 DEF Create, Kept
  <2>2. ASSUME NEW m \in Notifications, Cancel(m) PROVE Kept(n)
    <3>1. m # n /\ UNCHANGED attempts
      BY <2>2 DEF Cancel, Terminal, books
    <3> QED BY <1>0, <2>2, <3>1 DEF Cancel, Kept
  <2> QED BY <1>1, <1>2, <2>1, <2>2
       DEF Manage, RegisterTemplate, AddTemplateVersion, ActivateTemplate, SetPreference, books
<1>3. ASSUME NEW m \in Notifications, Replay(m) PROVE Kept(n)
  BY <1>0, <1>3 DEF Replay, Kept, books
<1>4. ASSUME NEW m \in Notifications, ReconcileExhausted(m) PROVE Kept(n)
  <2>1. m # n
    BY <1>4 DEF ReconcileExhausted, Terminal
  <2> QED BY <1>0, <1>4, <2>1 DEF ReconcileExhausted, AppendAttempt, DeadLetter, Kept
<1>5. ASSUME NEW w \in Workers, NEW m \in Notifications, Claim(w, m) PROVE Kept(n)
  <2>1. m # n
    BY <1>5 DEF Claim, Terminal
  <2> QED BY <1>0, <1>5, <2>1 DEF Claim, Kept, books
<1>6. ASSUME NEW w \in Workers, NEW limit \in Limits, Finalize(w, limit) PROVE Kept(n)
  <2>1. PICK m \in Notifications : m = workers[w].n
    BY <1>6 DEF Finalize, IInv, TypeOK, Resting, Outcomes, Dispatch
  <2>2. CASE m = n
    <3>1. /\ records' = [records EXCEPT ![n] = AfterCancel(records[n])]
          /\ UNCHANGED <<notifications, attempts>>
      BY <1>6, <2>1, <2>2 DEF Finalize, books
    <3> QED BY <1>0, <3>1 DEF Kept
  <2>3. CASE m # n
    <3>1. notifications'[n] = notifications[n]
      BY <1>0, <1>6, <2>1, <2>3 DEF Finalize, DeadLetter, books
    <3>2. records'[n] = records[n]
      BY <1>0, <1>6, <2>1, <2>3 DEF Finalize
    <3>3. \E a : a.n = m /\ attempts' \in {attempts, attempts \cup {a}}
      BY <1>6, <2>1 DEF Finalize, AppendAttempt, books
    <3> QED BY <2>3, <3>1, <3>2, <3>3 DEF Kept
  <2> QED BY <2>2, <2>3
<1>7. CASE Tick
  BY <1>7, Ticking DEF Tick, books, Kept
<1>8. ASSUME NEW w \in Workers, Deliver(w) \/ Crash(w) PROVE Kept(n)
  BY <1>1, <1>8 DEF Deliver, Crash, books
<1> QED BY <1>1, <1>2, <1>3, <1>4, <1>5, <1>6, <1>7, <1>8 DEF Next, DispatchNext, vars

-----------------------------------------------------------------------------
LEMMA Invariant == Spec => []IInv
BY Initially, Inductive, PTL DEF Spec

\* The stores and the dispatches under way have their types, whatever number of
\* workers claims, answers and crashes.
THEOREM TypeCorrect == Spec => []TypeOK
<1>1. IInv => TypeOK
  BY DEF IInv
<1> QED BY <1>1, Invariant, PTL

\* A notification and its outbox record go together in every state, whoever
\* cancels, answers late or crashes, unless a raised limit has set them apart.
THEOREM StaysInStep == Spec => []InStep
<1>1. IInv => InStep
  BY DEF IInv, Whole, Paired, InStep
<1> QED BY <1>1, Invariant, PTL

\* The stored attempts and dead letters explain the status of every
\* notification: one final attempt for one that was delivered or given up, the
\* last unless it was given up late under a raised limit, and none for one that
\* is pending or cancelled.
THEOREM HistoriesTell == Spec => []HistoryTellsOutcome
<1>1. IInv => HistoryTellsOutcome
  BY DEF IInv, Whole, HistoryTellsOutcome
<1> QED BY <1>1, Invariant, PTL

\* No step changes a resolved notification, its record or its attempts: a
\* second dispatch, a late answer and a cancellation all find it closed.
THEOREM ResolutionIsFinal == Spec => ResolvedForGood
<1>1. IInv /\ [Next]_vars =>
        [\A n \in Notifications : notifications[n].status \in Terminal =>
           /\ notifications'[n] = notifications[n]
           /\ records'[n] = records[n]
           /\ {a \in attempts' : a.n = n} = {a \in attempts : a.n = n}]_vars
  BY ResolvedKept DEF Kept
<1> QED BY <1>1, Invariant, PTL DEF Spec, ResolvedForGood
=============================================================================
