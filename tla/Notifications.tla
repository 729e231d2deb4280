---------------------------- MODULE Notifications ----------------------------
(***************************************************************************)
(* The notification service (services/platform_notifications): templates,  *)
(* preferences, and notifications that are created together with an outbox *)
(* record and delivered by dispatching it.                                 *)
(*                                                                         *)
(* dispatch commits a claim, calls the provider outside any transaction,   *)
(* and commits the outcome: workers[w] is the dispatch of worker w, and    *)
(* other workers, callers and the clock take steps between its parts. A    *)
(* unit of work holds the state's lock, so each commit is one step; one    *)
(* that is refused or fails leaves everything as it was, and the worker    *)
(* is then where Crash leaves it. All workers claim under one worker_id.   *)
(* The service may be redeployed with another max_attempts, and stored     *)
(* records keep theirs: a step runs under any limit of Limits.             *)
(***************************************************************************)
EXTENDS OutboxRecords

CONSTANTS
    Notifications,   \* pairs of a tenant and a deduplication key
    Templates, TemplateOf,     \* the template each notification asks for
    Recipients, RecipientOf,   \* and the recipient and channel
    Workers,         \* dispatchers
    Limits,          \* values of max_attempts that services are deployed with
    MaxTemplate      \* bound on the versions of a template

WorkerId == "notification-dispatcher"

ASSUME NotificationAssumption ==
    /\ Owners = {WorkerId}
    /\ TemplateOf \in [Notifications -> Templates]
    /\ RecipientOf \in [Notifications -> Recipients]
    /\ Limits \subseteq Nat \ {0}
    /\ MaxTemplate \in Nat

VARIABLES
    templates,      \* templates[t]: the newest version, and the active one
    enabled,        \* enabled[r]: recipient r takes notifications
    notifications,  \* notifications[n]: [status, content]
    records,        \* records[n]: the outbox record of n
    attempts,       \* the stored DeliveryAttempts
    deadLetters,    \* notifications with a DeadLetterRecord: [n, number]
    delivered,      \* notifications the providers have accepted
    workers         \* workers[w]: the dispatch of worker w

vars == <<templates, enabled, notifications, records, attempts, deadLetters,
          delivered, workers>>
content == <<templates, enabled>>
books == <<attempts, deadLetters>>

Terminal == {"delivered", "cancelled", "suppressed", "dead_lettered"}
NotificationStatus == {"none", "enqueued"} \cup Terminal
Outcomes == {"accepted", "retryable_failure", "permanent_failure"}
Attempt == [n : Notifications, number : Nat, outcome : Outcomes]

Resting == [stage |-> "rest"]
\* A dispatch holds the claimed record, and then the provider's answer.
Dispatch == [stage : {"claimed"} \cup Outcomes, n : Notifications, number : Nat,
             version : Nat]

Init ==
    /\ templates = [t \in Templates |-> [newest |-> 0, active |-> 0]]
    /\ enabled = [r \in Recipients |-> TRUE]
    /\ notifications = [n \in Notifications |-> [status |-> "none", content |-> 0]]
    /\ records = [n \in Notifications |-> NoRecord]
    /\ attempts = {}
    /\ deadLetters = {}
    /\ delivered = {}
    /\ workers = [w \in Workers |-> Resting]

-----------------------------------------------------------------------------
\* Templates and preferences. An update names the version it has read in the
\* same unit of work, or one its caller knows, which can only refuse it.

RegisterTemplate(t) ==
    /\ templates[t].newest = 0
    /\ templates' = [templates EXCEPT ![t].newest = 1]
    /\ UNCHANGED <<enabled, notifications, records, books, delivered, workers>>

AddTemplateVersion(t) ==
    /\ templates[t].newest \in 1 .. MaxTemplate - 1
    /\ templates' = [templates EXCEPT ![t].newest = @ + 1]
    /\ UNCHANGED <<enabled, notifications, records, books, delivered, workers>>

ActivateTemplate(t, version) ==
    /\ version \in 1 .. templates[t].newest
    /\ templates' = [templates EXCEPT ![t].active = version]
    /\ UNCHANGED <<enabled, notifications, records, books, delivered, workers>>

SetPreference(r, value) ==
    /\ enabled' = [enabled EXCEPT ![r] = value]
    /\ UNCHANGED <<templates, notifications, records, books, delivered, workers>>

-----------------------------------------------------------------------------
\* Notifications

\* The same deduplication key again returns the old notification, or is
\* refused for other input.
Create(n, limit) ==
    LET template == templates[TemplateOf[n]] IN
    /\ notifications[n].status = "none"
    /\ template.active # 0
    /\ \/ /\ enabled[RecipientOf[n]]
          /\ notifications' = [notifications EXCEPT ![n] =
                                 [status |-> "enqueued", content |-> template.active]]
          /\ records' = [records EXCEPT ![n] = NewRecord(limit)]
       \/ /\ ~enabled[RecipientOf[n]]
          /\ notifications' = [notifications EXCEPT ![n] =
                                 [status |-> "suppressed", content |-> template.active]]
          /\ UNCHANGED records
    /\ UNCHANGED <<content, books, delivered, workers>>

\* Faulty: a cancellation that does not look at the status.
CancelAnytime(n) ==
    /\ notifications[n].status # "none"
    /\ notifications' = [notifications EXCEPT ![n].status = "cancelled"]
    /\ records' = [records EXCEPT ![n] = AfterCancel(@)]
    /\ UNCHANGED <<content, books, delivered, workers>>

Cancel(n) ==
    /\ notifications[n].status = "enqueued"
    /\ notifications' = [notifications EXCEPT ![n].status = "cancelled"]
    /\ records' = [records EXCEPT ![n] = AfterCancel(@)]
    /\ UNCHANGED <<content, books, delivered, workers>>

\* attempts.append: the identity of an attempt is its notification and number.
AppendAttempt(n, number, outcome) ==
    /\ \A a \in attempts : a.n = n /\ a.number = number => a.outcome = outcome
    /\ attempts' = attempts \cup {[n |-> n, number |-> number, outcome |-> outcome]}

\* dead_letters.create, together with the notification's new status.
DeadLetter(n, number) ==
    /\ \A d \in deadLetters : d.n = n => d.number = number
    /\ deadLetters' = deadLetters \cup {[n |-> n, number |-> number]}
    /\ notifications' = [notifications EXCEPT ![n].status = "dead_lettered"]

-----------------------------------------------------------------------------
\* Dispatch

\* The dispatch of a cancelled notification cancels its record.
Replay(n) ==
    /\ notifications[n].status = "cancelled"
    /\ records' = [records EXCEPT ![n] = AfterCancel(@)]
    /\ UNCHANGED <<content, notifications, books, delivered, workers>>

Claim(w, n) ==
    /\ workers[w] = Resting
    /\ notifications[n].status = "enqueued"
    /\ Claimable(records[n])
    /\ records' = [records EXCEPT ![n] = AfterClaim(@, WorkerId)]
    /\ workers' = [workers EXCEPT ![w] =
                     [stage |-> "claimed", n |-> n, number |-> records[n].attempts + 1,
                      version |-> records[n].version + 1]]
    /\ UNCHANGED <<content, notifications, books, delivered>>

\* A claim that finds the attempts exhausted ends the notification instead.
ReconcileExhausted(n) ==
    /\ notifications[n].status = "enqueued"
    /\ records[n].status = "claimed" /\ records[n].lease = 0
    /\ Exhausted(records[n])
    /\ AppendAttempt(n, records[n].attempts, "permanent_failure")
    /\ DeadLetter(n, records[n].attempts)
    /\ records' = [records EXCEPT ![n] = AfterDeadLetter(@)]
    /\ UNCHANGED <<content, delivered, workers>>

\* The provider accepts a delivery, at most once per event, or fails it, or
\* raises, perhaps after accepting it. Without content or a configured
\* provider there is no call, and the failure is permanent.
Deliver(w) ==
    LET n == workers[w].n
        Answer(outcome) == workers' = [workers EXCEPT ![w].stage = outcome]
    IN
    /\ workers[w].stage = "claimed"
    /\ \/ /\ notifications[n].content \in 1 .. templates[TemplateOf[n]].newest
          /\ \/ Answer("accepted") /\ delivered' = delivered \cup {n}
             \/ Answer("retryable_failure") /\ delivered' \in {delivered, delivered \cup {n}}
       \/ Answer("permanent_failure") /\ UNCHANGED delivered
    /\ UNCHANGED <<content, notifications, records, books>>

\* 30 s doubled per attempt, up to an hour: MaxWait in the model's ticks.
RetryDelay(number) ==
    LET delay == 2 ^ (number - 1) IN IF delay \in 0 .. MaxWait THEN delay ELSE MaxWait

\* A refused finalization leaves everything to the next claim. A record that
\* was dead-lettered takes a dead letter from anyone: a worker that lost its
\* claim then ends the notification with its own, older number.
Finalize(w, limit) ==
    LET n == workers[w].n  number == workers[w].number  answer == workers[w].stage
        Holds == HoldsLease(records[n], WorkerId, workers[w].version)
        Final == answer # "accepted" /\ (answer = "retryable_failure" => number >= limit)
        Record(rec) == records' = [records EXCEPT ![n] = rec]
    IN
    /\ workers[w].stage \in Outcomes
    /\ \/ /\ notifications[n].status \in Terminal
          /\ Record(AfterCancel(records[n]))
          /\ UNCHANGED <<notifications, books>>
       \/ /\ notifications[n].status \notin Terminal /\ ~Holds
          /\ ~(Final /\ records[n].status = "dead_lettered")
          /\ UNCHANGED <<notifications, records, books>>
       \/ /\ notifications[n].status \notin Terminal /\ ~Holds
          /\ Final /\ records[n].status = "dead_lettered"
          /\ AppendAttempt(n, number, "permanent_failure")
          /\ DeadLetter(n, number)
          /\ UNCHANGED records
       \/ /\ notifications[n].status \notin Terminal /\ Holds
          /\ \/ /\ answer = "accepted"
                /\ AppendAttempt(n, number, answer)
                /\ notifications' = [notifications EXCEPT ![n].status = "delivered"]
                /\ Record(AfterAcknowledge(records[n]))
                /\ UNCHANGED deadLetters
             \/ /\ answer = "retryable_failure" /\ number < limit
                /\ AppendAttempt(n, number, answer)
                /\ Record(AfterRetry(records[n], RetryDelay(number)))
                /\ UNCHANGED <<notifications, deadLetters>>
             \/ /\ Final
                /\ AppendAttempt(n, number, "permanent_failure")
                /\ DeadLetter(n, number)
                /\ Record(AfterDeadLetter(records[n]))
    /\ workers' = [workers EXCEPT ![w] = Resting]
    /\ UNCHANGED <<content, delivered>>

Crash(w) ==
    /\ workers[w] # Resting
    /\ workers' = [workers EXCEPT ![w] = Resting]
    /\ UNCHANGED <<content, notifications, records, books, delivered>>

Tick ==
    /\ \E n \in Notifications : records[n].wait > 0 \/ records[n].lease > 0
    /\ records' = [n \in Notifications |-> AfterTick(records[n])]
    /\ UNCHANGED <<content, notifications, books, delivered, workers>>

-----------------------------------------------------------------------------
Manage ==
    \/ \E t \in Templates :
        \/ RegisterTemplate(t) \/ AddTemplateVersion(t)
        \/ \E version \in 1 .. MaxTemplate : ActivateTemplate(t, version)
    \/ \E r \in Recipients, value \in BOOLEAN : SetPreference(r, value)
    \/ \E n \in Notifications : Cancel(n) \/ \E limit \in Limits : Create(n, limit)

DispatchNext ==
    \/ \E n \in Notifications : Replay(n) \/ ReconcileExhausted(n)
    \/ \E w \in Workers :
        \/ \E n \in Notifications : Claim(w, n)
        \/ Deliver(w) \/ Crash(w)
        \/ \E limit \in Limits : Finalize(w, limit)

Next == Manage \/ DispatchNext \/ Tick

Spec == Init /\ [][Next]_vars

\* Time passes, providers answer, and somebody outside this code calls
\* dispatch for every notification that is due, again and again.
Fairness ==
    /\ WF_vars(Tick)
    /\ \A w \in Workers :
         WF_vars(Deliver(w)) /\ WF_vars(\E limit \in Limits : Finalize(w, limit))
    /\ \A n \in Notifications :
         /\ SF_vars(\E w \in Workers : Claim(w, n))
         /\ WF_vars(ReconcileExhausted(n))

FairSpec == Spec /\ Fairness

-----------------------------------------------------------------------------
\* The types of the stores and of the dispatches under way.
TypeOK ==
    /\ templates \in [Templates -> [newest : Nat, active : Nat]]
    /\ enabled \in [Recipients -> BOOLEAN]
    /\ notifications \in [Notifications -> [status : NotificationStatus, content : Nat]]
    /\ records \in [Notifications -> OutboxRecord]
    /\ attempts \subseteq Attempt
    /\ deadLetters \subseteq [n : Notifications, number : Nat]
    /\ delivered \subseteq Notifications
    /\ workers \in [Workers -> {Resting} \cup Dispatch]

\* The outbox status that goes with the status of a notification.
Partner(status) ==
    CASE status \in {"none", "suppressed"} -> {"none"}
      [] status = "enqueued" -> {"pending", "claimed"}
      [] status = "delivered" -> {"accepted"}
      [] status = "cancelled" -> {"cancelled"}
      [] status = "dead_lettered" -> {"dead_lettered"}

\* A redeployment with a higher limit may leave an enqueued notification with a
\* record that was dead-lettered under its own, lower limit. It is not claimed
\* again: a cancellation ends it, or the late final answer of an older claim.
RaisedLimit(n) == \E limit \in Limits : limit > records[n].max
SetApart(n) ==
    /\ notifications[n].status \in {"enqueued", "cancelled"}
    /\ records[n].status = "dead_lettered"
    /\ RaisedLimit(n)

\* A notification and its outbox record are in step, whoever cancels, answers
\* late or crashes, unless a raised limit has set them apart.
InStep ==
    \A n \in Notifications :
        SetApart(n) \/ records[n].status \in Partner(notifications[n].status)

\* "forbids an enqueued notification with a terminal outbox": such a
\* notification would never be resolved.
Aligned == \A n \in Notifications : records[n].status \in Partner(notifications[n].status)

HistoryTells(n) ==
    LET status == notifications[n].status
        last == records[n].attempts
        final == {a \in attempts : a.n = n /\ a.outcome # "retryable_failure"}
        letters == {d \in deadLetters : d.n = n}
    IN
    /\ \A a \in attempts : a.n = n => a.number \in 1 .. last
    /\ status \notin {"delivered", "dead_lettered"} => final = {} /\ letters = {}
    /\ status = "delivered" =>
         /\ final = {[n |-> n, number |-> last, outcome |-> "accepted"]} /\ letters = {}
         /\ n \in delivered
    /\ status = "dead_lettered" => \E number \in 1 .. last :
         /\ final = {[n |-> n, number |-> number, outcome |-> "permanent_failure"]}
         /\ letters = {[n |-> n, number |-> number]}
         /\ number = last \/ RaisedLimit(n)
    /\ n \in delivered => status \notin {"none", "suppressed"}

\* The delivery history explains the outcome: one attempt is final for a
\* delivered or dead-lettered notification and none for another, a delivery is
\* the last attempt and was accepted by the provider, a dead letter tells the
\* number of the failed attempt, which is the last unless the limit was raised,
\* and nothing was ever delivered of a suppressed notification.
HistoryTellsOutcome == \A n \in Notifications : HistoryTells(n)

\* A resolved notification stays resolved, and so does its history, whatever
\* late answer or second dispatch arrives.
ResolvedForGood ==
    [][\A n \in Notifications : notifications[n].status \in Terminal =>
         /\ notifications'[n] = notifications[n]
         /\ records'[n] = records[n]
         /\ {a \in attempts' : a.n = n} = {a \in attempts : a.n = n}]_vars

\* Every enqueued notification is in the end delivered, cancelled or
\* dead-lettered, although workers crash and lose their leases, unless a
\* raised limit has set it apart from its record.
EventuallyResolved ==
    \A n \in Notifications :
        notifications[n].status = "enqueued"
            ~> notifications[n].status \in Terminal \/ SetApart(n)
=============================================================================
