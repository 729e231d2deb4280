--------------------------- MODULE GatewayExecution ---------------------------
(***************************************************************************)
(* SecureExecutionService.execute (services/ai_gateway/execution.py) on    *)
(* top of the billing service: a request is authorized, reserved, sent to  *)
(* a provider, remembered, captured and marked captured, or, on failure,   *)
(* remembered and released. Each part is a call or a transaction of its    *)
(* own; exec[e] is where execution e stands. A client retries a request    *)
(* by executing it again, also while an earlier execution is under way.    *)
(* The billing steps are the gateway operations of Billing.tla.            *)
(***************************************************************************)
EXTENDS Integers

CONSTANTS
    Tenants, Requests, MaxNow, MaxVersion,  \* as in Billing
    Amounts,                   \* amounts of credit
    Estimate,                  \* estimated_microunits of every reservation
    Ttl,                       \* reservation_seconds
    Funds,                     \* credit of each tenant
    Executions,                \* clients, each retrying one request
    Persistent,                \* the clients that never give up
    RequestOf,                 \* RequestOf[e]: the tenant and request of e
    InputOf,                   \* the prompt and actor that e sends
    Results, Failures,         \* what a provider call may come to
    ChargeAt,                  \* ChargeAt[a][n]: the price of result a by the rate
                               \* card that is active at time n
    MaxCalls                   \* the provider calls of a request are counted up to this

VARIABLES account, ledger, posted, reservations, usage, idem, calls, now
billing == <<account, ledger, posted, reservations, usage, idem, calls, now>>

Billing == INSTANCE Billing WITH
    Usages <- Requests, Callers <- {}, Keys <- {}, Overrides <- {FALSE},
    Lookback <- 0, Lookahead <- 0, Expiries <- 0 .. MaxNow + Ttl

Rids == Tenants \X Requests
Answers == Results \cup Failures

ASSUME ExecutionAssumption ==
    /\ Amounts \subseteq Nat \ {0} /\ Estimate \in Amounts
    /\ MaxNow \in Nat /\ MaxVersion \in Nat
    /\ Ttl \in Nat \ {0} /\ Funds \in Nat /\ MaxCalls \in Nat
    /\ RequestOf \in [Executions -> Rids] /\ Persistent \subseteq Executions
    /\ ChargeAt \in [Results -> [0 .. MaxNow -> Amounts]]
    /\ Results \cap Failures = {} /\ "none" \notin Answers

VARIABLES
    outcome,        \* outcome[r]: the ExecutionOutcome of request r
    events,         \* mandatory events in the outcome store's outbox
    exec,           \* exec[e]: the execution of client e
    providerCalls   \* providerCalls[r]: how often r went to a provider, at most MaxCalls

vars == <<billing, outcome, events, exec, providerCalls>>

Inputs == {InputOf[e] : e \in Executions}
NoOutcome == [input |-> "none", answer |-> "none", captured |-> FALSE,
              compensationFailed |-> FALSE]
Outcome == {NoOutcome} \cup
    [input : Inputs, answer : Answers, captured : BOOLEAN, compensationFailed : BOOLEAN]
EventTypes == {"succeeded", "failed", "compensation_failed"}

Idle == [stage |-> "idle", answer |-> "none"]
Execution == {Idle} \cup
    [stage : {"authorize", "reserve", "call"}, answer : {"none"} \cup Answers] \cup
    [stage : {"answered", "capture", "mark", "compensate", "uncompensated"}, answer : Answers]

Init ==
    /\ Billing!FundedInit
    /\ outcome = [r \in Rids |-> NoOutcome]
    /\ events = {}
    /\ exec = [e \in Executions |-> Idle]
    /\ providerCalls = [r \in Rids |-> 0]

-----------------------------------------------------------------------------
Goto(e, stage, answer) == exec' = [exec EXCEPT ![e] = [stage |-> stage, answer |-> answer]]

\* Faulty: an operation that is not replayed.
IdempotentlyOnce(op, r, Operation) == Operation

\* A gateway billing operation under the request's own idempotency key:
\* performed once, and replayed from its record ever after.
Performed(op, r) == <<op, r[1], r[2]>> \in idem
Idempotently(op, r, Operation) == Operation \/ (Performed(op, r) /\ UNCHANGED billing)

\* _enqueue_event, once for every event that the outcome o calls for. Each
\* *_event_enqueued flag is stored in the same transaction as its event.
Mandatory(r, o) ==
    {[r |-> r, type |-> type] : type \in
        {type \in EventTypes :
            \/ type = "succeeded" /\ o.captured
            \/ type = "failed" /\ o.answer \in Failures
            \/ type = "compensation_failed" /\ o.compensationFailed}}

\* Faulty: an outcome stored without its events.
StoreQuietly(r, o) == outcome' = [outcome EXCEPT ![r] = o] /\ UNCHANGED events

Store(r, o) ==
    /\ outcome' = [outcome EXCEPT ![r] = o]
    /\ events' = events \cup Mandatory(r, o)

\* execute loads the outcome and, if there is one, repairs its events in a
\* transaction of its own; an outcome never disappears and keeps its
\* fingerprint, so the two are one step. A captured result is replayed.
Start(e) ==
    LET r == RequestOf[e]  o == outcome[r] IN
    /\ exec[e] = Idle
    /\ o # NoOutcome => o.input = InputOf[e]
    /\ events' = events \cup Mandatory(r, o)
    /\ IF o.captured THEN UNCHANGED exec ELSE Goto(e, "authorize", o.answer)
    /\ UNCHANGED <<billing, outcome, providerCalls>>

\* authorize_estimated_charge, for a retry as for a first execution.
Authorize(e) ==
    LET t == RequestOf[e][1] IN
    /\ exec[e].stage = "authorize"
    /\ account[t].status = "active"
    /\ ledger[t].available >= Estimate
    /\ Goto(e, "reserve", exec[e].answer)
    /\ UNCHANGED <<billing, outcome, events, providerCalls>>

Reserve(e) ==
    LET r == RequestOf[e]  answer == exec[e].answer IN
    /\ exec[e].stage = "reserve"
    /\ Idempotently("gateway_reserve", r, Billing!GatewayReserve(r, Estimate, now + Ttl))
    /\ Goto(e, IF answer = "none" THEN "call"
               ELSE IF answer \in Failures THEN "compensate" ELSE "capture", answer)
    /\ UNCHANGED <<outcome, events, providerCalls>>

\* The route's providers and the output safety check.
Call(e, answer) ==
    LET r == RequestOf[e] IN
    /\ exec[e].stage = "call"
    /\ providerCalls' = [providerCalls EXCEPT ![r] = IF @ < MaxCalls THEN @ + 1 ELSE @]
    /\ Goto(e, "answered", answer)
    /\ UNCHANGED <<billing, outcome, events>>

\* Faulty: the last answer is kept.
RememberLast(e) ==
    LET r == RequestOf[e]  answer == exec[e].answer IN
    /\ exec[e].stage = "answered"
    /\ Store(r, [NoOutcome EXCEPT !.input = InputOf[e], !.answer = answer])
    /\ Goto(e, IF answer \in Results THEN "capture" ELSE "compensate", answer)
    /\ UNCHANGED <<billing, providerCalls>>

\* _remember_provider_result and _remember_failure: the first answer is kept,
\* and an execution that got another one, or sent another input, is refused.
Remember(e) ==
    LET r == RequestOf[e]  o == outcome[r]  answer == exec[e].answer IN
    /\ exec[e].stage = "answered"
    /\ \/ /\ o = NoOutcome
          /\ Store(r, [NoOutcome EXCEPT !.input = InputOf[e], !.answer = answer])
          /\ Goto(e, IF answer \in Results THEN "capture" ELSE "compensate", answer)
       \/ /\ o.input = InputOf[e] /\ o.answer = answer
          /\ answer \in Results => UNCHANGED <<outcome, events>>
          /\ answer \in Failures => Store(r, o)
          /\ Goto(e, IF answer \in Results THEN "capture" ELSE "compensate", answer)
       \/ /\ o # NoOutcome
          /\ o.input # InputOf[e] \/ o.answer # answer
          /\ exec' = [exec EXCEPT ![e] = Idle]
          /\ UNCHANGED <<outcome, events>>
    /\ UNCHANGED <<billing, providerCalls>>

Capture(e) ==
    LET r == RequestOf[e]  answer == exec[e].answer IN
    /\ exec[e].stage = "capture"
    /\ Idempotently("gateway_capture", r, Billing!GatewayCapture(r, ChargeAt[answer][now]))
    /\ Goto(e, "mark", answer)
    /\ UNCHANGED <<outcome, events, providerCalls>>

MarkCaptured(e) ==
    LET r == RequestOf[e]  o == outcome[r] IN
    /\ exec[e].stage = "mark"
    /\ o.input = InputOf[e] /\ o.answer = exec[e].answer
    /\ Store(r, [o EXCEPT !.captured = TRUE])
    /\ exec' = [exec EXCEPT ![e] = Idle]
    /\ UNCHANGED <<billing, providerCalls>>

Compensate(e) ==
    LET r == RequestOf[e] IN
    /\ exec[e].stage = "compensate"
    /\ Idempotently("gateway_release", r, Billing!GatewayRelease(r))
    /\ exec' = [exec EXCEPT ![e] = Idle]
    /\ UNCHANGED <<outcome, events, providerCalls>>

CompensationFails(e) ==
    /\ exec[e].stage = "compensate"
    /\ Goto(e, "uncompensated", exec[e].answer)
    /\ UNCHANGED <<billing, outcome, events, providerCalls>>

MarkCompensationFailure(e) ==
    LET r == RequestOf[e]  o == outcome[r] IN
    /\ exec[e].stage = "uncompensated"
    /\ o.input = InputOf[e]
    /\ Store(r, [o EXCEPT !.compensationFailed = TRUE])
    /\ exec' = [exec EXCEPT ![e] = Idle]
    /\ UNCHANGED <<billing, providerCalls>>

\* A denial, a refusal, a rolled-back store failure, or a crash.
Abandon(e) ==
    /\ exec[e] # Idle
    /\ exec' = [exec EXCEPT ![e] = Idle]
    /\ UNCHANGED <<billing, outcome, events, providerCalls>>

Tick == Billing!Tick /\ UNCHANGED <<outcome, events, exec, providerCalls>>

-----------------------------------------------------------------------------
Progress(e) ==
    \/ Start(e) \/ Authorize(e) \/ Reserve(e)
    \/ \E answer \in Answers : Call(e, answer)
    \/ Remember(e) \/ Capture(e) \/ MarkCaptured(e)
    \/ Compensate(e) \/ MarkCompensationFailure(e)

Interruption(e) == CompensationFails(e) \/ Abandon(e)

Next ==
    \/ \E e \in Executions : Progress(e) \/ Interruption(e)
    \/ Tick

Spec == Init /\ [][Next]_vars

\* A persistent client retries for ever, and in the end no denial, failure or
\* crash interrupts it any more. Nothing is assumed of the other clients.
Fairness ==
    \A e \in Persistent : WF_vars(Progress(e)) /\ <>[][~Interruption(e)]_vars

FairSpec == Spec /\ Fairness

-----------------------------------------------------------------------------
\* The types of the outcome store and of the executions; Billing types the
\* rest.
TypeOK ==
    /\ Billing!TypeOK
    /\ outcome \in [Rids -> Outcome]
    /\ events \subseteq [r : Rids, type : EventTypes]
    /\ exec \in [Executions -> Execution]
    /\ providerCalls \in [Rids -> 0 .. MaxCalls]

\* A tenant pays for a request what its stored result costs by a card that was
\* active before the reservation expired, and nothing for a failed one, although
\* concurrent executions of one request share a reservation and may get
\* different answers: what is captured was stored as the result before, and what
\* is released as a failure.
ChargeMatchesOutcome ==
    \A r \in Rids : LET answer == outcome[r].answer IN
        /\ IF Performed("gateway_capture", r)
           THEN answer \in Results /\ \E n \in 0 .. MaxNow :
                  n <= now /\ n < reservations[r].expires /\ posted[r].charged = ChargeAt[answer][n]
           ELSE posted[r].charged = 0
        /\ Performed("gateway_release", r) => answer \in Failures
        /\ outcome[r].captured => Performed("gateway_capture", r)

\* The outbox holds exactly the events that the outcomes call for, whatever
\* crashed in between and however often a request is replayed.
EventsTellOutcomes == events = UNION {Mandatory(r, outcome[r]) : r \in Rids}

\* An outcome is never replaced by another: retries see the first answer.
FirstAnswerStays ==
    [][\A r \in Rids : outcome[r] # NoOutcome =>
         /\ outcome'[r].answer = outcome[r].answer
         /\ outcome'[r].input = outcome[r].input
         /\ outcome[r].captured => outcome'[r].captured]_vars

\* "an exact request retry performs capture without a second provider call":
\* a stored result is captured in the end, if its client keeps retrying,
\* unless its reservation expires first.
ResultsCaptured ==
    \A e \in Persistent : LET r == RequestOf[e] IN
        outcome[r].answer \in Results /\ outcome[r].input = InputOf[e]
            ~> outcome[r].captured \/ Billing!Expired(reservations[r])

\* A stored failure gives its reserved credit back in the end, if its client
\* keeps retrying, although compensation may fail many times.
FailuresReleased ==
    \A e \in Persistent : LET r == RequestOf[e] IN
        outcome[r].answer \in Failures /\ outcome[r].input = InputOf[e]
            ~> posted[r].held = 0

\* "retries cannot repeat provider execution".
ProviderCalledOnce == \A r \in Rids : providerCalls[r] <= 1
=============================================================================
