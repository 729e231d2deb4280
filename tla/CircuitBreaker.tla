--------------------------- MODULE CircuitBreaker ---------------------------
(***************************************************************************)
(* The provider executor of the gateway (services/ai_gateway/resilience):  *)
(* bounded retries and one circuit per provider, shared by all executions. *)
(*                                                                         *)
(* Each look at a circuit and each change of it holds the lock and is one  *)
(* step; the provider's call and the sleep before a retry are outside it,  *)
(* so the answer to a call that began before the circuit opened may come   *)
(* when it is open, or closed again. executions[e] is a call of execute.   *)
(***************************************************************************)
EXTENDS Integers, Sequences

CONSTANTS
    Executions,
    Providers,
    RouteOf,            \* RouteOf[e]: the provider_ids of execution e, as the
                        \* router has ordered them; each has an adapter
    MaxAttempts,        \* max_attempts of the policy
    Threshold,          \* circuit_failure_threshold
    ResetTicks          \* circuit_reset_seconds

ASSUME CircuitAssumption ==
    /\ RouteOf \in [Executions -> Seq(Providers)]
    /\ MaxAttempts \in Nat \ {0} /\ Threshold \in Nat \ {0} /\ ResetTicks \in Nat \ {0}

VARIABLES
    circuits,    \* circuits[p]: [failures, open, cooling]; cooling counts the
                 \* ticks until an open circuit may be reset
    executions   \* executions[e]: [stage, at, attempt]

vars == <<circuits, executions>>

Closed == [failures |-> 0, open |-> FALSE, cooling |-> 0]
Circuit == [failures : Nat, open : BOOLEAN, cooling : 0 .. ResetTicks]

Idle == [stage |-> "idle", at |-> 0, attempt |-> 0]
Stages == {"idle", "select", "calling", "failed", "sleeping"}
Execution == [stage : Stages, at : Nat, attempt : 0 .. MaxAttempts]

Init ==
    /\ circuits = [p \in Providers |-> Closed]
    /\ executions = [e \in Executions |-> Idle]

-----------------------------------------------------------------------------
Provider(e) == RouteOf[e][executions[e].at]

\* Faulty: a reset that does not wait.
ResettableAtOnce(circuit) == TRUE

AfterReset(circuit) == Closed
Resettable(circuit) == circuit.cooling = 0
Available(circuit) == ~circuit.open \/ Resettable(circuit)

\* Faulty: a call that is turned away makes the circuit wait anew.
LookRestarting(p, available) ==
    /\ available = Available(circuits[p])
    /\ circuits' = IF ~circuits[p].open THEN circuits
                   ELSE IF available THEN [circuits EXCEPT ![p] = AfterReset(@)]
                                     ELSE [circuits EXCEPT ![p].cooling = ResetTicks]

\* _available: an open circuit that has cooled down is reset, for everyone.
Look(p, available) ==
    /\ available = Available(circuits[p])
    /\ circuits' = IF circuits[p].open /\ available
                   THEN [circuits EXCEPT ![p] = AfterReset(@)] ELSE circuits

\* _failure: every failure at or above the threshold opens the circuit anew.
AfterFailure(circuit) ==
    IF circuit.failures + 1 >= Threshold
    THEN [failures |-> circuit.failures + 1, open |-> TRUE, cooling |-> ResetTicks]
    ELSE [circuit EXCEPT !.failures = @ + 1]

\* The next provider, or ProviderUnavailable after the last.
Fallback(e) ==
    executions' = [executions EXCEPT ![e] =
        IF @.at = Len(RouteOf[e]) THEN Idle ELSE [stage |-> "select", at |-> @.at + 1, attempt |-> 0]]

Attempt(e, n) ==
    executions' = [executions EXCEPT ![e] = [stage |-> "calling", at |-> @.at, attempt |-> n]]

Start(e) ==
    /\ executions[e] = Idle /\ RouteOf[e] # <<>>
    /\ executions' = [executions EXCEPT ![e] = [stage |-> "select", at |-> 1, attempt |-> 0]]
    /\ UNCHANGED circuits

Select(e) ==
    /\ executions[e].stage = "select"
    /\ \/ /\ Look(Provider(e), TRUE)
          /\ Attempt(e, 1)
       \/ /\ Look(Provider(e), FALSE)
          /\ Fallback(e)

Succeed(e) ==
    /\ executions[e].stage = "calling"
    /\ circuits' = [circuits EXCEPT ![Provider(e)] = Closed]
    /\ executions' = [executions EXCEPT ![e] = Idle]

\* A refusal that must not fall back is raised; one that may is passed on.
Refuse(e) ==
    /\ executions[e].stage = "calling"
    /\ Fallback(e) \/ executions' = [executions EXCEPT ![e] = Idle]
    /\ UNCHANGED circuits

Fail(e) ==
    /\ executions[e].stage = "calling"
    /\ circuits' = [circuits EXCEPT ![Provider(e)] = AfterFailure(@)]
    /\ executions' = [executions EXCEPT ![e].stage = "failed"]

\* After the last attempt the circuit is not looked at.
Retry(e) ==
    /\ executions[e].stage = "failed"
    /\ \/ /\ executions[e].attempt = MaxAttempts
          /\ Fallback(e)
          /\ UNCHANGED circuits
       \/ /\ executions[e].attempt < MaxAttempts
          /\ Look(Provider(e), FALSE)
          /\ Fallback(e)
       \/ /\ executions[e].attempt < MaxAttempts
          /\ Look(Provider(e), TRUE)
          /\ executions' = [executions EXCEPT ![e].stage = "sleeping"]

\* Faulty: the attempts are not counted.
AwakeUncounted(e) ==
    /\ executions[e].stage = "sleeping"
    /\ Attempt(e, executions[e].attempt)
    /\ UNCHANGED circuits

\* The retry does not look again, so it may call through an open circuit.
Awake(e) ==
    /\ executions[e].stage = "sleeping"
    /\ Attempt(e, executions[e].attempt + 1)
    /\ UNCHANGED circuits

Cooled(circuit) == [circuit EXCEPT !.cooling = IF @ > 0 THEN @ - 1 ELSE 0]

Tick ==
    /\ \E p \in Providers : circuits[p].cooling > 0
    /\ circuits' = [p \in Providers |-> Cooled(circuits[p])]
    /\ UNCHANGED executions

Answer(e) == Succeed(e) \/ Refuse(e) \/ Fail(e)
Proceed(e) == Select(e) \/ Answer(e) \/ Retry(e) \/ Awake(e)
Next == Tick \/ \E e \in Executions : Start(e) \/ Proceed(e)

Spec == Init /\ [][Next]_vars

\* Every call of a provider has a timeout and every sleep ends. Nothing makes
\* anybody start an execution.
FairSpec == Spec /\ WF_vars(Tick) /\ \A e \in Executions : WF_vars(Proceed(e))

-----------------------------------------------------------------------------
\* The types of the circuits and of the executions under way.
TypeOK ==
    /\ circuits \in [Providers -> Circuit]
    /\ executions \in [Executions -> Execution]
    /\ \A e \in Executions : executions[e].at <= Len(RouteOf[e])

\* A circuit is open exactly when its failures have reached the threshold,
\* whatever late answers and resets of other executions come in between.
OpenIffFailing ==
    \A p \in Providers : /\ circuits[p].open <=> circuits[p].failures >= Threshold
                         /\ circuits[p].cooling > 0 => circuits[p].open

\* Only its reset after the full time or a success of the same provider closes
\* an open circuit; until then a failure can only prolong it.
OpenUntilReset ==
    [][\A p \in Providers : circuits[p].open /\ ~circuits'[p].open =>
         \/ circuits[p].cooling = 0
         \/ \E e \in Executions : /\ executions[e].stage = "calling" /\ Provider(e) = p
                                  /\ executions'[e] = Idle]_vars

\* A circuit that has opened cools down in the end: late failures prolong it,
\* but an open circuit lets no execution begin and each retries a bounded
\* number of times.
CoolsDown == \A p \in Providers : circuits[p].open ~> circuits[p].cooling = 0

\* Every execution ends, with an answer or after it has tried each provider.
ExecutionsEnd == \A e \in Executions : executions[e] # Idle ~> executions[e] = Idle
=============================================================================
