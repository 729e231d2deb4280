--------------------------- MODULE CircuitProofs ---------------------------
(***************************************************************************)
(* Proofs about CircuitBreaker, for any number of executions and providers *)
(* and any policy.                                                         *)
(***************************************************************************)
EXTENDS CircuitBreaker, TLAPS

\* What an execution may hold: once it has begun it is at a provider of its
\* order, and it makes an attempt only within the policy.
Placed ==
    \A e \in Executions : LET x == executions[e] IN
        /\ x = Idle \/ (x.stage # "idle" /\ x.at \in 1 .. Len(RouteOf[e]))
        /\ x.stage = "sleeping" => x.attempt < MaxAttempts

IInv == TypeOK /\ Placed /\ OpenIffFailing

LEMMA ProviderInRange ==
  ASSUME NEW e \in Executions, TypeOK, Placed, executions[e].stage # "idle"
  PROVE  /\ executions[e].at \in 1 .. Len(RouteOf[e])
         /\ Provider(e) \in Providers
<1> USE CircuitAssumption
<1>1. executions[e].at \in 1 .. Len(RouteOf[e])
  BY DEF Placed, Idle
<1>2. RouteOf[e][executions[e].at] \in Providers
  BY <1>1
<1> QED
  BY <1>1, <1>2 DEF Provider

\* A helper keeps a circuit a circuit whose state agrees with its failures.
Agrees(c) == (c.open <=> c.failures >= Threshold) /\ (c.cooling > 0 => c.open)

LEMMA CircuitSteps ==
  ASSUME NEW c \in Circuit, Agrees(c)
  PROVE  /\ AfterReset(c) \in Circuit /\ Agrees(AfterReset(c))
         /\ AfterFailure(c) \in Circuit /\ Agrees(AfterFailure(c))
         /\ Cooled(c) \in Circuit /\ Agrees(Cooled(c))
<1> USE CircuitAssumption
<1>1. AfterReset(c) \in Circuit /\ Agrees(AfterReset(c))
  BY DEF AfterReset, Closed, Circuit, Agrees
<1>2. AfterFailure(c) \in Circuit /\ Agrees(AfterFailure(c))
  BY DEF AfterFailure, Circuit, Agrees
<1>3. Cooled(c) \in Circuit /\ Agrees(Cooled(c))
  BY DEF Cooled, Circuit, Agrees
<1> QED
  BY <1>1, <1>2, <1>3

\* Every change of the circuits in Next is one of these steps at one provider,
\* or a tick.
CircuitStep ==
    \/ circuits' = circuits
    \/ \E p \in Providers :
         \/ circuits' = [circuits EXCEPT ![p] = AfterReset(circuits[p])]
         \/ circuits' = [circuits EXCEPT ![p] = Closed]
         \/ circuits' = [circuits EXCEPT ![p] = AfterFailure(circuits[p])]
    \/ circuits' = [p \in Providers |-> Cooled(circuits[p])]

LEMMA CircuitsKept ==
  ASSUME IInv, CircuitStep
  PROVE  circuits' \in [Providers -> Circuit] /\ OpenIffFailing'
<1>1. \A p \in Providers : circuits[p] \in Circuit /\ Agrees(circuits[p])
  BY DEF IInv, TypeOK, OpenIffFailing, Agrees
<1>2. Closed \in Circuit /\ Agrees(Closed)
  BY CircuitAssumption DEF Closed, Circuit, Agrees
<1>3. circuits' \in [Providers -> Circuit] /\ \A p \in Providers : Agrees(circuits'[p])
  BY <1>1, <1>2, CircuitSteps DEF CircuitStep, IInv, TypeOK
<1> QED
  BY <1>3 DEF OpenIffFailing, Agrees

\* The place an execution has after one of its steps.
Place(e, x) ==
    /\ x \in Execution
    /\ x = Idle \/ (x.stage # "idle" /\ x.at \in 1 .. Len(RouteOf[e]))
    /\ x.stage = "sleeping" => x.attempt < MaxAttempts

LEMMA PlacesKept ==
  ASSUME IInv, NEW e \in Executions, NEW x, Place(e, x),
         executions' = [executions EXCEPT ![e] = x]
  PROVE  executions' \in [Executions -> Execution] /\ Placed'
BY DEF IInv, TypeOK, Placed, Place

LEMMA Fallbacks ==
  ASSUME IInv, NEW e \in Executions, executions[e].stage # "idle", Fallback(e)
  PROVE  executions' \in [Executions -> Execution] /\ Placed'
<1> DEFINE x == IF executions[e].at = Len(RouteOf[e]) THEN Idle
                ELSE [stage |-> "select", at |-> executions[e].at + 1, attempt |-> 0]
<1>1. executions[e].at \in 1 .. Len(RouteOf[e])
  BY ProviderInRange DEF IInv
<1>2. Place(e, x)
  BY <1>1, CircuitAssumption DEF Place, Execution, Stages, Idle
<1>3. executions' = [executions EXCEPT ![e] = x]
  BY DEF Fallback
<1> QED
  BY <1>2, <1>3, PlacesKept

LEMMA Steps ==
  ASSUME IInv, NEW e \in Executions, Start(e) \/ Proceed(e)
  PROVE  CircuitStep /\ executions' \in [Executions -> Execution] /\ Placed'
<1> USE CircuitAssumption
<1> DEFINE p == Provider(e)
<1>0. executions[e] \in Execution /\ Place(e, executions[e])
  BY DEF IInv, TypeOK, Placed, Place
<1>a. executions[e].stage # "idle" => p \in Providers
  BY ProviderInRange DEF IInv
<1>1. CASE Start(e)
  <2> DEFINE x == [stage |-> "select", at |-> 1, attempt |-> 0]
  <2>1. Len(RouteOf[e]) \in Nat /\ Len(RouteOf[e]) >= 1
    BY <1>1 DEF Start
  <2>2. Place(e, x)
    BY <2>1 DEF Place, Execution, Stages
  <2>3. executions' = [executions EXCEPT ![e] = x]
    BY <1>1 DEF Start
  <2> QED
    BY <1>1, <2>2, <2>3, PlacesKept DEF Start, CircuitStep
<1>2. CASE Select(e)
  <2>1. CircuitStep
    BY <1>2, <1>a DEF Select, Look, CircuitStep
  <2>2. CASE Fallback(e)
    BY <1>2, <2>1, <2>2, Fallbacks DEF Select
  <2>3. CASE Attempt(e, 1)
    <3> DEFINE x == [stage |-> "calling", at |-> executions[e].at, attempt |-> 1]
    <3>1. executions[e].at \in 1 .. Len(RouteOf[e])
      BY <1>2, ProviderInRange DEF IInv, Select
    <3>2. Place(e, x)
      BY <3>1 DEF Place, Execution, Stages
    <3> QED
      BY <2>1, <2>3, <3>2, PlacesKept DEF Attempt
  <2> QED
    BY <1>2, <2>2, <2>3 DEF Select
<1>3. CASE Succeed(e)
  <2>1. CircuitStep
    BY <1>3, <1>a DEF Succeed, CircuitStep
  <2>2. Place(e, Idle)
    BY DEF Place, Execution, Stages, Idle
  <2> QED
    BY <1>3, <2>1, <2>2, PlacesKept DEF Succeed
<1>4. CASE Refuse(e)
  <2>1. Place(e, Idle)
    BY DEF Place, Execution, Stages, Idle
  <2>2. CASE Fallback(e)
    BY <1>4, <2>2, Fallbacks DEF Refuse, CircuitStep
  <2>3. CASE executions' = [executions EXCEPT ![e] = Idle]
    BY <1>4, <2>1, <2>3, PlacesKept DEF Refuse, CircuitStep
  <2> QED
    BY <1>4, <2>2, <2>3 DEF Refuse
<1>5. CASE Fail(e)
  <2> DEFINE x == [executions[e] EXCEPT !.stage = "failed"]
  <2>1. CircuitStep
    BY <1>5, <1>a DEF Fail, CircuitStep
  <2>2. Place(e, x)
    BY <1>0, <1>5 DEF Place, Execution, Stages, Idle, Fail
  <2>3. executions' = [executions EXCEPT ![e] = x]
    BY <1>5 DEF Fail
  <2> QED
    BY <2>1, <2>2, <2>3, PlacesKept
<1>6. CASE Retry(e)
  <2>1. CircuitStep
    BY <1>6, <1>a DEF Retry, Look, CircuitStep
  <2>2. CASE Fallback(e)
    BY <1>6, <2>1, <2>2, Fallbacks DEF Retry
  <2>3. CASE /\ executions' = [executions EXCEPT ![e].stage = "sleeping"]
             /\ executions[e].attempt < MaxAttempts
    <3> DEFINE x == [executions[e] EXCEPT !.stage = "sleeping"]
    <3>1. Place(e, x)
      BY <1>0, <1>6, <2>3 DEF Place, Execution, Stages, Idle, Retry
    <3>2. executions' = [executions EXCEPT ![e] = x]
      BY <2>3
    <3> QED
      BY <2>1, <3>1, <3>2, PlacesKept
  <2> QED
    BY <1>6, <2>2, <2>3 DEF Retry
<1>7. CASE Awake(e)
  <2> DEFINE x == [stage |-> "calling", at |-> executions[e].at,
                   attempt |-> executions[e].attempt + 1]
  <2>1. executions[e].at \in 1 .. Len(RouteOf[e])
    BY <1>7, ProviderInRange DEF IInv, Awake
  <2>2. executions[e].attempt + 1 \in 0 .. MaxAttempts
    BY <1>0, <1>7 DEF Place, Execution, Awake
  <2>3. Place(e, x)
    BY <2>1, <2>2 DEF Place, Execution, Stages
  <2> QED
    BY <1>7, <2>3, PlacesKept DEF Awake, Attempt, CircuitStep
<1> QED
  BY <1>1, <1>2, <1>3, <1>4, <1>5, <1>6, <1>7 DEF Proceed, Answer

LEMMA Initially == Init => IInv
BY CircuitAssumption
   DEF Init, IInv, TypeOK, Placed, OpenIffFailing, Closed, Circuit, Idle, Execution, Stages

LEMMA Inductive == IInv /\ [Next]_vars => IInv'
<1> SUFFICES ASSUME IInv, [Next]_vars PROVE IInv'
  OBVIOUS
<1>1. ASSUME NEW e \in Executions, Start(e) \/ Proceed(e) PROVE IInv'
  <2>1. CircuitStep /\ executions' \in [Executions -> Execution] /\ Placed'
    BY <1>1, Steps
  <2>2. \A d \in Executions : executions'[d].at <= Len(RouteOf[d])
    BY <2>1, CircuitAssumption DEF Placed, Idle
  <2> QED
    BY <2>1, <2>2, CircuitsKept DEF IInv, TypeOK
<1>2. CASE Tick
  <2>1. CircuitStep
    BY <1>2 DEF Tick, CircuitStep
  <2> QED
    BY <1>2, <2>1, CircuitsKept DEF Tick, IInv, TypeOK, Placed
<1>3. CASE UNCHANGED vars
  BY <1>3 DEF vars, IInv, TypeOK, Placed, OpenIffFailing, Provider
<1> QED
  BY <1>1, <1>2, <1>3 DEF Next

\* The types of the circuits and executions; no attempt exceeds the policy.
THEOREM TypeCorrect == Spec => []TypeOK
<1>1. IInv => TypeOK
  BY DEF IInv
<1> QED
  BY Initially, Inductive, <1>1, PTL DEF Spec

\* An open circuit is one whose failures have reached the threshold, whatever
\* late answers, retries and resets interleave.
THEOREM OpenAgrees == Spec => []OpenIffFailing
<1>1. IInv => OpenIffFailing
  BY DEF IInv
<1> QED
  BY Initially, Inductive, <1>1, PTL DEF Spec

\* The step that closes a circuit.
Closing(p) ==
    \/ circuits[p].cooling = 0
    \/ \E e \in Executions : /\ executions[e].stage = "calling" /\ Provider(e) = p
                             /\ executions'[e] = Idle

LEMMA LooksClose ==
  ASSUME TypeOK, NEW q \in Providers, NEW available \in BOOLEAN, Look(q, available),
         NEW p \in Providers, circuits[p].open, ~circuits'[p].open
  PROVE  circuits[p].cooling = 0
BY DEF TypeOK, Look, Available, Resettable

LEMMA StepsClose ==
  ASSUME IInv, [Next]_vars,
         NEW p \in Providers, circuits[p].open, ~circuits'[p].open
  PROVE  Closing(p)
<1>0. circuits \in [Providers -> Circuit] /\ executions \in [Executions -> Execution]
  BY DEF IInv, TypeOK
<1>1. ASSUME NEW e \in Executions, Select(e) \/ Retry(e) PROVE Closing(p)
  <2>1. executions[e].stage # "idle"
    BY <1>1 DEF Select, Retry
  <2>2. Provider(e) \in Providers
    BY <2>1, ProviderInRange DEF IInv
  <2>3. CASE \E available \in BOOLEAN : Look(Provider(e), available)
    BY <2>2, <2>3, LooksClose DEF IInv, Closing
  <2>4. CASE UNCHANGED circuits
    BY <2>4
  <2> QED
    BY <1>1, <2>3, <2>4 DEF Select, Retry
<1>2. ASSUME NEW e \in Executions, Succeed(e) PROVE Closing(p)
  BY <1>0, <1>2 DEF Succeed, Closing
<1>3. ASSUME NEW e \in Executions, Fail(e) PROVE Closing(p)
  BY <1>0, <1>3 DEF Fail, AfterFailure, Circuit
<1>4. ASSUME NEW e \in Executions, Start(e) \/ Refuse(e) \/ Awake(e) PROVE Closing(p)
  BY <1>4 DEF Start, Refuse, Awake
<1>5. CASE Tick
  BY <1>0, <1>5 DEF Tick, Cooled, Circuit
<1>6. CASE UNCHANGED vars
  BY <1>6 DEF vars
<1> QED
  BY <1>1, <1>2, <1>3, <1>4, <1>5, <1>6 DEF Next, Proceed, Answer

\* Only its reset after the full time or a success of the same provider closes
\* an open circuit, for any number of concurrent executions.
THEOREM ClosesInTime == Spec => OpenUntilReset
<1>1. IInv /\ [Next]_vars =>
        [\A p \in Providers : circuits[p].open /\ ~circuits'[p].open => Closing(p)]_vars
  BY StepsClose
<1> QED
  BY Initially, Inductive, <1>1, PTL DEF Spec, OpenUntilReset, Closing
=============================================================================
