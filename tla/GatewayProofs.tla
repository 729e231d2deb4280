----------------------------- MODULE GatewayProofs -----------------------------
(***************************************************************************)
(* Safety of secure execution for any number of tenants, requests and      *)
(* clients. A reservation goes through three stages at most: it is held,   *)
(* and then either charged for a stored result or returned for a stored    *)
(* failure. An execution that is about to capture or to compensate knows   *)
(* the stored answer (Follows), and an answer that is stored stays, so     *)
(* executions that race for one request cannot settle it both ways.        *)
(***************************************************************************)
EXTENDS GatewayExecution, TLAPS

Books == INSTANCE BillingProofs WITH
    Usages <- Requests, Callers <- {}, Keys <- {}, Overrides <- {FALSE},
    Lookback <- 0, Lookahead <- 0, Expiries <- 0 .. MaxNow + Ttl

\* The stages of the reservation of request r.
Unreserved(r) ==
    /\ ~Performed("gateway_reserve", r) /\ reservations[r].status = "none"
    /\ ~Performed("gateway_capture", r) /\ ~Performed("gateway_release", r)
    /\ Billing!Remaining(reservations[r]) = 0 /\ reservations[r].captured = 0
    /\ posted[r].held = 0 /\ posted[r].charged = 0

Held(r) ==
    /\ Performed("gateway_reserve", r) /\ reservations[r].status = "active"
    /\ ~Performed("gateway_capture", r) /\ ~Performed("gateway_release", r)
    /\ reservations[r].estimated = Estimate
    /\ reservations[r].captured = 0 /\ reservations[r].released = 0
    /\ posted[r].held = Estimate /\ posted[r].charged = 0

Charged(r) ==
    /\ Performed("gateway_reserve", r) /\ reservations[r].status \in Billing!Settled
    /\ Performed("gateway_capture", r) /\ ~Performed("gateway_release", r)
    /\ Billing!Remaining(reservations[r]) = 0
    /\ posted[r].held = 0 /\ posted[r].charged = reservations[r].captured
    /\ outcome[r].answer \in Results
    /\ \E n \in 0 .. MaxNow :
         /\ n <= now /\ n < reservations[r].expires
         /\ posted[r].charged = ChargeAt[outcome[r].answer][n]

Returned(r) ==
    /\ Performed("gateway_reserve", r) /\ reservations[r].status \in Billing!Settled
    /\ ~Performed("gateway_capture", r) /\ Performed("gateway_release", r)
    /\ Billing!Remaining(reservations[r]) = 0 /\ reservations[r].captured = 0
    /\ posted[r].held = 0 /\ posted[r].charged = 0
    /\ outcome[r].answer \in Failures

Staged(r) ==
    /\ Unreserved(r) \/ Held(r) \/ Charged(r) \/ Returned(r)
    /\ outcome[r].captured => Charged(r)

\* What execution e has in hand is what is stored of its request.
Follows(e) ==
    LET r == RequestOf[e]  stage == exec[e].stage  answer == exec[e].answer IN
    /\ stage \in {"authorize", "reserve"} /\ answer # "none" => outcome[r].answer = answer
    /\ stage \in {"capture", "mark"} => answer \in Results /\ outcome[r].answer = answer
    /\ stage \in {"compensate", "uncompensated"}
         => answer \in Failures /\ outcome[r].answer = answer
    /\ stage = "mark" => Performed("gateway_capture", r)

IInv ==
    /\ TypeOK /\ now \in 0 .. MaxNow
    /\ \A r \in Rids : Staged(r)
    /\ \A e \in Executions : Follows(e)
    /\ EventsTellOutcomes

-----------------------------------------------------------------------------
\* The billing operations.

LEMMA RidParts == \A r \in Rids : /\ r[1] \in Tenants /\ r[2] \in Requests
                                  /\ \A q \in Rids : q[1] = r[1] /\ q[2] = r[2] => q = r
BY DEF Rids

\* A key that is recorded stays, and no other request's is recorded with it.
LEMMA KeyRecorded ==
  ASSUME NEW r \in Rids, NEW op \in Billing!Operations, Billing!Once(op, r[1], r[2]),
         idem \subseteq Billing!Scopes
  PROVE  /\ idem' \subseteq Billing!Scopes
         /\ ~Performed(op, r) /\ Performed(op, r)'
         /\ \A o : \A q \in Rids : o # op \/ q # r => (Performed(o, q)' <=> Performed(o, q))
<1>1. <<op, r[1], r[2]>> \in Billing!Scopes
  BY RidParts DEF Billing!Scopes
<1>2. idem' = idem \cup {<<op, r[1], r[2]>>} /\ <<op, r[1], r[2]>> \notin idem
  BY DEF Billing!Once
<1>3. \A o : \A q \in Rids : o # op \/ q # r => <<o, q[1], q[2]>> # <<op, r[1], r[2]>>
  BY RidParts
<1> QED BY <1>1, <1>2, <1>3 DEF Performed

\* Nothing changes about the reservations of other requests.
Elsewhere(r) ==
    \A q \in Rids \ {r} :
        /\ reservations'[q] = reservations[q] /\ posted'[q] = posted[q]
        /\ \A op \in {"gateway_reserve", "gateway_capture", "gateway_release"} :
             Performed(op, q)' <=> Performed(op, q)

LEMMA Appending ==
  ASSUME Billing!TypeOK, NEW t \in Tenants, NEW n \in Nat, NEW available \in Int,
         NEW reserved \in Int, Billing!Append(t, n, available, reserved)
  PROVE  ledger' \in [Tenants -> [available : Nat, reserved : Nat, version : Nat]]
<1>1. ledger[t] \in [available : Nat, reserved : Nat, version : Nat]
  BY DEF Billing!TypeOK
<1>2. /\ ledger[t].available + available \in Nat /\ ledger[t].reserved + reserved \in Nat
      /\ ledger[t].version + n \in Nat
  BY <1>1 DEF Billing!Append
<1> DEFINE new == [available |-> ledger[t].available + available,
                   reserved  |-> ledger[t].reserved + reserved,
                   version   |-> ledger[t].version + n]
<1>3. new \in [available : Nat, reserved : Nat, version : Nat]
  BY <1>2
<1>4. ledger' = [ledger EXCEPT ![t] = new]
  BY DEF Billing!Append
<1> QED BY <1>3, <1>4 DEF Billing!TypeOK

LEMMA Posting ==
  ASSUME Billing!TypeOK, NEW r \in Rids, NEW held \in Int, NEW charged \in Nat,
         Billing!Post(r, held, charged)
  PROVE  /\ posted' \in [Rids -> [held : Int, charged : Nat]]
         /\ posted'[r].held = posted[r].held + held
         /\ posted'[r].charged = posted[r].charged + charged
         /\ \A q \in Rids \ {r} : posted'[q] = posted[q]
<1>1. posted \in [Rids -> [held : Int, charged : Nat]]
  BY DEF Billing!TypeOK, Billing!Rids, Rids
<1>2. posted[r].held + held \in Int /\ posted[r].charged + charged \in Nat
  BY <1>1
<1> DEFINE new == [held |-> posted[r].held + held, charged |-> posted[r].charged + charged]
<1>3. new \in [held : Int, charged : Nat] /\ new.held = posted[r].held + held
      /\ new.charged = posted[r].charged + charged
  BY <1>2
<1>4. posted' = [posted EXCEPT ![r] = new]
  BY DEF Billing!Post
<1> HIDE DEF new
<1> QED BY <1>1, <1>3, <1>4

LEMMA Reserving ==
  ASSUME Billing!TypeOK, NEW r \in Rids, Billing!GatewayReserve(r, Estimate, now + Ttl)
  PROVE  /\ Billing!TypeOK' /\ Elsewhere(r) /\ UNCHANGED now
         /\ Unreserved(r) => Held(r)'
<1> DEFINE new == Billing!NewReservation(Estimate, now + Ttl)
<1>0. Estimate \in Nat /\ now + Ttl \in Nat /\ r[1] \in Tenants /\ -Estimate \in Int
  BY RidParts, ExecutionAssumption DEF Billing!TypeOK
<1>1. /\ new \in Billing!Reservation /\ new.status = "active" /\ new.estimated = Estimate
      /\ new.captured = 0 /\ new.released = 0
  BY <1>0 DEF Billing!NewReservation, Billing!Reservation, Billing!Open
<1>2. /\ Billing!Once("gateway_reserve", r[1], r[2])
      /\ Billing!Append(r[1], 1, -Estimate, Estimate)
      /\ Billing!Post(r, Estimate, 0)
      /\ reservations' = [reservations EXCEPT ![r] = new]
      /\ UNCHANGED <<account, usage, calls, now>>
  BY DEF Billing!GatewayReserve
<1> HIDE DEF new
<1>3. /\ idem' \subseteq Billing!Scopes /\ Performed("gateway_reserve", r)'
      /\ \A o : \A q \in Rids : o # "gateway_reserve" \/ q # r =>
           (Performed(o, q)' <=> Performed(o, q))
  BY <1>2, KeyRecorded DEF Billing!TypeOK, Billing!Operations
<1>4. ledger' \in [Tenants -> [available : Nat, reserved : Nat, version : Nat]]
  BY <1>0, <1>2, Appending
<1>5. /\ posted' \in [Rids -> [held : Int, charged : Nat]]
      /\ posted'[r].held = posted[r].held + Estimate
      /\ posted'[r].charged = posted[r].charged + 0
      /\ \A q \in Rids \ {r} : posted'[q] = posted[q]
  BY <1>0, <1>2, Posting
<1>6. /\ reservations' \in [Rids -> Billing!Reservation] /\ reservations'[r] = new
      /\ \A q \in Rids \ {r} : reservations'[q] = reservations[q]
  BY <1>1, <1>2 DEF Billing!TypeOK, Billing!Rids, Rids
<1>7. Billing!TypeOK'
  BY <1>2, <1>3, <1>4, <1>5, <1>6 DEF Billing!TypeOK, Billing!Rids, Rids
<1>8. Elsewhere(r)
  BY <1>3, <1>5, <1>6 DEF Elsewhere
<1>9. Unreserved(r) => Held(r)'
  BY <1>0, <1>1, <1>3, <1>5, <1>6 DEF Unreserved, Held
<1> QED BY <1>2, <1>7, <1>8, <1>9

LEMMA HeldTyped ==
  ASSUME Billing!TypeOK, NEW r \in Rids, Held(r)
  PROVE  /\ reservations[r] \in Billing!Reservation /\ Estimate \in Nat
         /\ Billing!Remaining(reservations[r]) = Estimate
         /\ r[1] \in Tenants /\ r[2] \in Requests
<1>1. reservations[r] \in Billing!Reservation /\ Estimate \in Nat
  BY ExecutionAssumption DEF Billing!TypeOK, Billing!Rids, Rids
<1> QED BY <1>1, RidParts DEF Held, Billing!Remaining

\* Only a reservation that is held can be captured or released.
LEMMA OpenIsHeld ==
  ASSUME NEW r \in Rids, Staged(r), reservations[r].status \in Billing!Open
  PROVE  Held(r)
BY DEF Staged, Unreserved, Charged, Returned, Billing!Open, Billing!Settled

LEMMA Capturing ==
  ASSUME Billing!TypeOK, now \in 0 .. MaxNow, NEW r \in Rids, Staged(r),
         NEW charge \in Amounts, Billing!GatewayCapture(r, charge),
         outcome[r].answer \in Results, charge = ChargeAt[outcome[r].answer][now],
         UNCHANGED outcome
  PROVE  Billing!TypeOK' /\ Elsewhere(r) /\ UNCHANGED now /\ Charged(r)'
<1> DEFINE res == reservations[r]  unused == Billing!Remaining(res) - charge
           new == Billing!AfterSettle(res, charge)
<1>0. Held(r) /\ charge \in Nat
  BY OpenIsHeld, ExecutionAssumption DEF Billing!GatewayCapture
<1>1. /\ res \in Billing!Reservation /\ Estimate \in Nat /\ Billing!Remaining(res) = Estimate
      /\ r[1] \in Tenants /\ r[2] \in Requests
  BY <1>0, HeldTyped
<1>2. /\ Billing!Once("gateway_capture", r[1], r[2])
      /\ ~Billing!Expired(res) /\ charge <= Estimate
      /\ Billing!RecordUsage(r[2], r, charge)
      /\ Billing!Append(r[1], IF unused = 0 THEN 1 ELSE 2, unused, -charge - unused)
      /\ Billing!Post(r, -charge - unused, charge)
      /\ reservations' = [reservations EXCEPT ![r] = new]
      /\ UNCHANGED <<account, calls, now>>
  BY <1>1 DEF Billing!GatewayCapture
<1>3. unused = Estimate - charge /\ unused \in Nat /\ -charge - unused = -Estimate
  BY <1>0, <1>1, <1>2
<1>4. /\ new \in Billing!Reservation /\ new.status \in Billing!Settled
      /\ new.estimated = Estimate /\ new.captured = charge /\ new.released = unused
      /\ new.expires = res.expires
  <2>1. new = [res EXCEPT !.captured = @ + charge, !.released = @ + unused,
                          !.status = IF unused = 0 THEN "captured" ELSE "released",
                          !.version = @ + 1]
    BY DEF Billing!AfterSettle
  <2>2. /\ res.captured = 0 /\ res.released = 0 /\ res.estimated = Estimate
        /\ res.version + 1 \in Nat /\ 0 + charge = charge /\ 0 + unused = unused
    BY <1>0, <1>1, <1>3 DEF Held, Billing!Reservation
  <2> HIDE DEF res, unused, new
  <2> QED BY <1>0, <1>1, <1>3, <2>1, <2>2 DEF Billing!Reservation, Billing!Settled
<1>5. Billing!Remaining(new) = 0
  BY <1>0, <1>1, <1>3, <1>4 DEF Billing!Remaining
<1>6. res.expires \in Nat /\ now < res.expires
  BY <1>1, <1>2 DEF Billing!Expired, Billing!Reservation, Billing!TypeOK
<1> HIDE DEF new, unused
<1>7. /\ idem' \subseteq Billing!Scopes /\ Performed("gateway_capture", r)'
      /\ \A o : \A q \in Rids : o # "gateway_capture" \/ q # r =>
           (Performed(o, q)' <=> Performed(o, q))
  BY <1>2, KeyRecorded DEF Billing!TypeOK, Billing!Operations
<1>8. ledger' \in [Tenants -> [available : Nat, reserved : Nat, version : Nat]]
  BY <1>1, <1>2, <1>3, Appending
<1>9. /\ posted' \in [Rids -> [held : Int, charged : Nat]]
      /\ posted'[r].held = 0 /\ posted'[r].charged = charge
      /\ \A q \in Rids \ {r} : posted'[q] = posted[q]
  <2>1. /\ posted' \in [Rids -> [held : Int, charged : Nat]]
        /\ posted'[r].held = posted[r].held - Estimate
        /\ posted'[r].charged = posted[r].charged + charge
        /\ \A q \in Rids \ {r} : posted'[q] = posted[q]
    <3>1. Billing!Post(r, -Estimate, charge) /\ -Estimate \in Int
      BY <1>1, <1>2, <1>3
    <3>2. /\ posted' \in [Rids -> [held : Int, charged : Nat]]
          /\ posted'[r].held = posted[r].held + -Estimate
          /\ posted'[r].charged = posted[r].charged + charge
          /\ \A q \in Rids \ {r} : posted'[q] = posted[q]
      BY <1>0, <3>1, Posting
    <3>3. posted[r].held + -Estimate = posted[r].held - Estimate
      BY <1>0, <1>1 DEF Held
    <3> QED BY <3>2, <3>3
  <2> QED BY <1>0, <1>1, <2>1 DEF Held
<1>10. /\ reservations' \in [Rids -> Billing!Reservation] /\ reservations'[r] = new
       /\ \A q \in Rids \ {r} : reservations'[q] = reservations[q]
  BY <1>2, <1>4 DEF Billing!TypeOK, Billing!Rids, Rids
<1>11. usage' \subseteq Billing!UsageEvent
  BY <1>0, <1>1, <1>2 DEF Billing!RecordUsage, Billing!UsageEvent, Billing!TypeOK, Billing!Rids, Rids
<1>12. Billing!TypeOK'
  BY <1>2, <1>7, <1>8, <1>9, <1>10, <1>11 DEF Billing!TypeOK, Billing!Rids, Rids
<1>13. Elsewhere(r)
  BY <1>7, <1>9, <1>10 DEF Elsewhere
<1>14. Charged(r)'
  BY <1>0, <1>2, <1>4, <1>5, <1>6, <1>7, <1>9, <1>10 DEF Charged, Held
<1> QED BY <1>2, <1>12, <1>13, <1>14

LEMMA Releasing ==
  ASSUME Billing!TypeOK, NEW r \in Rids, Staged(r), Billing!GatewayRelease(r),
         outcome[r].answer \in Failures, UNCHANGED outcome
  PROVE  Billing!TypeOK' /\ Elsewhere(r) /\ UNCHANGED now /\ Returned(r)'
<1> DEFINE res == reservations[r]  new == Billing!AfterRelease(res)
<1>0. Held(r)
  BY OpenIsHeld DEF Billing!GatewayRelease
<1>1. /\ res \in Billing!Reservation /\ Estimate \in Nat /\ Billing!Remaining(res) = Estimate
      /\ r[1] \in Tenants /\ -Estimate \in Int
  BY <1>0, HeldTyped
<1>2. /\ Billing!Once("gateway_release", r[1], r[2])
      /\ Billing!Append(r[1], 1, Estimate, -Estimate)
      /\ Billing!Post(r, -Estimate, 0)
      /\ reservations' = [reservations EXCEPT ![r] = new]
      /\ UNCHANGED <<account, usage, calls, now>>
  BY <1>1 DEF Billing!GatewayRelease
<1>3. /\ new \in Billing!Reservation /\ new.status \in Billing!Settled
      /\ new.captured = 0 /\ Billing!Remaining(new) = 0
  <2>1. new = [res EXCEPT !.released = @ + Estimate, !.status = "released", !.version = @ + 1]
    BY <1>1 DEF Billing!AfterRelease
  <2>2. /\ res.captured = 0 /\ res.released = 0 /\ res.estimated = Estimate
        /\ res.version + 1 \in Nat /\ 0 + Estimate = Estimate
    BY <1>0, <1>1 DEF Held, Billing!Reservation
  <2> HIDE DEF res, new
  <2>3. /\ new \in Billing!Reservation /\ new.status \in Billing!Settled
        /\ new.captured = 0 /\ new.estimated = Estimate /\ new.released = Estimate
    BY <1>1, <2>1, <2>2 DEF Billing!Reservation, Billing!Settled
  <2> QED BY <1>1, <2>3 DEF Billing!Remaining
<1> HIDE DEF new
<1>4. /\ idem' \subseteq Billing!Scopes /\ Performed("gateway_release", r)'
      /\ \A o : \A q \in Rids : o # "gateway_release" \/ q # r =>
           (Performed(o, q)' <=> Performed(o, q))
  BY <1>2, KeyRecorded DEF Billing!TypeOK, Billing!Operations
<1>5. ledger' \in [Tenants -> [available : Nat, reserved : Nat, version : Nat]]
  BY <1>1, <1>2, Appending
<1>6. /\ posted' \in [Rids -> [held : Int, charged : Nat]]
      /\ posted'[r].held = 0 /\ posted'[r].charged = 0
      /\ \A q \in Rids \ {r} : posted'[q] = posted[q]
  <2>1. /\ posted' \in [Rids -> [held : Int, charged : Nat]]
        /\ posted'[r].held = posted[r].held + -Estimate
        /\ posted'[r].charged = posted[r].charged + 0
        /\ \A q \in Rids \ {r} : posted'[q] = posted[q]
    BY <1>1, <1>2, Posting
  <2> QED BY <1>0, <1>1, <2>1 DEF Held
<1>7. /\ reservations' \in [Rids -> Billing!Reservation] /\ reservations'[r] = new
      /\ \A q \in Rids \ {r} : reservations'[q] = reservations[q]
  BY <1>2, <1>3 DEF Billing!TypeOK, Billing!Rids, Rids
<1>8. Billing!TypeOK'
  BY <1>2, <1>4, <1>5, <1>6, <1>7 DEF Billing!TypeOK, Billing!Rids, Rids
<1>9. Elsewhere(r)
  BY <1>4, <1>6, <1>7 DEF Elsewhere
<1>10. Returned(r)'
  BY <1>0, <1>2, <1>3, <1>4, <1>6, <1>7 DEF Returned, Held
<1> QED BY <1>2, <1>8, <1>9, <1>10

-----------------------------------------------------------------------------
\* What a step leaves in place.

\* The answer that is stored of q stays.
AnswerStays(q) == outcome[q].answer # "none" => outcome'[q].answer = outcome[q].answer

LEMMA StagedStays ==
  ASSUME NEW q \in Rids, Staged(q), AnswerStays(q),
         reservations'[q] = reservations[q], posted'[q] = posted[q],
         \A op \in {"gateway_reserve", "gateway_capture", "gateway_release"} :
           Performed(op, q)' <=> Performed(op, q),
         now \in Nat, now' \in Nat, now <= now',
         outcome'[q].captured => Charged(q)
  PROVE  Staged(q)'
<1>0. outcome[q].answer \in Answers => outcome'[q].answer = outcome[q].answer
  BY ExecutionAssumption DEF AnswerStays
<1>1. Unreserved(q) => Unreserved(q)'
  BY DEF Unreserved
<1>2. Held(q) => Held(q)'
  BY DEF Held
<1>3. Charged(q) => Charged(q)'
  <2> SUFFICES ASSUME Charged(q) PROVE Charged(q)'
    OBVIOUS
  <2>1. PICK n \in 0 .. MaxNow : /\ n <= now /\ n < reservations[q].expires
                                /\ posted[q].charged = ChargeAt[outcome[q].answer][n]
    BY DEF Charged
  <2>2. outcome'[q].answer = outcome[q].answer /\ n <= now'
    BY <1>0, <2>1, ExecutionAssumption DEF Charged, Answers
  <2> QED BY <2>1, <2>2 DEF Charged
<1>4. Returned(q) => Returned(q)'
  BY <1>0 DEF Returned, Answers
<1> QED BY <1>1, <1>2, <1>3, <1>4 DEF Staged

\* What an execution has in hand at each stage.
LEMMA InHand ==
  ASSUME TypeOK, NEW e \in Executions
  PROVE  /\ RequestOf[e] \in Rids /\ exec[e] \in Execution
         /\ exec[e].stage \in {"authorize", "reserve", "call"}
              => exec[e].answer \in {"none"} \cup Answers
         /\ exec[e].stage \in {"answered", "capture", "mark", "compensate", "uncompensated"}
              => exec[e].answer \in Answers
BY ExecutionAssumption DEF TypeOK, Execution, Idle

LEMMA FollowsStays ==
  ASSUME TypeOK, NEW e \in Executions, Follows(e), exec'[e] = exec[e],
         AnswerStays(RequestOf[e]),
         Performed("gateway_capture", RequestOf[e]) => Performed("gateway_capture", RequestOf[e])'
  PROVE  Follows(e)'
<1>1. exec[e].stage \in {"capture", "mark", "compensate", "uncompensated"}
        => exec[e].answer # "none"
  BY InHand, ExecutionAssumption
<1> QED BY <1>1 DEF Follows, AnswerStays

\* A step of one client.
LEMMA StepOf ==
  ASSUME IInv, NEW e \in Executions, TypeOK', now' \in 0 .. MaxNow,
         \A q \in Rids : Staged(q)' /\ AnswerStays(q),
         \A q \in Rids : Performed("gateway_capture", q) => Performed("gateway_capture", q)',
         \A x \in Executions \ {e} : exec'[x] = exec[x],
         Follows(e)', EventsTellOutcomes'
  PROVE  IInv'
<1>1. ASSUME NEW x \in Executions, x # e PROVE Follows(x)'
  BY <1>1, InHand, FollowsStays DEF IInv
<1> QED BY <1>1 DEF IInv

\* One that does no billing and stores no outcome.
LEMMA StepAlone ==
  ASSUME IInv, NEW e \in Executions, UNCHANGED <<billing, outcome, events>>,
         providerCalls' \in [Rids -> 0 .. MaxCalls], exec' \in [Executions -> Execution],
         \A x \in Executions \ {e} : exec'[x] = exec[x], Follows(e)'
  PROVE  IInv'
<1>1. UNCHANGED <<account, ledger, posted, reservations, usage, idem, calls, now>>
  BY DEF billing
<1>2. Billing!TypeOK'
  BY <1>1 DEF IInv, TypeOK, Billing!TypeOK
<1>3. TypeOK'
  BY <1>2 DEF IInv, TypeOK
<1>4. \A op : \A q : Performed(op, q)' <=> Performed(op, q)
  BY <1>1 DEF Performed
<1>5. now \in Nat /\ now' = now
  BY <1>1 DEF IInv, TypeOK, Billing!TypeOK
<1>6. \A q \in Rids : AnswerStays(q)
  BY DEF AnswerStays
<1>7. \A q \in Rids : Staged(q)'
  BY <1>1, <1>4, <1>5, <1>6, StagedStays DEF IInv, Staged
<1>8. EventsTellOutcomes' /\ now' \in 0 .. MaxNow
  BY <1>1 DEF IInv, EventsTellOutcomes, Mandatory
<1> QED BY <1>3, <1>4, <1>6, <1>7, <1>8, StepOf

\* The executions go on.
LEMMA Going ==
  ASSUME TypeOK, NEW e \in Executions, NEW stage, NEW answer, Goto(e, stage, answer),
         \/ stage \in {"authorize", "reserve", "call"} /\ answer \in {"none"} \cup Answers
         \/ /\ stage \in {"answered", "capture", "mark", "compensate", "uncompensated"}
            /\ answer \in Answers
  PROVE  /\ exec' \in [Executions -> Execution]
         /\ exec'[e].stage = stage /\ exec'[e].answer = answer
         /\ \A x \in Executions \ {e} : exec'[x] = exec[x]
<1> DEFINE new == [stage |-> stage, answer |-> answer]
<1>1. new \in Execution /\ new.stage = stage /\ new.answer = answer
  BY DEF Execution
<1>2. exec' = [exec EXCEPT ![e] = new]
  BY DEF Goto
<1> HIDE DEF new
<1> QED BY <1>1, <1>2 DEF TypeOK

LEMMA Stopping ==
  ASSUME TypeOK, NEW e \in Executions, exec' = [exec EXCEPT ![e] = Idle]
  PROVE  /\ exec' \in [Executions -> Execution] /\ Follows(e)'
         /\ \A x \in Executions \ {e} : exec'[x] = exec[x]
<1>1. exec'[e] = Idle /\ Idle \in Execution
  BY DEF TypeOK, Execution
<1>2. Follows(e)'
  BY <1>1 DEF Follows, Idle
<1> QED BY <1>1, <1>2 DEF TypeOK

LEMMA Abandoning ==
  ASSUME IInv, NEW e \in Executions, Abandon(e)
  PROVE  IInv'
<1>1. /\ exec' = [exec EXCEPT ![e] = Idle] /\ UNCHANGED <<billing, outcome, events, providerCalls>>
  BY DEF Abandon
<1>2. /\ exec' \in [Executions -> Execution] /\ Follows(e)'
      /\ \A x \in Executions \ {e} : exec'[x] = exec[x]
  BY <1>1, Stopping DEF IInv
<1>3. providerCalls' \in [Rids -> 0 .. MaxCalls]
  BY <1>1 DEF IInv, TypeOK
<1> QED BY <1>1, <1>2, <1>3, StepAlone

LEMMA Starting ==
  ASSUME IInv, NEW e \in Executions, Start(e)
  PROVE  IInv'
<1> DEFINE r == RequestOf[e]
<1>1. r \in Rids /\ outcome[r] \in Outcome
  BY InHand DEF IInv, TypeOK
<1>2. UNCHANGED <<billing, outcome, events>>
  <2>1. Mandatory(r, outcome[r]) \subseteq events
    BY <1>1 DEF IInv, EventsTellOutcomes
  <2> QED BY <2>1 DEF Start
<1>3. providerCalls' \in [Rids -> 0 .. MaxCalls]
  BY DEF Start, IInv, TypeOK
<1>4. CASE UNCHANGED exec
  <2>1. /\ exec' \in [Executions -> Execution]
        /\ \A x \in Executions : exec'[x] = exec[x]
    BY <1>4 DEF IInv, TypeOK
  <2>2. Follows(e)'
    BY <1>2, <1>4 DEF IInv, Follows, Performed, billing
  <2> QED BY <1>2, <1>3, <2>1, <2>2, StepAlone
<1>5. CASE Goto(e, "authorize", outcome[r].answer)
  <2>1. outcome[r].answer \in {"none"} \cup Answers
    BY <1>1 DEF Outcome, NoOutcome
  <2>2. /\ exec' \in [Executions -> Execution]
        /\ exec'[e].stage = "authorize" /\ exec'[e].answer = outcome[r].answer
        /\ \A x \in Executions \ {e} : exec'[x] = exec[x]
    BY <1>5, <2>1, Going DEF IInv
  <2>3. Follows(e)'
    BY <1>2, <2>2 DEF Follows
  <2> QED BY <1>2, <1>3, <2>2, <2>3, StepAlone
<1> QED BY <1>4, <1>5 DEF Start

\* Going on from one stage to another with the same answer, or with one that a
\* provider gives.
LEMMA Authorizing ==
  ASSUME IInv, NEW e \in Executions, Authorize(e)
  PROVE  IInv'
<1>1. /\ Goto(e, "reserve", exec[e].answer) /\ exec[e].stage = "authorize"
      /\ UNCHANGED <<billing, outcome, events, providerCalls>>
  BY DEF Authorize
<1>2. /\ exec' \in [Executions -> Execution]
      /\ exec'[e].stage = "reserve" /\ exec'[e].answer = exec[e].answer
      /\ \A x \in Executions \ {e} : exec'[x] = exec[x]
  BY <1>1, InHand, Going DEF IInv
<1>3. Follows(e)'
  BY <1>1, <1>2 DEF IInv, Follows
<1>4. providerCalls' \in [Rids -> 0 .. MaxCalls]
  BY <1>1 DEF IInv, TypeOK
<1> QED BY <1>1, <1>2, <1>3, <1>4, StepAlone

LEMMA Calling ==
  ASSUME IInv, NEW e \in Executions, NEW answer \in Answers, Call(e, answer)
  PROVE  IInv'
<1>1. /\ Goto(e, "answered", answer) /\ UNCHANGED <<billing, outcome, events>>
      /\ providerCalls' = [providerCalls EXCEPT ![RequestOf[e]] = IF @ < MaxCalls THEN @ + 1 ELSE @]
  BY DEF Call
<1>2. /\ exec' \in [Executions -> Execution]
      /\ exec'[e].stage = "answered" /\ exec'[e].answer = answer
      /\ \A x \in Executions \ {e} : exec'[x] = exec[x]
  BY <1>1, Going DEF IInv
<1>3. Follows(e)'
  BY <1>2 DEF Follows
<1>4. providerCalls' \in [Rids -> 0 .. MaxCalls]
  BY <1>1, ExecutionAssumption DEF IInv, TypeOK
<1> QED BY <1>1, <1>2, <1>3, <1>4, StepAlone

LEMMA Failing ==
  ASSUME IInv, NEW e \in Executions, CompensationFails(e)
  PROVE  IInv'
<1>1. /\ Goto(e, "uncompensated", exec[e].answer) /\ exec[e].stage = "compensate"
      /\ UNCHANGED <<billing, outcome, events, providerCalls>>
  BY DEF CompensationFails
<1>2. /\ exec' \in [Executions -> Execution]
      /\ exec'[e].stage = "uncompensated" /\ exec'[e].answer = exec[e].answer
      /\ \A x \in Executions \ {e} : exec'[x] = exec[x]
  BY <1>1, InHand, Going DEF IInv
<1>3. Follows(e)'
  BY <1>1, <1>2 DEF IInv, Follows
<1>4. providerCalls' \in [Rids -> 0 .. MaxCalls]
  BY <1>1 DEF IInv, TypeOK
<1> QED BY <1>1, <1>2, <1>3, <1>4, StepAlone

-----------------------------------------------------------------------------
\* The steps that do billing.

LEMMA StepBilled ==
  ASSUME IInv, NEW e \in Executions, UNCHANGED <<outcome, events, providerCalls, now>>,
         Billing!TypeOK', Elsewhere(RequestOf[e]), Staged(RequestOf[e])',
         Performed("gateway_capture", RequestOf[e]) => Performed("gateway_capture", RequestOf[e])',
         exec' \in [Executions -> Execution],
         \A x \in Executions \ {e} : exec'[x] = exec[x], Follows(e)'
  PROVE  IInv'
<1>1. TypeOK' /\ now' \in 0 .. MaxNow
  BY DEF IInv, TypeOK
<1>2. \A q \in Rids : AnswerStays(q)
  BY DEF AnswerStays
<1>3. now \in Nat /\ now <= now'
  BY DEF IInv, TypeOK, Billing!TypeOK
<1>4. ASSUME NEW q \in Rids PROVE Staged(q)'
  <2>1. q # RequestOf[e] => Staged(q)'
    BY <1>2, <1>3, StagedStays DEF IInv, Elsewhere, Staged
  <2> QED BY <2>1
<1>5. \A q \in Rids : Performed("gateway_capture", q) => Performed("gateway_capture", q)'
  BY DEF Elsewhere
<1>6. EventsTellOutcomes'
  BY DEF IInv, EventsTellOutcomes, Mandatory
<1> QED BY <1>1, <1>2, <1>4, <1>5, <1>6, StepOf

\* Which reservation a billing operation finds, by the keys that are recorded.
LEMMA Stages ==
  ASSUME NEW r \in Rids, Staged(r)
  PROVE  /\ ~Performed("gateway_reserve", r) => Unreserved(r) /\ ~outcome[r].captured
         /\ Performed("gateway_capture", r) => Charged(r)
         /\ Performed("gateway_release", r) => Returned(r)
BY DEF Staged, Unreserved, Held, Charged, Returned

LEMMA ReservingStep ==
  ASSUME IInv, NEW e \in Executions, Reserve(e)
  PROVE  IInv'
<1> DEFINE r == RequestOf[e]  answer == exec[e].answer
           stage == IF answer = "none" THEN "call"
                    ELSE IF answer \in Failures THEN "compensate" ELSE "capture"
<1>1. /\ Idempotently("gateway_reserve", r, Billing!GatewayReserve(r, Estimate, now + Ttl))
      /\ exec[e].stage = "reserve" /\ Goto(e, stage, answer)
      /\ UNCHANGED <<outcome, events, providerCalls>>
  BY DEF Reserve
<1>2. r \in Rids /\ answer \in {"none"} \cup Answers /\ Staged(r) /\ Follows(e)
  BY <1>1, InHand DEF IInv
<1>3. /\ exec' \in [Executions -> Execution]
      /\ exec'[e].stage = stage /\ exec'[e].answer = answer
      /\ \A x \in Executions \ {e} : exec'[x] = exec[x]
  BY <1>1, <1>2, Going DEF IInv
<1>4. Follows(e)'
  BY <1>1, <1>2, <1>3, ExecutionAssumption DEF Follows, Answers
<1>5. CASE Billing!GatewayReserve(r, Estimate, now + Ttl)
  <2>1. ~Performed("gateway_reserve", r)
    BY <1>5 DEF Billing!GatewayReserve, Billing!Once, Performed
  <2>2. Unreserved(r) /\ ~outcome[r].captured /\ ~Performed("gateway_capture", r)
    BY <1>2, <2>1, Stages DEF Unreserved
  <2>3. Billing!TypeOK' /\ Elsewhere(r) /\ UNCHANGED now /\ Held(r)'
    BY <1>2, <1>5, <2>2, Reserving DEF IInv, TypeOK
  <2>4. Staged(r)'
    BY <1>1, <2>2, <2>3 DEF Staged
  <2> QED BY <1>1, <1>3, <1>4, <2>2, <2>3, <2>4, StepBilled
<1>6. CASE UNCHANGED billing
  <2>1. providerCalls' \in [Rids -> 0 .. MaxCalls]
    BY <1>1 DEF IInv, TypeOK
  <2> QED BY <1>1, <1>3, <1>4, <1>6, <2>1, StepAlone
<1> QED BY <1>1, <1>5, <1>6 DEF Idempotently

LEMMA CapturingStep ==
  ASSUME IInv, NEW e \in Executions, Capture(e)
  PROVE  IInv'
<1> DEFINE r == RequestOf[e]  answer == exec[e].answer  charge == ChargeAt[answer][now]
<1>1. /\ Idempotently("gateway_capture", r, Billing!GatewayCapture(r, charge))
      /\ exec[e].stage = "capture" /\ Goto(e, "mark", answer)
      /\ UNCHANGED <<outcome, events, providerCalls>>
  BY DEF Capture
<1>2. /\ r \in Rids /\ answer \in Results /\ outcome[r].answer = answer /\ Staged(r)
      /\ answer \in Answers /\ charge \in Amounts
  BY <1>1, InHand, ExecutionAssumption DEF IInv, Follows
<1>3. /\ exec' \in [Executions -> Execution]
      /\ exec'[e].stage = "mark" /\ exec'[e].answer = answer
      /\ \A x \in Executions \ {e} : exec'[x] = exec[x]
  BY <1>1, <1>2, Going DEF IInv
<1>4. ASSUME Performed("gateway_capture", r)' PROVE Follows(e)'
  BY <1>1, <1>2, <1>3, <1>4 DEF Follows
<1>5. CASE Billing!GatewayCapture(r, charge)
  <2>1. Billing!TypeOK' /\ Elsewhere(r) /\ UNCHANGED now /\ Charged(r)'
    BY <1>1, <1>2, <1>5, Capturing DEF IInv, TypeOK
  <2>2. Staged(r)' /\ Performed("gateway_capture", r)'
    BY <2>1 DEF Staged, Charged
  <2> QED BY <1>1, <1>3, <1>4, <2>1, <2>2, StepBilled
<1>6. CASE Performed("gateway_capture", r) /\ UNCHANGED billing
  <2>1. providerCalls' \in [Rids -> 0 .. MaxCalls]
    BY <1>1 DEF IInv, TypeOK
  <2>2. Performed("gateway_capture", r)'
    BY <1>6 DEF Performed, billing
  <2> QED BY <1>1, <1>3, <1>4, <1>6, <2>1, <2>2, StepAlone
<1> QED BY <1>1, <1>5, <1>6 DEF Idempotently

LEMMA Compensating ==
  ASSUME IInv, NEW e \in Executions, Compensate(e)
  PROVE  IInv'
<1> DEFINE r == RequestOf[e]
<1>1. /\ Idempotently("gateway_release", r, Billing!GatewayRelease(r))
      /\ exec[e].stage = "compensate" /\ exec' = [exec EXCEPT ![e] = Idle]
      /\ UNCHANGED <<outcome, events, providerCalls>>
  BY DEF Compensate
<1>2. /\ exec' \in [Executions -> Execution] /\ Follows(e)'
      /\ \A x \in Executions \ {e} : exec'[x] = exec[x]
  BY <1>1, Stopping DEF IInv
<1>3. r \in Rids /\ outcome[r].answer \in Failures /\ Staged(r)
  BY <1>1, InHand DEF IInv, Follows
<1>4. CASE Billing!GatewayRelease(r)
  <2>1. Billing!TypeOK' /\ Elsewhere(r) /\ UNCHANGED now /\ Returned(r)'
    BY <1>1, <1>3, <1>4, Releasing DEF IInv, TypeOK
  <2>2. ~Performed("gateway_capture", r) /\ ~outcome[r].captured
    BY <1>3, ExecutionAssumption DEF Staged, Unreserved, Held, Charged, Returned
  <2>3. Staged(r)'
    BY <1>1, <2>1, <2>2 DEF Staged
  <2> QED BY <1>1, <1>2, <2>1, <2>2, <2>3, StepBilled
<1>5. CASE UNCHANGED billing
  <2>1. providerCalls' \in [Rids -> 0 .. MaxCalls]
    BY <1>1 DEF IInv, TypeOK
  <2> QED BY <1>1, <1>2, <1>5, <2>1, StepAlone
<1> QED BY <1>1, <1>4, <1>5 DEF Idempotently

-----------------------------------------------------------------------------
\* The steps that store an outcome.

LEMMA StepStored ==
  ASSUME IInv, NEW e \in Executions, NEW o \in Outcome, Store(RequestOf[e], o),
         UNCHANGED <<billing, providerCalls>>,
         outcome[RequestOf[e]].answer # "none" => o.answer = outcome[RequestOf[e]].answer,
         Mandatory(RequestOf[e], outcome[RequestOf[e]]) \subseteq Mandatory(RequestOf[e], o),
         o.captured => Charged(RequestOf[e]),
         exec' \in [Executions -> Execution],
         \A x \in Executions \ {e} : exec'[x] = exec[x], Follows(e)'
  PROVE  IInv'
<1> DEFINE r == RequestOf[e]
<1>0. r \in Rids /\ outcome \in [Rids -> Outcome]
  BY InHand DEF IInv, TypeOK
<1>1. /\ outcome' = [outcome EXCEPT ![r] = o] /\ events' = events \cup Mandatory(r, o)
      /\ UNCHANGED <<account, ledger, posted, reservations, usage, idem, calls, now>>
  BY DEF Store, billing
<1>2. /\ outcome' \in [Rids -> Outcome] /\ outcome'[r] = o
      /\ \A q \in Rids \ {r} : outcome'[q] = outcome[q]
  BY <1>0, <1>1
<1>3. TypeOK' /\ now' \in 0 .. MaxNow
  <2>1. Billing!TypeOK'
    BY <1>1 DEF IInv, TypeOK, Billing!TypeOK
  <2>2. Mandatory(r, o) \subseteq [r : Rids, type : EventTypes]
    BY <1>0 DEF Mandatory
  <2> QED BY <1>1, <1>2, <2>1, <2>2 DEF IInv, TypeOK
<1>4. \A op : \A q : Performed(op, q)' <=> Performed(op, q)
  BY <1>1 DEF Performed
<1>5. \A q \in Rids : AnswerStays(q)
  BY <1>2 DEF AnswerStays
<1>6. now \in Nat /\ now' = now
  BY <1>1 DEF IInv, TypeOK, Billing!TypeOK
<1>7. ASSUME NEW q \in Rids PROVE Staged(q)'
  <2>1. outcome'[q].captured => Charged(q)
    BY <1>2 DEF IInv, Staged
  <2> QED BY <1>1, <1>4, <1>5, <1>6, <2>1, StagedStays DEF IInv
<1>8. EventsTellOutcomes'
  <2>1. \A q \in Rids \ {r} : Mandatory(q, outcome'[q]) = Mandatory(q, outcome[q])
    BY <1>2
  <2> DEFINE before == UNION {Mandatory(q, outcome[q]) : q \in Rids}
             after == UNION {Mandatory(q, outcome'[q]) : q \in Rids}
  <2>2. \A x : x \in before <=> \E q \in Rids : x \in Mandatory(q, outcome[q])
    OBVIOUS
  <2>3. \A x : x \in after <=> \E q \in Rids : x \in Mandatory(q, outcome'[q])
    OBVIOUS
  <2>4. events = before
    BY DEF IInv, EventsTellOutcomes
  <2> HIDE DEF before, after
  <2>5. ASSUME NEW x PROVE x \in after <=> x \in before \cup Mandatory(r, o)
    BY <1>0, <1>2, <2>1, <2>2, <2>3
  <2>6. events' = after
    BY <1>1, <2>4, <2>5
  <2>7. EventsTellOutcomes' <=> events' = after
    BY DEF EventsTellOutcomes, Mandatory, after
  <2> QED BY <2>6, <2>7
<1> QED BY <1>3, <1>4, <1>5, <1>7, <1>8, StepOf

\* An answer that is stored is stored with an input.
LEMMA Stored ==
  ASSUME IInv, NEW r \in Rids, outcome[r].answer # "none"
  PROVE  outcome[r] \in [input : Inputs, answer : Answers, captured : BOOLEAN,
                         compensationFailed : BOOLEAN]
BY DEF IInv, TypeOK, Outcome, NoOutcome

\* Keeping the answer just received, or the same one as before.
LEMMA Remembered ==
  ASSUME IInv, NEW e \in Executions, NEW answer \in Answers,
         Goto(e, IF answer \in Results THEN "capture" ELSE "compensate", answer),
         outcome'[RequestOf[e]].answer = answer
  PROVE  /\ exec' \in [Executions -> Execution] /\ Follows(e)'
         /\ \A x \in Executions \ {e} : exec'[x] = exec[x]
<1> DEFINE stage == IF answer \in Results THEN "capture" ELSE "compensate"
<1>1. /\ exec' \in [Executions -> Execution]
      /\ exec'[e].stage = stage /\ exec'[e].answer = answer
      /\ \A x \in Executions \ {e} : exec'[x] = exec[x]
  BY Going DEF IInv
<1>2. Follows(e)'
  BY <1>1 DEF Follows, Answers
<1> QED BY <1>1, <1>2

LEMMA Remembering ==
  ASSUME IInv, NEW e \in Executions, Remember(e)
  PROVE  IInv'
<1> DEFINE r == RequestOf[e]  answer == exec[e].answer
           first == [NoOutcome EXCEPT !.input = InputOf[e], !.answer = answer]
<1>1. /\ r \in Rids /\ outcome[r] \in Outcome /\ answer \in Answers /\ InputOf[e] \in Inputs
      /\ UNCHANGED <<billing, providerCalls>> /\ Staged(r) /\ answer # "none"
  BY InHand, ExecutionAssumption DEF IInv, TypeOK, Remember, Inputs
<1>2. CASE /\ outcome[r] = NoOutcome /\ Store(r, first)
           /\ Goto(e, IF answer \in Results THEN "capture" ELSE "compensate", answer)
  <2>1. first \in Outcome /\ first.answer = answer /\ first.captured = FALSE
    BY <1>1 DEF Outcome, NoOutcome
  <2> HIDE DEF first
  <2>2. outcome'[r].answer = answer
    BY <1>1, <1>2, <2>1 DEF Store, IInv, TypeOK
  <2>3. Mandatory(r, outcome[r]) \subseteq Mandatory(r, first)
    BY <1>2, ExecutionAssumption DEF Mandatory, NoOutcome, Answers
  <2>4. outcome[r].answer = "none"
    BY <1>2 DEF NoOutcome
  <2>5. /\ exec' \in [Executions -> Execution] /\ Follows(e)'
        /\ \A x \in Executions \ {e} : exec'[x] = exec[x]
    BY <1>1, <1>2, <2>2, Remembered
  <2> QED BY <1>1, <1>2, <2>1, <2>3, <2>4, <2>5, StepStored
<1>3. CASE /\ outcome[r].answer = answer
           /\ answer \in Results => UNCHANGED <<outcome, events>>
           /\ answer \in Failures => Store(r, outcome[r])
           /\ Goto(e, IF answer \in Results THEN "capture" ELSE "compensate", answer)
  <2>1. outcome'[r].answer = answer
    BY <1>1, <1>3 DEF Store, Answers, IInv, TypeOK
  <2>2. /\ exec' \in [Executions -> Execution] /\ Follows(e)'
        /\ \A x \in Executions \ {e} : exec'[x] = exec[x]
    BY <1>1, <1>3, <2>1, Remembered
  <2>3. CASE answer \in Results
    <3>1. providerCalls' \in [Rids -> 0 .. MaxCalls]
      BY <1>1 DEF IInv, TypeOK
    <3> QED BY <1>1, <1>3, <2>2, <2>3, <3>1, StepAlone
  <2>4. CASE answer \in Failures
    <3>1. outcome[r].captured => Charged(r)
      BY <1>1 DEF Staged
    <3> QED BY <1>1, <1>3, <2>2, <2>4, <3>1, StepStored
  <2> QED BY <1>1, <2>3, <2>4 DEF Answers
<1>4. CASE exec' = [exec EXCEPT ![e] = Idle] /\ UNCHANGED <<outcome, events>>
  <2>1. /\ exec' \in [Executions -> Execution] /\ Follows(e)'
        /\ \A x \in Executions \ {e} : exec'[x] = exec[x]
    BY <1>4, Stopping DEF IInv
  <2>2. providerCalls' \in [Rids -> 0 .. MaxCalls]
    BY <1>1 DEF IInv, TypeOK
  <2> QED BY <1>1, <1>4, <2>1, <2>2, StepAlone
<1> QED BY <1>2, <1>3, <1>4 DEF Remember

LEMMA Marking ==
  ASSUME IInv, NEW e \in Executions, MarkCaptured(e)
  PROVE  IInv'
<1> DEFINE r == RequestOf[e]  old == outcome[r]  new == [old EXCEPT !.captured = TRUE]
<1>1. /\ r \in Rids /\ Staged(r) /\ old.answer \in Results /\ old.answer # "none"
      /\ Performed("gateway_capture", r)
  BY InHand, ExecutionAssumption DEF IInv, MarkCaptured, Follows, Answers
<1>2. /\ old \in [input : Inputs, answer : Answers, captured : BOOLEAN,
                  compensationFailed : BOOLEAN]
      /\ UNCHANGED <<billing, providerCalls>> /\ exec' = [exec EXCEPT ![e] = Idle]
      /\ Store(r, new)
  BY <1>1, Stored DEF MarkCaptured
<1> HIDE DEF old
<1>3. /\ new \in Outcome /\ new.answer = old.answer
      /\ new.compensationFailed = old.compensationFailed /\ new.captured = TRUE
  BY <1>2 DEF Outcome
<1>4. Mandatory(r, old) \subseteq Mandatory(r, new)
  BY <1>3 DEF Mandatory
<1>5. Charged(r)
  BY <1>1, Stages
<1>6. /\ exec' \in [Executions -> Execution] /\ Follows(e)'
      /\ \A x \in Executions \ {e} : exec'[x] = exec[x]
  BY <1>2, Stopping DEF IInv
<1> HIDE DEF new
<1> QED BY <1>1, <1>2, <1>3, <1>4, <1>5, <1>6, StepStored DEF old

LEMMA MarkingFailure ==
  ASSUME IInv, NEW e \in Executions, MarkCompensationFailure(e)
  PROVE  IInv'
<1> DEFINE r == RequestOf[e]  old == outcome[r]
           new == [old EXCEPT !.compensationFailed = TRUE]
<1>1. r \in Rids /\ Staged(r) /\ old.answer \in Failures /\ old.answer # "none"
  BY InHand, ExecutionAssumption DEF IInv, MarkCompensationFailure, Follows, Answers
<1>2. /\ old \in [input : Inputs, answer : Answers, captured : BOOLEAN,
                  compensationFailed : BOOLEAN]
      /\ UNCHANGED <<billing, providerCalls>> /\ exec' = [exec EXCEPT ![e] = Idle]
      /\ Store(r, new)
  BY <1>1, Stored DEF MarkCompensationFailure
<1>3. old.captured => Charged(r)
  BY <1>1 DEF Staged
<1> HIDE DEF old
<1>4. /\ new \in Outcome /\ new.answer = old.answer
      /\ new.captured = old.captured /\ new.compensationFailed = TRUE
  BY <1>2 DEF Outcome
<1>5. Mandatory(r, old) \subseteq Mandatory(r, new)
  BY <1>4 DEF Mandatory
<1>6. /\ exec' \in [Executions -> Execution] /\ Follows(e)'
      /\ \A x \in Executions \ {e} : exec'[x] = exec[x]
  BY <1>2, Stopping DEF IInv
<1> HIDE DEF new
<1> QED BY <1>1, <1>2, <1>3, <1>4, <1>5, <1>6, StepStored DEF old

-----------------------------------------------------------------------------
\* The inductive invariant, and what follows from it.

LEMMA Ticking ==
  ASSUME IInv, Tick
  PROVE  IInv'
<1>1. /\ UNCHANGED <<account, ledger, posted, reservations, usage, idem, calls>>
      /\ now < MaxNow /\ now' = now + 1 /\ UNCHANGED <<outcome, events, exec, providerCalls>>
  BY DEF Tick, Billing!Tick
<1>2. /\ now \in Nat /\ now' \in Nat /\ now <= now' /\ now' \in 0 .. MaxNow
  BY <1>1, ExecutionAssumption DEF IInv
<1>3. TypeOK'
  BY <1>1, <1>2 DEF IInv, TypeOK, Billing!TypeOK
<1>4. \A op : \A q : Performed(op, q)' <=> Performed(op, q)
  BY <1>1 DEF Performed
<1>5. ASSUME NEW q \in Rids PROVE Staged(q)'
  <2>1. AnswerStays(q) /\ (outcome'[q].captured => Charged(q))
    BY <1>1 DEF AnswerStays, IInv, Staged
  <2> QED BY <1>1, <1>2, <1>4, <2>1, StagedStays DEF IInv
<1>6. ASSUME NEW e \in Executions PROVE Follows(e)'
  BY <1>1, <1>4 DEF IInv, Follows
<1>7. EventsTellOutcomes'
  BY <1>1 DEF IInv, EventsTellOutcomes, Mandatory
<1> QED BY <1>2, <1>3, <1>5, <1>6, <1>7 DEF IInv

LEMMA Initially == Init => IInv
<1> SUFFICES ASSUME Init PROVE IInv
  OBVIOUS
<1>1. Billing!TypeOK /\ now \in 0 .. MaxNow
  <2>1. /\ [status |-> "active", version |-> 1] \in Billing!Account
        /\ Billing!NoReservation \in Billing!Reservation
        /\ [available |-> Funds, reserved |-> 0, version |-> 2]
             \in [available : Nat, reserved : Nat, version : Nat]
        /\ [held |-> 0, charged |-> 0] \in [held : Int, charged : Nat]
    BY ExecutionAssumption DEF Billing!Account, Billing!AccountStatuses, Billing!Reservation,
       Billing!NoReservation
  <2>2. now \in Nat /\ now \in 0 .. MaxNow /\ usage \subseteq Billing!UsageEvent
        /\ idem \subseteq Billing!Scopes /\ calls \in [{} -> Billing!Call]
    BY ExecutionAssumption DEF Init, Billing!FundedInit
  <2> QED BY <2>1, <2>2 DEF Init, Billing!FundedInit, Billing!TypeOK, Billing!Rids, Rids
<1>2. TypeOK
  <2>1. Idle \in Execution /\ NoOutcome \in Outcome /\ 0 \in 0 .. MaxCalls
    BY ExecutionAssumption DEF Execution, Outcome
  <2> QED BY <1>1, <2>1 DEF Init, TypeOK
<1>3. ASSUME NEW r \in Rids PROVE Staged(r)
  <2>1. reservations[r] = Billing!NoReservation /\ outcome[r] = NoOutcome
        /\ posted[r] = [held |-> 0, charged |-> 0] /\ idem = {}
    BY DEF Init, Billing!FundedInit, Billing!Rids, Rids
  <2> QED BY <2>1 DEF Staged, Unreserved, Performed, NoOutcome, Billing!NoReservation,
             Billing!Remaining
<1>4. ASSUME NEW e \in Executions PROVE Follows(e)
  BY DEF Init, Follows, Idle
<1>5. EventsTellOutcomes
  <2>1. \A r \in Rids : Mandatory(r, outcome[r]) = {}
    BY ExecutionAssumption DEF Init, Mandatory, NoOutcome, Answers
  <2> QED BY <2>1 DEF Init, EventsTellOutcomes
<1> QED BY <1>1, <1>2, <1>3, <1>4, <1>5 DEF IInv

LEMMA Inductive == IInv /\ [Next]_vars => IInv'
<1> SUFFICES ASSUME IInv, [Next]_vars PROVE IInv'
  OBVIOUS
<1>1. CASE UNCHANGED vars
  <2>1. /\ UNCHANGED <<account, ledger, posted, reservations, usage, idem, calls, now>>
        /\ UNCHANGED <<outcome, events, exec, providerCalls>>
    BY <1>1 DEF vars, billing
  <2>2. TypeOK' /\ now' \in 0 .. MaxNow
    BY <2>1 DEF IInv, TypeOK, Billing!TypeOK
  <2>3. ASSUME NEW q \in Rids PROVE Staged(q)'
    <3>1. AnswerStays(q) /\ (outcome'[q].captured => Charged(q))
      BY <2>1 DEF AnswerStays, IInv, Staged
    <3>2. \A op : Performed(op, q)' <=> Performed(op, q)
      BY <2>1 DEF Performed
    <3>3. now \in Nat /\ now' = now
      BY <2>1 DEF IInv, TypeOK, Billing!TypeOK
    <3> QED BY <2>1, <3>1, <3>2, <3>3, StagedStays DEF IInv
  <2>4. \A e \in Executions : Follows(e)'
    BY <2>1 DEF IInv, Follows, Performed
  <2>5. EventsTellOutcomes'
    BY <2>1 DEF IInv, EventsTellOutcomes, Mandatory
  <2> QED BY <2>2, <2>3, <2>4, <2>5 DEF IInv
<1>2. ASSUME NEW e \in Executions, Progress(e) PROVE IInv'
  BY <1>2, Starting, Authorizing, ReservingStep, Calling, Remembering, CapturingStep, Marking,
     Compensating, MarkingFailure DEF Progress
<1>3. ASSUME NEW e \in Executions, Interruption(e) PROVE IInv'
  BY <1>3, Failing, Abandoning DEF Interruption
<1>4. CASE Tick
  BY <1>4, Ticking
<1> QED BY <1>1, <1>2, <1>3, <1>4 DEF Next

LEMMA Invariant == Spec => []IInv
BY Initially, Inductive, PTL DEF Spec

\* The billing state, the outcome store and the executions keep their types.
THEOREM TypeCorrect == Spec => []TypeOK
<1>1. IInv => TypeOK
  BY DEF IInv
<1> QED BY <1>1, Invariant, PTL

\* A tenant pays for a request exactly what its stored result costs, and
\* nothing for a failed one, whichever of the concurrent executions of the
\* request reserves, captures, releases or crashes, and when.
THEOREM PaysForTheResult == Spec => []ChargeMatchesOutcome
<1>1. IInv => ChargeMatchesOutcome
  <2> SUFFICES ASSUME IInv, NEW r \in Rids
               PROVE  /\ IF Performed("gateway_capture", r)
                         THEN outcome[r].answer \in Results /\ \E n \in 0 .. MaxNow :
                                /\ n <= now /\ n < reservations[r].expires
                                /\ posted[r].charged = ChargeAt[outcome[r].answer][n]
                         ELSE posted[r].charged = 0
                      /\ Performed("gateway_release", r) => outcome[r].answer \in Failures
                      /\ outcome[r].captured => Performed("gateway_capture", r)
    BY DEF ChargeMatchesOutcome
  <2>1. Staged(r)
    BY DEF IInv
  <2>2. CASE Unreserved(r)
    BY <2>1, <2>2 DEF Staged, Unreserved, Charged
  <2>3. CASE Held(r)
    BY <2>1, <2>3 DEF Staged, Held, Charged
  <2>4. CASE Charged(r)
    BY <2>4 DEF Charged
  <2>5. CASE Returned(r)
    BY <2>1, <2>5 DEF Staged, Returned, Charged
  <2> QED BY <2>1, <2>2, <2>3, <2>4, <2>5 DEF Staged
<1> QED BY <1>1, Invariant, PTL

\* The outcome store's outbox holds exactly the events that the stored
\* outcomes call for.
THEOREM EventsMatchOutcomes == Spec => []EventsTellOutcomes
<1>1. IInv => EventsTellOutcomes
  BY DEF IInv
<1> QED BY <1>1, Invariant, PTL

\* Seen from the billing service, the gateway's use of it keeps the ledger and
\* the reservations in step, and leaves no credit behind a reservation that is
\* settled.
THEOREM BillingInStep ==
    Spec => [](Billing!LedgerMatchesReservations /\ Billing!NothingStranded)
<1>1. IInv => Billing!LedgerMatchesReservations /\ Billing!NothingStranded
  <2> SUFFICES ASSUME IInv, NEW r \in Rids
               PROVE  /\ posted[r].held = Billing!Remaining(reservations[r])
                      /\ posted[r].charged = reservations[r].captured
                      /\ IF reservations[r].status \in Billing!Open
                         THEN reservations[r].released = 0 /\ Billing!Remaining(reservations[r]) > 0
                         ELSE Billing!Remaining(reservations[r]) = 0
    BY DEF Billing!LedgerMatchesReservations, Billing!NothingStranded, Billing!Rids, Rids
  <2>1. Staged(r) /\ Billing!TypeOK
    BY DEF IInv, TypeOK
  <2>2. CASE Held(r)
    <3>1. Billing!Remaining(reservations[r]) = Estimate /\ Estimate > 0
      BY <2>1, <2>2, HeldTyped, ExecutionAssumption
    <3> QED BY <2>2, <3>1 DEF Held, Billing!Open
  <2>3. CASE Unreserved(r) \/ Charged(r) \/ Returned(r)
    BY <2>3 DEF Unreserved, Charged, Returned, Billing!Open, Billing!Settled
  <2> QED BY <2>1, <2>2, <2>3 DEF Staged
<1> QED BY <1>1, Invariant, PTL

\* Storing an outcome over another one of the same answer and input.
LEMMA Storing ==
  ASSUME IInv, NEW e \in Executions, NEW o, Store(RequestOf[e], o),
         LET old == outcome[RequestOf[e]] IN
           old = NoOutcome \/ /\ o.answer = old.answer /\ o.input = old.input
                              /\ old.captured => o.captured
  PROVE  \A r \in Rids : outcome[r] # NoOutcome =>
           /\ outcome'[r].answer = outcome[r].answer
           /\ outcome'[r].input = outcome[r].input
           /\ outcome[r].captured => outcome'[r].captured
<1>1. outcome \in [Rids -> Outcome] /\ outcome' = [outcome EXCEPT ![RequestOf[e]] = o]
  BY DEF IInv, TypeOK, Store
<1> QED BY <1>1

\* What an outcome says once is never taken back: a retry, however late, sees
\* the first answer to the first input, whatever a concurrent execution of the
\* request got from its provider call.
THEOREM FirstAnswerKept == Spec => FirstAnswerStays
<1> DEFINE Kept == \A r \in Rids : outcome[r] # NoOutcome =>
                     /\ outcome'[r].answer = outcome[r].answer
                     /\ outcome'[r].input = outcome[r].input
                     /\ outcome[r].captured => outcome'[r].captured
<1>1. IInv /\ [Next]_vars => [Kept]_vars
  <2> SUFFICES ASSUME IInv, Next PROVE Kept
    OBVIOUS
  <2>1. ASSUME UNCHANGED outcome PROVE Kept
    BY <2>1
  <2>2. ASSUME NEW e \in Executions, Remember(e) PROVE Kept
    <3>1. CASE /\ outcome[RequestOf[e]] = NoOutcome
               /\ Store(RequestOf[e], [NoOutcome EXCEPT !.input = InputOf[e],
                                                        !.answer = exec[e].answer])
      BY <3>1, Storing
    <3>2. CASE UNCHANGED outcome
      BY <2>1, <3>2
    <3>3. CASE Store(RequestOf[e], outcome[RequestOf[e]])
      BY <3>3, Storing
    <3>4. exec[e].answer \in Answers
      BY <2>2, InHand DEF IInv, Remember
    <3> QED BY <2>2, <3>1, <3>2, <3>3, <3>4 DEF Remember, Answers
  <2>3. ASSUME NEW e \in Executions, MarkCaptured(e) \/ MarkCompensationFailure(e) PROVE Kept
    <3> DEFINE old == outcome[RequestOf[e]]
    <3>1. RequestOf[e] \in Rids /\ old.answer # "none"
      BY <2>3, InHand, ExecutionAssumption
         DEF IInv, MarkCaptured, MarkCompensationFailure, Follows, Answers
    <3>2. old \in [input : Inputs, answer : Answers, captured : BOOLEAN,
                   compensationFailed : BOOLEAN]
      BY <3>1, Stored
    <3>3. \/ Store(RequestOf[e], [old EXCEPT !.captured = TRUE])
          \/ Store(RequestOf[e], [old EXCEPT !.compensationFailed = TRUE])
      BY <2>3 DEF MarkCaptured, MarkCompensationFailure
    <3>4. /\ [old EXCEPT !.captured = TRUE].answer = old.answer
          /\ [old EXCEPT !.captured = TRUE].input = old.input
          /\ [old EXCEPT !.captured = TRUE].captured
          /\ [old EXCEPT !.compensationFailed = TRUE].answer = old.answer
          /\ [old EXCEPT !.compensationFailed = TRUE].input = old.input
          /\ [old EXCEPT !.compensationFailed = TRUE].captured = old.captured
      BY <3>2
    <3> QED BY <3>3, <3>4, Storing
  <2> QED BY <2>1, <2>2, <2>3 DEF Next, Progress, Interruption, Start, Authorize, Reserve, Call,
             Capture, Compensate, CompensationFails, Abandon, Tick
<1>2. FirstAnswerStays <=> [][Kept]_vars
  BY DEF FirstAnswerStays
<1> QED BY <1>1, <1>2, Invariant, PTL DEF Spec

-----------------------------------------------------------------------------
\* The gateway as a client of billing. Books has the definitions of Billing once
\* more, with what is proved about them.

LEMMA SameOperations ==
  /\ \A r, amount, expires :
       Billing!GatewayReserve(r, amount, expires) => Books!GatewayReserve(r, amount, expires)
  /\ \A r, charge : Billing!GatewayCapture(r, charge) => Books!GatewayCapture(r, charge)
  /\ \A r : Billing!GatewayRelease(r) => Books!GatewayRelease(r)
  /\ Billing!Tick => Books!Tick
  /\ Billing!FundedInit => Books!FundedInit
  /\ Books!Rids = Rids
<1>1. \A r, amount, expires :
       Billing!GatewayReserve(r, amount, expires) => Books!GatewayReserve(r, amount, expires)
  BY DEF Billing!GatewayReserve, Billing!Once, Billing!NoReservation, Billing!Append,
     Billing!Post, Billing!NewReservation,
     Books!GatewayReserve, Books!Once, Books!NoReservation, Books!Append,
     Books!Post, Books!NewReservation
<1>2. \A r, charge : Billing!GatewayCapture(r, charge) => Books!GatewayCapture(r, charge)
  BY DEF Billing!GatewayCapture, Billing!Once, Billing!Open, Billing!Expired,
     Billing!Remaining, Billing!RecordUsage, Billing!Append, Billing!Post, Billing!AfterSettle,
     Books!GatewayCapture, Books!Once, Books!Open, Books!Expired,
     Books!Remaining, Books!RecordUsage, Books!Append, Books!Post, Books!AfterSettle
<1>3. \A r : Billing!GatewayRelease(r) => Books!GatewayRelease(r)
  BY DEF Billing!GatewayRelease, Billing!Once, Billing!Open,
     Billing!Remaining, Billing!Append, Billing!Post, Billing!AfterRelease,
     Books!GatewayRelease, Books!Once, Books!Open,
     Books!Remaining, Books!Append, Books!Post, Books!AfterRelease
<1>4. (Billing!Tick => Books!Tick) /\ Books!Rids = Rids
  BY DEF Billing!Tick, Books!Tick, Books!Rids, Rids
<1>5. Billing!FundedInit => Books!FundedInit
  BY DEF Billing!FundedInit, Billing!Rids, Billing!NoReservation, Billing!Idle,
     Books!FundedInit, Books!Rids, Books!NoReservation, Books!Idle
<1> QED BY <1>1, <1>2, <1>3, <1>4, <1>5

\* What the gateway does, in whatever order its executions interleave, crash
\* and repeat each other, is to billing the traffic of a well-behaved client.
THEOREM GatewayUsesBilling == Spec => Books!ReservationSpec
<1>1. Init => Books!FundedInit
  BY SameOperations DEF Init
<1>2. IInv /\ [Next]_vars => [Books!ReservationTraffic]_(Books!vars)
  <2> SUFFICES ASSUME IInv, [Next]_vars
               PROVE  Books!ReservationTraffic \/ UNCHANGED Books!vars
    OBVIOUS
  <2>1. ASSUME UNCHANGED billing PROVE UNCHANGED Books!vars
    BY <2>1 DEF billing, Books!vars
  <2>2. ASSUME NEW e \in Executions, Reserve(e)
        PROVE  Books!GatewayNext \/ UNCHANGED billing
    <3>1. Estimate \in Amounts /\ now + Ttl \in 0 .. MaxNow + Ttl
      BY ExecutionAssumption DEF IInv
    <3>2. RequestOf[e] \in Books!Rids
      BY SameOperations, InHand DEF IInv
    <3> QED BY <2>2, <3>1, <3>2, SameOperations DEF Reserve, Idempotently, Books!GatewayNext
  <2>3. ASSUME NEW e \in Executions, Capture(e)
        PROVE  Books!GatewayNext \/ UNCHANGED billing
    <3>1. exec[e].answer \in Results /\ exec[e].stage = "capture"
      BY <2>3 DEF Capture, IInv, Follows
    <3>2. ChargeAt[exec[e].answer][now] \in Amounts
      BY <3>1, ExecutionAssumption DEF IInv
    <3>3. RequestOf[e] \in Books!Rids
      BY SameOperations, InHand DEF IInv
    <3> QED BY <2>3, <3>2, <3>3, SameOperations DEF Capture, Idempotently, Books!GatewayNext
  <2>4. ASSUME NEW e \in Executions, Compensate(e)
        PROVE  Books!GatewayNext \/ UNCHANGED billing
    <3>1. RequestOf[e] \in Books!Rids
      BY SameOperations, InHand DEF IInv
    <3> QED BY <2>4, <3>1, SameOperations DEF Compensate, Idempotently, Books!GatewayNext
  <2>5. Tick => Books!Tick
    BY SameOperations DEF Tick
  <2>6. ASSUME NEW e \in Executions, Progress(e) \/ Interruption(e)
        PROVE  Reserve(e) \/ Capture(e) \/ Compensate(e) \/ UNCHANGED billing
    BY <2>6 DEF Progress, Interruption, Start, Authorize, Call, Remember, MarkCaptured,
       MarkCompensationFailure, CompensationFails, Abandon
  <2>7. UNCHANGED vars => UNCHANGED billing
    BY DEF vars
  <2> QED BY <2>1, <2>2, <2>3, <2>4, <2>5, <2>6, <2>7 DEF Next, Books!ReservationTraffic
<1> QED BY <1>1, <1>2, Invariant, PTL DEF Spec, Books!ReservationSpec

\* So no execution ever makes or loses credit: what is available, reserved and
\* spent adds up to the funds of the tenant, and the usage events of a request
\* to what was captured for it.
THEOREM CreditConserved == Spec => []Books!BooksBalance
<1>1. Books!BillingAssumption
  BY ExecutionAssumption DEF Books!BillingAssumption
<1>2. Books!ReservationSpec => []Books!BooksBalance
  BY <1>1, Books!BooksStayBalanced
<1> QED BY <1>2, GatewayUsesBilling, PTL
=============================================================================
