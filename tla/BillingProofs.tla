---------------------------- MODULE BillingProofs ----------------------------
(***************************************************************************)
(* Safety of the billing service for every number of tenants, requests and *)
(* callers: types first, then, for callers that send no version they have  *)
(* not seen, an inductive invariant (IInv) that ties what a caller has     *)
(* read to what is stored now, and the refinement of CreditHolds.          *)
(***************************************************************************)
EXTENDS Billing, Pricing, FiniteSetTheorems, TLAPS

\* The types, together with what the callers have checked.

AllChecked == \A c \in Callers : Checked(calls[c])
TypeInv == TypeOK /\ AllChecked
stores == <<account, ledger, posted, reservations, usage, idem, now>>

\* Callers send natural numbers as versions.
LEMMA ExpectableNat == \A v \in Nat : Expectable(v) \subseteq Nat
  BY BillingAssumption DEF Expectable

\* A caller without an operation is well typed.
LEMMA IdleCall == Idle \in Call /\ Checked(Idle)
  BY DEF Idle, Call, Checked, CaptureCall, ReleaseCall

\* A step that only changes one call keeps the types.
LEMMA CallStep ==
  ASSUME TypeInv, UNCHANGED stores,
         NEW c \in Callers, NEW call \in Call, Checked(call),
         calls' = [calls EXCEPT ![c] = call]
  PROVE  TypeInv'
  BY DEF TypeInv, TypeOK, AllChecked, stores, Checked, Remaining

\* A step that ends a call keeps the types of calls.
LEMMA EndStep ==
  ASSUME TypeInv, NEW c \in Callers, calls' = [calls EXCEPT ![c] = Idle]
  PROVE  (calls \in [Callers -> Call])' /\ AllChecked'
  BY IdleCall DEF TypeInv, TypeOK, AllChecked, Checked, Remaining

\* The records that the operations write are reservations.
LEMMA WrittenReservations ==
  /\ \A amount, expires \in Nat : NewReservation(amount, expires) \in Reservation
  /\ \A res \in Reservation, charge \in Nat : charge <= Remaining(res) =>
        /\ AfterCapture(res, charge) \in Reservation
        /\ AfterSettle(res, charge) \in Reservation
        /\ AfterRelease(res) \in Reservation
<1>1. ASSUME NEW res \in Reservation, NEW charge \in Nat, charge <= Remaining(res)
      PROVE  /\ AfterCapture(res, charge) \in Reservation
             /\ AfterSettle(res, charge) \in Reservation
             /\ AfterRelease(res) \in Reservation
  <2>1. Remaining(res) \in Nat /\ Remaining(res) - charge \in Nat
    BY <1>1 DEF Reservation, Remaining
  <2>2. /\ res.captured + charge \in Nat /\ res.released + Remaining(res) \in Nat
        /\ res.released + (Remaining(res) - charge) \in Nat /\ res.version + 1 \in Nat
    BY <2>1 DEF Reservation
  <2>3. AfterCapture(res, charge) \in Reservation
    BY <2>2 DEF Reservation, AfterCapture, Open, Settled
  <2>4. AfterSettle(res, charge) \in Reservation
    BY <2>2 DEF Reservation, AfterSettle, Open, Settled
  <2>5. AfterRelease(res) \in Reservation
    BY <2>2 DEF Reservation, AfterRelease, Open, Settled
  <2> QED BY <2>3, <2>4, <2>5
<1> QED BY <1>1 DEF NewReservation, Reservation, Open

\* The types hold initially.
LEMMA InitType == Init => TypeInv
<1> SUFFICES ASSUME Init PROVE TypeInv
  OBVIOUS
<1>1. AllChecked
  BY IdleCall DEF Init, AllChecked
<1>2. TypeOK
  BY IdleCall DEF Init, TypeOK, Account, NoAccount, Reservation, NoReservation, Open, Settled
<1> QED BY <1>1, <1>2 DEF TypeInv

\* Every step keeps the types, action by action.
LEMMA NextType == TypeInv /\ [Next]_vars => TypeInv'
<1> SUFFICES ASSUME TypeInv, [Next]_vars PROVE TypeInv'
  OBVIOUS
<1> USE BillingAssumption
<1>1. ASSUME NEW t \in Tenants, NEW key \in Keys, CreateAccount(t, key) PROVE TypeInv'
  BY <1>1 DEF CreateAccount, Once, TypeInv, AllChecked, Checked, Remaining, TypeOK, Account,
     AccountStatuses, Scopes, Operations
<1>2. ASSUME NEW c \in Callers, NEW t \in Tenants, NEW status \in AccountStatuses,
             NEW version \in Expectable(account[t].version), StatusRead(c, t, status, version)
      PROVE TypeInv'
  <2> DEFINE call == [op |-> "status", stage |-> "read", t |-> t, status |-> status,
                      version |-> version, snap |-> account[t]]
  <2>1. version \in Nat
    BY ExpectableNat DEF TypeInv, TypeOK, Account, NoAccount
  <2>2. call \in Call /\ Checked(call)
    BY <2>1 DEF Call, StatusCall, TypeInv, TypeOK, Checked, CaptureCall, ReleaseCall, AccountStatuses
  <2> QED BY <1>2, <2>2, CallStep DEF StatusRead, stores
<1>3. ASSUME NEW c \in Callers, StatusCommit(c) PROVE TypeInv'
  <2>1. account' \in [Tenants -> Account]
    BY <1>3 DEF StatusCommit, StatusCall, TypeInv, TypeOK, Account, NoAccount
  <2> QED BY <1>3, <2>1, EndStep DEF StatusCommit, TypeInv, TypeOK
<1>4. ASSUME NEW c \in Callers, NEW t \in Tenants, NEW key \in Keys, NEW op \in {"grant", "adjust"},
             NEW amount \in Amounts, NEW delta \in {amount, -amount},
             NEW balance \in Expectable(ledger[t].version), CreditCheck(c, op, t, key, delta, balance)
      PROVE TypeInv'
  <2> DEFINE call == [op |-> op, stage |-> "checked", t |-> t, key |-> key,
                      delta |-> delta, balance |-> balance]
  <2>1. balance \in Nat /\ delta \in Int
    BY ExpectableNat DEF TypeInv, TypeOK
  <2>2. call \in Call /\ Checked(call)
    BY <2>1 DEF Call, CreditCall, Checked, CaptureCall, ReleaseCall
  <2> QED BY <1>4, <2>2, CallStep DEF CreditCheck, stores
<1>5. ASSUME NEW c \in Callers, CreditCommit(c) PROVE TypeInv'
  <2> DEFINE call == calls[c]
  <2>1. call.t \in Tenants /\ call.delta \in Int /\ call.key \in Keys /\ call.op \in {"grant", "adjust"}
    BY <1>5 DEF CreditCommit, CreditCall
  <2>2. ledger' \in [Tenants -> [available : Nat, reserved : Nat, version : Nat]] /\ idem' \subseteq Scopes
    BY <1>5, <2>1 DEF CreditCommit, Append, Once, Scopes, Operations, TypeInv, TypeOK
  <2> QED BY <1>5, <2>2, EndStep DEF CreditCommit, TypeInv, TypeOK
<1>6. ASSUME NEW c \in Callers, NEW r \in Rids, NEW key \in Keys, NEW amount \in Amounts,
             NEW expires \in Expiries, NEW balance \in Expectable(ledger[r[1]].version),
             ReserveCheck(c, r, key, amount, expires, balance)
      PROVE TypeInv'
  <2> DEFINE call == [op |-> "reserve", stage |-> "checked", rid |-> r, key |-> key,
                      amount |-> amount, expires |-> expires, balance |-> balance]
  <2>1. balance \in Nat /\ expires \in Nat
    BY ExpectableNat DEF TypeInv, TypeOK, Rids
  <2>2. call \in Call /\ Checked(call)
    BY <2>1 DEF Call, ReserveCall, Checked, CaptureCall, ReleaseCall
  <2> QED BY <1>6, <2>2, CallStep DEF ReserveCheck, stores
<1>7. ASSUME NEW c \in Callers, ReserveCommit(c) PROVE TypeInv'
  <2> DEFINE call == calls[c]  r == call.rid
  <2>1. r \in Rids /\ r[1] \in Tenants /\ call.key \in Keys /\ call.amount \in Nat
    BY <1>7 DEF ReserveCommit, ReserveCall, Rids
  <2>2. NewReservation(call.amount, call.expires) \in Reservation
    BY <1>7, <2>1, WrittenReservations DEF ReserveCommit, ReserveCall
  <2>3. reservations' \in [Rids -> Reservation] /\ posted' \in [Rids -> [held : Int, charged : Nat]]
    BY <1>7, <2>1, <2>2 DEF ReserveCommit, Post, TypeInv, TypeOK
  <2>4. ledger' \in [Tenants -> [available : Nat, reserved : Nat, version : Nat]] /\ idem' \subseteq Scopes
    BY <1>7, <2>1 DEF ReserveCommit, Append, Once, Scopes, Operations, TypeInv, TypeOK
  <2> QED BY <1>7, <2>3, <2>4, EndStep DEF ReserveCommit, TypeInv, TypeOK
<1>8. ASSUME NEW c \in Callers, NEW r \in Rids, NEW key \in Keys, NEW usageId \in Usages,
             NEW charge \in Amounts, NEW override \in Overrides,
             NEW version \in Expectable(reservations[r].version),
             NEW balance \in Expectable(ledger[r[1]].version),
             CaptureRead(c, r, key, usageId, charge, override, version, balance)
      PROVE TypeInv'
  <2> DEFINE call == [op |-> "capture", stage |-> "read", rid |-> r, key |-> key,
                      usage |-> usageId, charge |-> charge, override |-> override,
                      version |-> version, balance |-> balance, snap |-> reservations[r]]
  <2>1. balance \in Nat /\ version \in Nat /\ reservations[r] \in Reservation
    BY ExpectableNat DEF TypeInv, TypeOK, Rids, Reservation
  <2>2. call \in Call /\ Checked(call)
    BY <2>1 DEF Call, CaptureCall, Checked, ReleaseCall
  <2> QED BY <1>8, <2>2, CallStep DEF CaptureRead, stores
<1>9. ASSUME NEW c \in Callers, CaptureCheck(c) PROVE TypeInv'
  <2> DEFINE call == [calls[c] EXCEPT !.stage = "checked"]
  <2>1. call \in Call /\ Checked(call)
    BY <1>9 DEF CaptureCheck, Call, CaptureCall, Checked, ReleaseCall, Remaining
  <2>2. calls' = [calls EXCEPT ![c] = call]
    BY <1>9 DEF CaptureCheck
  <2> QED BY <1>9, <2>1, <2>2, CallStep DEF CaptureCheck, stores
<1>10. ASSUME NEW c \in Callers, CaptureCommit(c) PROVE TypeInv'
  <2> DEFINE call == calls[c]  r == call.rid
  <2>1. /\ r \in Rids /\ r[1] \in Tenants /\ call.key \in Keys /\ call.charge \in Nat
        /\ call.usage \in Usages /\ call.snap \in Reservation
    BY <1>10 DEF CaptureCommit, CaptureCall, Rids
  <2>2. AfterCapture(call.snap, call.charge) \in Reservation
    BY <1>10, <2>1, WrittenReservations DEF CaptureCommit, Checked, TypeInv, AllChecked
  <2>3. reservations' \in [Rids -> Reservation] /\ posted' \in [Rids -> [held : Int, charged : Nat]]
    BY <1>10, <2>1, <2>2 DEF CaptureCommit, Post, TypeInv, TypeOK
  <2>4. ledger' \in [Tenants -> [available : Nat, reserved : Nat, version : Nat]] /\ idem' \subseteq Scopes
    BY <1>10, <2>1 DEF CaptureCommit, Append, Once, Scopes, Operations, TypeInv, TypeOK
  <2>5. usage' \subseteq UsageEvent
    BY <1>10, <2>1 DEF CaptureCommit, RecordUsage, UsageEvent, TypeInv, TypeOK
  <2> QED BY <1>10, <2>3, <2>4, <2>5, EndStep DEF CaptureCommit, TypeInv, TypeOK
<1>11. ASSUME NEW c \in Callers, NEW r \in Rids, NEW key \in Keys,
              NEW version \in Expectable(reservations[r].version),
              NEW balance \in Expectable(ledger[r[1]].version),
              ReleaseRead(c, r, key, version, balance)
       PROVE TypeInv'
  <2> DEFINE call == [op |-> "release", stage |-> "read", rid |-> r, key |-> key,
                      version |-> version, balance |-> balance, snap |-> reservations[r]]
  <2>1. balance \in Nat /\ version \in Nat /\ reservations[r] \in Reservation
    BY ExpectableNat DEF TypeInv, TypeOK, Rids, Reservation
  <2>2. call \in Call /\ Checked(call)
    BY <2>1 DEF Call, CaptureCall, Checked, ReleaseCall
  <2> QED BY <1>11, <2>2, CallStep DEF ReleaseRead, stores
<1>12. ASSUME NEW c \in Callers, ReleaseCheck(c) PROVE TypeInv'
  <2> DEFINE call == [calls[c] EXCEPT !.stage = "checked"]
  <2>1. call \in Call /\ Checked(call)
    BY <1>12 DEF ReleaseCheck, Call, CaptureCall, Checked, ReleaseCall, Remaining
  <2>2. calls' = [calls EXCEPT ![c] = call]
    BY <1>12 DEF ReleaseCheck
  <2> QED BY <1>12, <2>1, <2>2, CallStep DEF ReleaseCheck, stores
<1>13. ASSUME NEW c \in Callers, ReleaseCommit(c) PROVE TypeInv'
  <2> DEFINE call == calls[c]  r == call.rid
  <2>1. /\ r \in Rids /\ r[1] \in Tenants /\ call.key \in Keys
        /\ call.snap \in Reservation /\ Remaining(call.snap) \in Nat
    BY <1>13 DEF ReleaseCommit, ReleaseCall, Rids, Checked, TypeInv, AllChecked, Remaining, Reservation
  <2>2. AfterRelease(call.snap) \in Reservation
    BY <2>1, WrittenReservations
  <2>3. reservations' \in [Rids -> Reservation] /\ posted' \in [Rids -> [held : Int, charged : Nat]]
    BY <1>13, <2>1, <2>2 DEF ReleaseCommit, Post, TypeInv, TypeOK
  <2>4. ledger' \in [Tenants -> [available : Nat, reserved : Nat, version : Nat]] /\ idem' \subseteq Scopes
    BY <1>13, <2>1 DEF ReleaseCommit, Append, Once, Scopes, Operations, TypeInv, TypeOK
  <2> QED BY <1>13, <2>3, <2>4, EndStep DEF ReleaseCommit, TypeInv, TypeOK
<1>14. ASSUME NEW c \in Callers, Abandon(c) PROVE TypeInv'
  BY <1>14, IdleCall, CallStep DEF Abandon, stores
<1>15. ASSUME NEW r \in Rids, NEW amount \in Amounts, NEW expires \in Expiries,
              GatewayReserve(r, amount, expires)
       PROVE TypeInv'
  <2>1. r[1] \in Tenants /\ r[2] \in Requests /\ amount \in Nat /\ expires \in Nat
    BY DEF Rids
  <2>2. reservations' \in [Rids -> Reservation] /\ posted' \in [Rids -> [held : Int, charged : Nat]]
    BY <1>15, <2>1, WrittenReservations DEF GatewayReserve, Post, TypeInv, TypeOK
  <2>3. ledger' \in [Tenants -> [available : Nat, reserved : Nat, version : Nat]] /\ idem' \subseteq Scopes
    BY <1>15, <2>1 DEF GatewayReserve, Append, Once, Scopes, Operations, TypeInv, TypeOK
  <2> QED BY <1>15, <2>2, <2>3 DEF GatewayReserve, TypeInv, TypeOK, AllChecked, Checked, Remaining
<1>16. ASSUME NEW r \in Rids, NEW charge \in Amounts, GatewayCapture(r, charge) PROVE TypeInv'
  <2>1. r[1] \in Tenants /\ r[2] \in Requests /\ charge \in Nat /\ reservations[r] \in Reservation
        /\ charge <= Remaining(reservations[r]) /\ Remaining(reservations[r]) \in Nat
    BY <1>16 DEF Rids, TypeInv, TypeOK, GatewayCapture, Remaining, Reservation
  <2>2. reservations' \in [Rids -> Reservation] /\ posted' \in [Rids -> [held : Int, charged : Nat]]
    BY <1>16, <2>1, WrittenReservations DEF GatewayCapture, Post, TypeInv, TypeOK
  <2>3. ledger' \in [Tenants -> [available : Nat, reserved : Nat, version : Nat]] /\ idem' \subseteq Scopes
    BY <1>16, <2>1 DEF GatewayCapture, Append, Once, Scopes, Operations, TypeInv, TypeOK
  <2>4. usage' \subseteq UsageEvent
    BY <1>16, <2>1 DEF GatewayCapture, RecordUsage, UsageEvent, TypeInv, TypeOK
  <2> QED BY <1>16, <2>2, <2>3, <2>4 DEF GatewayCapture, TypeInv, TypeOK, AllChecked, Checked, Remaining
<1>17. ASSUME NEW r \in Rids, GatewayRelease(r) PROVE TypeInv'
  <2>1. r[1] \in Tenants /\ r[2] \in Requests /\ reservations[r] \in Reservation
        /\ Remaining(reservations[r]) \in Nat
    BY <1>17 DEF Rids, TypeInv, TypeOK, GatewayRelease, Remaining, Reservation
  <2>2. reservations' \in [Rids -> Reservation] /\ posted' \in [Rids -> [held : Int, charged : Nat]]
    BY <1>17, <2>1, WrittenReservations DEF GatewayRelease, Post, TypeInv, TypeOK
  <2>3. ledger' \in [Tenants -> [available : Nat, reserved : Nat, version : Nat]] /\ idem' \subseteq Scopes
    BY <1>17, <2>1 DEF GatewayRelease, Append, Once, Scopes, Operations, TypeInv, TypeOK
  <2> QED BY <1>17, <2>2, <2>3 DEF GatewayRelease, TypeInv, TypeOK, AllChecked, Checked, Remaining
<1>18. CASE Tick
  BY <1>18 DEF Tick, TypeInv, TypeOK, AllChecked, Checked, Remaining
<1>19. CASE UNCHANGED vars
  BY <1>19 DEF vars, TypeInv, TypeOK, AllChecked, Checked, Remaining
<1> QED BY <1>1, <1>2, <1>3, <1>4, <1>5, <1>6, <1>7, <1>8, <1>9, <1>10, <1>11, <1>12, <1>13,
           <1>14, <1>15, <1>16, <1>17, <1>18, <1>19
        DEF Next, AccountNext, ReservationNext, GatewayNext

\* The stores and the calls keep their types: no balance is ever negative, and
\* no caller holds a snapshot it should have refused.
THEOREM TypeCorrect == Spec => []TypeOK
<1>1. Spec => []TypeInv
  BY InitType, NextType, PTL DEF Spec
<1> QED BY <1>1, PTL DEF TypeInv

-----------------------------------------------------------------------------
(***************************************************************************)
(* When no caller runs ahead of the versions it has seen (Lookahead = 0),  *)
(* a commit replaces exactly the record it was computed from. Every step   *)
(* is then one of four shapes, from which the properties follow.           *)
(***************************************************************************)

AllAged == \A c \in Callers : Aged(calls[c])
Books == LedgerMatchesReservations /\ NothingStranded
IInv == TypeInv /\ AllAged /\ Books

\* The shapes: no credit moves, or it moves into or out of the available
\* credit, or a reservation is made, or one is drawn upon.
Quiet == UNCHANGED <<ledger, posted, reservations, usage>>

Credited(t, delta) ==
    Append(t, 1, delta, 0) /\ UNCHANGED <<posted, reservations, usage>>

Holds(r, amount, expires) ==
    /\ reservations[r] = NoReservation
    /\ Append(r[1], 1, -amount, amount)
    /\ Post(r, amount, 0)
    /\ reservations' = [reservations EXCEPT ![r] = NewReservation(amount, expires)]
    /\ UNCHANGED usage

\* The record that a capture or a release of spend and back leaves behind.
Drawn(res, spend, back, new) ==
    /\ new \in Reservation
    /\ new.status \in Open \cup Settled
    /\ new.status \in Settled <=> spend + back = Remaining(res)
    /\ new.status \in Open => back = 0
    /\ new.estimated = res.estimated
    /\ new.captured = res.captured + spend
    /\ new.released = res.released + back
    /\ new.version = res.version + 1

Draws(r, spend, back, new) ==
    /\ reservations[r].status \in Open
    /\ spend + back > 0
    /\ spend + back <= Remaining(reservations[r])
    /\ Drawn(reservations[r], spend, back, new)
    /\ reservations' = [reservations EXCEPT ![r] = new]
    /\ \E n \in Nat : Append(r[1], n, back, -(spend + back))
    /\ Post(r, -(spend + back), spend)
    /\ IF spend = 0 THEN UNCHANGED usage ELSE \E id \in Usages : RecordUsage(id, r, spend)

\* Of these, reservation traffic has all but the second.
Reserving ==
    \/ Quiet
    \/ \E r \in Rids, amount \in Amounts, expires \in Nat : Holds(r, amount, expires)
    \/ \E r \in Rids, spend, back \in Nat, new \in Reservation : Draws(r, spend, back, new)

Shape == Reserving \/ \E t \in Tenants, delta \in Int : Credited(t, delta)

\* Of the steps of a call on a reservation, only its commit moves credit.
LEMMA CommitsMove ==
  ASSUME NEW c \in Callers, ReservationNext(c)
  PROVE  /\ UNCHANGED account
         /\ Quiet \/ ReserveCommit(c) \/ CaptureCommit(c) \/ ReleaseCommit(c)
<1> DEFINE Still == UNCHANGED account /\ Quiet
<1>1. ASSUME NEW r, NEW key, NEW amount, NEW expires, NEW balance,
             ReserveCheck(c, r, key, amount, expires, balance)
      PROVE  Still
  BY <1>1 DEF ReserveCheck, Quiet
<1>2. ASSUME NEW r, NEW key, NEW usageId, NEW charge, NEW override, NEW version, NEW balance,
             CaptureRead(c, r, key, usageId, charge, override, version, balance)
      PROVE  Still
  BY <1>2 DEF CaptureRead, Quiet
<1>3. ASSUME NEW r, NEW key, NEW version, NEW balance, ReleaseRead(c, r, key, version, balance)
      PROVE  Still
  BY <1>3 DEF ReleaseRead, Quiet
<1>4. CaptureCheck(c) \/ ReleaseCheck(c) \/ Abandon(c) => Still
  BY DEF CaptureCheck, ReleaseCheck, Abandon, Quiet
<1>5. ReserveCommit(c) \/ CaptureCommit(c) \/ ReleaseCommit(c) => UNCHANGED account
  BY DEF ReserveCommit, CaptureCommit, ReleaseCommit
<1>6. Still \/ ReserveCommit(c) \/ CaptureCommit(c) \/ ReleaseCommit(c)
  <2> HIDE DEF Still
  <2> QED BY <1>1, <1>2, <1>3, <1>4, Zenon DEF ReservationNext
<1> QED BY <1>5, <1>6

\* The records that captures and releases write are records that a draw
\* leaves behind: they add up, and they are settled when nothing remains.
LEMMA WrittenDraws ==
  ASSUME NEW res \in Reservation, NEW charge \in Nat, charge <= Remaining(res)
  PROVE  /\ res.released = 0 => Drawn(res, charge, 0, AfterCapture(res, charge))
         /\ Drawn(res, charge, Remaining(res) - charge, AfterSettle(res, charge))
         /\ Drawn(res, 0, Remaining(res), AfterRelease(res))
<1>1. ASSUME res.released = 0 PROVE Drawn(res, charge, 0, AfterCapture(res, charge))
  <2> DEFINE new == AfterCapture(res, charge)
  <2>1. new \in Reservation
    BY WrittenReservations
  <2>2. /\ new.status = IF res.captured + charge = res.estimated
                        THEN "captured" ELSE "partially_captured"
        /\ new.estimated = res.estimated /\ new.captured = res.captured + charge
        /\ new.released = res.released /\ new.version = res.version + 1
    BY DEF AfterCapture, Reservation
  <2>3. new.status \in Settled <=> charge = Remaining(res)
    BY <1>1, <2>2 DEF Reservation, Remaining, Settled
  <2> QED BY <2>1, <2>2, <2>3 DEF Drawn, Reservation, Open, Settled
<1>2. Drawn(res, charge, Remaining(res) - charge, AfterSettle(res, charge))
  <2> DEFINE new == AfterSettle(res, charge)
  <2>1. new \in Reservation
    BY WrittenReservations
  <2>2. /\ new.status \in Settled
        /\ new.estimated = res.estimated /\ new.captured = res.captured + charge
        /\ new.released = res.released + (Remaining(res) - charge) /\ new.version = res.version + 1
    BY DEF AfterSettle, Reservation, Settled
  <2>3. charge + (Remaining(res) - charge) = Remaining(res)
    BY DEF Reservation, Remaining
  <2> QED BY <2>1, <2>2, <2>3 DEF Drawn, Open, Settled
<1>3. Drawn(res, 0, Remaining(res), AfterRelease(res))
  <2> DEFINE new == AfterRelease(res)
  <2>1. new \in Reservation
    BY WrittenReservations
  <2>2. /\ new.status \in Settled
        /\ new.estimated = res.estimated /\ new.captured = res.captured
        /\ new.released = res.released + Remaining(res) /\ new.version = res.version + 1
    BY DEF AfterRelease, Reservation, Settled
  <2> QED BY <2>1, <2>2 DEF Drawn, Reservation, Remaining, Open, Settled
<1> QED BY <1>1, <1>2, <1>3

\* A commit that passes the version check was computed from the stored record.
LEMMA Current ==
  ASSUME TypeInv, AllAged, NEW c \in Callers
  PROVE  /\ calls[c] \in CaptureCall \cup ReleaseCall
            /\ reservations[calls[c].rid].version = calls[c].version
              => calls[c].snap = reservations[calls[c].rid]
         /\ calls[c] \in StatusCall /\ account[calls[c].t].version = calls[c].version
              => calls[c].snap = account[calls[c].t]
<1>1. ASSUME calls[c] \in CaptureCall \cup ReleaseCall,
             reservations[calls[c].rid].version = calls[c].version
      PROVE  calls[c].snap = reservations[calls[c].rid]
  <2>1. calls[c].snap.version \in Nat /\ reservations[calls[c].rid].version \in Nat
    BY <1>1 DEF TypeInv, TypeOK, CaptureCall, ReleaseCall, Reservation
  <2> QED BY <1>1, <2>1 DEF AllAged, Aged
<1>2. ASSUME calls[c] \in StatusCall, account[calls[c].t].version = calls[c].version
      PROVE  calls[c].snap = account[calls[c].t]
  <2>1. calls[c].snap.version \in Nat /\ account[calls[c].t].version \in Nat
    BY <1>2 DEF TypeInv, TypeOK, StatusCall, Account, NoAccount
  <2> QED BY <1>2, <2>1 DEF AllAged, Aged
<1> QED BY <1>1, <1>2

\* Reservation traffic keeps to its shapes: commits by the version check,
\* gateway operations because they read inside their transaction.
LEMMA ReservingShape == IInv /\ [ReservationTraffic]_vars => Reserving
<1> SUFFICES ASSUME IInv, [ReservationTraffic]_vars PROVE Reserving
  OBVIOUS
<1> USE BillingAssumption
<1>2. ASSUME NEW c \in Callers, ReserveCommit(c) PROVE Reserving
  <2> DEFINE call == calls[c]
  <2>1. call.rid \in Rids /\ call.amount \in Amounts /\ call.expires \in Nat
    BY <1>2 DEF ReserveCommit, ReserveCall
  <2>2. Holds(call.rid, call.amount, call.expires)
    BY <1>2 DEF ReserveCommit, Holds
  <2> QED BY <2>1, <2>2 DEF Reserving
<1>3. ASSUME NEW c \in Callers, CaptureCommit(c) PROVE Reserving
  <2> DEFINE call == calls[c]  r == call.rid  res == reservations[r]
  <2>1. r \in Rids /\ r[1] \in Tenants /\ call.charge \in Nat \ {0} /\ res \in Reservation
    BY <1>3 DEF CaptureCommit, CaptureCall, Rids, IInv, TypeInv, TypeOK
  <2>2. call.snap = res
    BY <1>3, Current DEF CaptureCommit, IInv
  <2>3. res.status \in Open /\ call.charge <= Remaining(res)
    BY <1>3, <2>2 DEF CaptureCommit, IInv, TypeInv, AllChecked, Checked
  <2>4. res.released = 0
    BY <2>1, <2>3 DEF IInv, Books, NothingStranded
  <2> DEFINE new == AfterCapture(res, call.charge)
  <2>5. Drawn(res, call.charge, 0, new)
    BY <2>1, <2>3, <2>4, WrittenDraws
  <2>6. Draws(r, call.charge, 0, new)
    <3>1. /\ reservations' = [reservations EXCEPT ![r] = new]
          /\ Append(r[1], 1, 0, -(call.charge + 0))
          /\ Post(r, -(call.charge + 0), call.charge)
          /\ call.charge # 0 /\ \E id \in Usages : RecordUsage(id, r, call.charge)
      BY <1>3, <2>1, <2>2 DEF CaptureCommit, CaptureCall
    <3> QED BY <2>1, <2>3, <2>5, <3>1 DEF Draws
  <2> QED BY <2>1, <2>5, <2>6 DEF Reserving, Drawn
<1>4. ASSUME NEW c \in Callers, ReleaseCommit(c) PROVE Reserving
  <2> DEFINE call == calls[c]  r == call.rid  res == reservations[r]
  <2>1. r \in Rids /\ r[1] \in Tenants /\ res \in Reservation
    BY <1>4 DEF ReleaseCommit, ReleaseCall, Rids, IInv, TypeInv, TypeOK
  <2>2. call.snap = res
    BY <1>4, Current DEF ReleaseCommit, IInv
  <2>3. res.status \in Open /\ Remaining(res) > 0 /\ Remaining(res) \in Nat
    BY <1>4, <2>1, <2>2 DEF ReleaseCommit, IInv, TypeInv, AllChecked, Checked, Remaining, Reservation
  <2> DEFINE new == AfterRelease(res)
  <2>5. Drawn(res, 0, Remaining(res), new)
    BY <2>1, <2>3, WrittenDraws
  <2>6. Draws(r, 0, Remaining(res), new)
    <3>1. /\ reservations' = [reservations EXCEPT ![r] = new]
          /\ Append(r[1], 1, Remaining(res), -(0 + Remaining(res)))
          /\ Post(r, -(0 + Remaining(res)), 0) /\ UNCHANGED usage
      BY <1>4, <2>2, <2>3 DEF ReleaseCommit
    <3> QED BY <2>1, <2>3, <2>5, <3>1 DEF Draws
  <2> QED BY <2>1, <2>3, <2>5, <2>6 DEF Reserving, Drawn
<1>5. ASSUME NEW r \in Rids, NEW amount \in Amounts, NEW expires \in Expiries,
             GatewayReserve(r, amount, expires)
      PROVE Reserving
  <2>1. expires \in Nat /\ Holds(r, amount, expires)
    BY <1>5 DEF GatewayReserve, Holds
  <2> QED BY <2>1 DEF Reserving
<1>6. ASSUME NEW r \in Rids, NEW charge \in Amounts, GatewayCapture(r, charge) PROVE Reserving
  <2> DEFINE res == reservations[r]  new == AfterSettle(res, charge)  back == Remaining(res) - charge
  <2>1. r[1] \in Tenants /\ res \in Reservation /\ charge \in Nat \ {0}
    BY DEF Rids, IInv, TypeInv, TypeOK
  <2>2. res.status \in Open /\ charge <= Remaining(res) /\ back \in Nat
    BY <1>6, <2>1 DEF GatewayCapture, Remaining, Reservation
  <2>3. Drawn(res, charge, back, new)
    BY <2>1, <2>2, WrittenDraws
  <2>4. Draws(r, charge, back, new)
    <3>1. -charge - back = -(charge + back) /\ charge + back > 0 /\ charge + back <= Remaining(res)
      BY <2>1, <2>2 DEF Remaining, Reservation
    <3>2. /\ reservations' = [reservations EXCEPT ![r] = new]
          /\ \E n \in Nat : Append(r[1], n, back, -charge - back)
          /\ Post(r, -charge - back, charge)
          /\ charge # 0 /\ r[2] \in Usages /\ RecordUsage(r[2], r, charge)
      BY <1>6 DEF GatewayCapture, Rids
    <3> QED BY <2>1, <2>2, <2>3, <3>1, <3>2 DEF Draws
  <2> QED BY <2>1, <2>2, <2>3, <2>4 DEF Reserving, Drawn
<1>7. ASSUME NEW r \in Rids, GatewayRelease(r) PROVE Reserving
  <2> DEFINE res == reservations[r]  new == AfterRelease(res)
  <2>1. r[1] \in Tenants /\ res \in Reservation
    BY DEF Rids, IInv, TypeInv, TypeOK
  <2>2. res.status \in Open /\ Remaining(res) \in Nat /\ Remaining(res) > 0
    BY <1>7, <2>1 DEF GatewayRelease, Remaining, Reservation
  <2>3. Drawn(res, 0, Remaining(res), new)
    BY <2>1, <2>2, WrittenDraws
  <2>4. Draws(r, 0, Remaining(res), new)
    <3>1. /\ reservations' = [reservations EXCEPT ![r] = new]
          /\ Append(r[1], 1, Remaining(res), -(0 + Remaining(res)))
          /\ Post(r, -(0 + Remaining(res)), 0) /\ UNCHANGED usage
      BY <1>7, <2>2 DEF GatewayRelease
    <3> QED BY <2>1, <2>2, <2>3, <3>1 DEF Draws
  <2> QED BY <2>1, <2>2, <2>3, <2>4 DEF Reserving, Drawn
<1>8. CASE Quiet
  BY <1>8 DEF Reserving
<1>9. CASE UNCHANGED vars
  BY <1>8, <1>9 DEF vars, Quiet
<1>11. ASSUME NEW c \in Callers, ReservationNext(c) PROVE Reserving
  <2>1. Quiet \/ ReserveCommit(c) \/ CaptureCommit(c) \/ ReleaseCommit(c)
    BY <1>11, CommitsMove
  <2>2. CASE Quiet
    BY <2>2, <1>8
  <2>3. CASE ReserveCommit(c)
    BY <2>3, <1>2
  <2>4. CASE CaptureCommit(c)
    BY <2>4, <1>3
  <2>5. CASE ReleaseCommit(c)
    BY <2>5, <1>4
  <2> QED BY <2>1, <2>2, <2>3, <2>4, <2>5
<1>12. CASE GatewayNext
  BY <1>5, <1>6, <1>7, <1>12 DEF GatewayNext
<1>13. CASE Tick
  BY <1>8, <1>13 DEF Tick, Quiet
<1> QED BY <1>9, <1>11, <1>12, <1>13 DEF ReservationTraffic

\* Every other step commits a grant or an adjustment.
LEMMA StepKinds ==
  IInv /\ [Next]_vars => Reserving \/ \E c \in Callers : CreditCommit(c)
<1> SUFFICES ASSUME IInv, [Next]_vars PROVE Reserving \/ \E c \in Callers : CreditCommit(c)
  OBVIOUS
<1>1. Quiet => Reserving
  BY DEF Reserving
<1>2. ASSUME NEW c \in Callers, AccountNext(c) PROVE Quiet \/ CreditCommit(c)
  <2>1. \A t, status, version : StatusRead(c, t, status, version) => Quiet
    BY DEF StatusRead, Quiet
  <2>2. StatusCommit(c) => Quiet
    BY DEF StatusCommit, Quiet
  <2>3. \A t, key, op, delta, balance : CreditCheck(c, op, t, key, delta, balance) => Quiet
    BY DEF CreditCheck, Quiet
  <2> QED BY <1>2, <2>1, <2>2, <2>3 DEF AccountNext
<1>3. CASE ReservationTraffic \/ UNCHANGED vars
  BY <1>3, ReservingShape
<1>4. CASE \E t \in Tenants, key \in Keys : CreateAccount(t, key)
  BY <1>1, <1>4 DEF CreateAccount, Quiet
<1> QED BY <1>1, <1>2, <1>3, <1>4 DEF Next, ReservationTraffic

\* Every step has one of the four shapes.
LEMMA StepShape == IInv /\ [Next]_vars => Shape
<1>1. ASSUME NEW c \in Callers, CreditCommit(c)
      PROVE  \E t \in Tenants, delta \in Int : Credited(t, delta)
  <2>1. calls[c].t \in Tenants /\ calls[c].delta \in Int
    BY <1>1 DEF CreditCommit, CreditCall
  <2>2. Credited(calls[c].t, calls[c].delta)
    BY <1>1 DEF CreditCommit, Credited
  <2> QED BY <2>1, <2>2
<1> QED BY <1>1, StepKinds DEF Shape

\* Every write of a record moves its version on by one: a stale write would
\* have repeated a version.
LEMMA VersionsMove ==
  IInv /\ [Next]_vars =>
      /\ \A r \in Rids : reservations'[r] = reservations[r]
                        \/ reservations'[r].version = reservations[r].version + 1
      /\ \A t \in Tenants : account'[t] = account[t]
                          \/ /\ account'[t].version = account[t].version + 1
                             /\ account[t].status # "closed"
<1> SUFFICES ASSUME IInv, [Next]_vars
    PROVE /\ \A r \in Rids : reservations'[r] = reservations[r]
                             \/ reservations'[r].version = reservations[r].version + 1
          /\ \A t \in Tenants : account'[t] = account[t]
                               \/ /\ account'[t].version = account[t].version + 1
                                  /\ account[t].status # "closed"
  OBVIOUS
<1>1. ASSUME NEW r \in Rids
      PROVE reservations'[r] = reservations[r] \/ reservations'[r].version = reservations[r].version + 1
  <2>1. CASE Quiet \/ \E t \in Tenants, delta \in Int : Credited(t, delta)
    BY <2>1 DEF Quiet, Credited
  <2>2. ASSUME NEW q \in Rids, NEW amount \in Amounts, NEW expires \in Nat, Holds(q, amount, expires)
        PROVE reservations'[r] = reservations[r] \/ reservations'[r].version = reservations[r].version + 1
    BY <2>2 DEF Holds, NoReservation, NewReservation, IInv, TypeInv, TypeOK
  <2>3. ASSUME NEW q \in Rids, NEW spend \in Nat, NEW back \in Nat, NEW new \in Reservation,
               Draws(q, spend, back, new)
        PROVE reservations'[r] = reservations[r] \/ reservations'[r].version = reservations[r].version + 1
    BY <2>3 DEF Draws, Drawn, IInv, TypeInv, TypeOK
  <2> QED BY <2>1, <2>2, <2>3, StepShape DEF Shape, Reserving
<1>2. ASSUME NEW t \in Tenants
      PROVE account'[t] = account[t] \/ (account'[t].version = account[t].version + 1
                                          /\ account[t].status # "closed")
  <2>1. ASSUME NEW c \in Callers, StatusCommit(c)
        PROVE account'[t] = account[t] \/ (account'[t].version = account[t].version + 1
                                            /\ account[t].status # "closed")
    <3>1. calls[c].snap = account[calls[c].t] /\ calls[c].snap.status # "closed"
      BY <2>1, Current DEF StatusCommit, IInv, AllAged, Aged
    <3>2. /\ calls[c].t \in Tenants
          /\ account' = [account EXCEPT ![calls[c].t] =
               [status |-> calls[c].status, version |-> calls[c].snap.version + 1]]
      BY <2>1 DEF StatusCommit, StatusCall
    <3> QED BY <3>1, <3>2 DEF IInv, TypeInv, TypeOK
  <2>2. ASSUME NEW q \in Tenants, NEW key \in Keys, CreateAccount(q, key)
        PROVE account'[t] = account[t] \/ (account'[t].version = account[t].version + 1
                                            /\ account[t].status # "closed")
    BY <2>2 DEF CreateAccount, NoAccount, IInv, TypeInv, TypeOK
  <2>3. CASE UNCHANGED account
    BY <2>3
  <2>4. ASSUME NEW c \in Callers, AccountNext(c) PROVE StatusCommit(c) \/ UNCHANGED account
    BY <2>4 DEF AccountNext, StatusRead, CreditCheck, CreditCommit
  <2>5. ASSUME NEW c \in Callers, ReservationNext(c) PROVE UNCHANGED account
    BY <2>5, CommitsMove
  <2>6. GatewayNext \/ Tick \/ UNCHANGED vars => UNCHANGED account
    BY DEF GatewayNext, GatewayReserve, GatewayCapture, GatewayRelease, Tick, vars
  <2> QED BY <2>1, <2>2, <2>3, <2>4, <2>5, <2>6 DEF Next
<1> QED BY <1>1, <1>2

\* A call keeps its age while the stores move on under it.
LEMMA AgeKept ==
  ASSUME IInv, [Next]_vars, NEW call \in Call, Aged(call)
  PROVE  Aged(call)'
<1>1. ASSUME call \in StatusCall
      PROVE  /\ call.snap.version <= account'[call.t].version
             /\ call.snap.version = account'[call.t].version => call.snap = account'[call.t]
  <2>1. call.t \in Tenants /\ call.snap.version \in Nat /\ account[call.t].version \in Nat
    BY <1>1 DEF StatusCall, IInv, TypeInv, TypeOK, Account, NoAccount
  <2> QED BY <1>1, <2>1, VersionsMove DEF Aged
<1>2. ASSUME call \in CaptureCall \cup ReleaseCall
      PROVE  /\ call.snap.version <= reservations'[call.rid].version
             /\ call.snap.version = reservations'[call.rid].version
                  => call.snap = reservations'[call.rid]
  <2>1. call.rid \in Rids /\ call.snap.version \in Nat /\ reservations[call.rid].version \in Nat
    BY <1>2 DEF CaptureCall, ReleaseCall, Reservation, IInv, TypeInv, TypeOK
  <2> QED BY <1>2, <2>1, VersionsMove DEF Aged
<1> QED BY <1>1, <1>2 DEF Aged

\* A call is of age when it begins, and checking it changes nothing.
LEMMA NewCallAged ==
  ASSUME Lookahead = 0, IInv, [Next]_vars, NEW c \in Callers, calls'[c] # calls[c]
  PROVE  Aged(calls'[c])
<1> USE BillingAssumption
<1>1. calls[c] \in Call /\ calls \in [Callers -> Call]
  BY DEF IInv, TypeInv, TypeOK
<1>2. Aged(Idle)
  BY DEF Aged, Idle, StatusCall, CaptureCall, ReleaseCall
<1>3. \A v \in Nat : \A n \in Expectable(v) : n \in Nat /\ n <= v
  BY DEF Expectable
<1>4. ASSUME NEW d \in Callers, NEW t \in Tenants, NEW status \in AccountStatuses,
             NEW version \in Expectable(account[t].version), StatusRead(d, t, status, version)
      PROVE Aged(calls'[c])
  <2>1. d = c
    BY <1>1, <1>4 DEF StatusRead
  <2>2. /\ calls'[c].op = "status" /\ calls'[c].snap = account[t]
        /\ calls'[c].version = version /\ calls'[c].t = t
    BY <1>1, <1>4, <2>1 DEF StatusRead
  <2>3. account[t].status # "closed" /\ version <= account[t].version
    BY <1>3, <1>4 DEF StatusRead, IInv, TypeInv, TypeOK, Account, NoAccount
  <2>4. account[t].version \in Nat
    BY DEF IInv, TypeInv, TypeOK, Account, NoAccount
  <2> QED BY <2>2, <2>3, <2>4 DEF Aged, CaptureCall, ReleaseCall
<1>5. ASSUME NEW d \in Callers, NEW r \in Rids, NEW key \in Keys, NEW usageId \in Usages,
             NEW charge \in Amounts, NEW override \in Overrides,
             NEW version \in Expectable(reservations[r].version),
             NEW balance \in Expectable(ledger[r[1]].version),
             CaptureRead(d, r, key, usageId, charge, override, version, balance)
      PROVE Aged(calls'[c])
  <2>1. d = c
    BY <1>1, <1>5 DEF CaptureRead
  <2>2. /\ calls'[c].op = "capture" /\ calls'[c].snap = reservations[r]
        /\ calls'[c].version = version /\ calls'[c].rid = r
    BY <1>1, <1>5, <2>1 DEF CaptureRead
  <2>3. reservations[r].version \in Nat /\ version <= reservations[r].version
    BY <1>3 DEF IInv, TypeInv, TypeOK, Reservation
  <2> QED BY <2>2, <2>3 DEF Aged, StatusCall
<1>6. ASSUME NEW d \in Callers, NEW r \in Rids, NEW key \in Keys,
             NEW version \in Expectable(reservations[r].version),
             NEW balance \in Expectable(ledger[r[1]].version),
             ReleaseRead(d, r, key, version, balance)
      PROVE Aged(calls'[c])
  <2>1. d = c
    BY <1>1, <1>6 DEF ReleaseRead
  <2>2. /\ calls'[c].op = "release" /\ calls'[c].snap = reservations[r]
        /\ calls'[c].version = version /\ calls'[c].rid = r
    BY <1>1, <1>6, <2>1 DEF ReleaseRead
  <2>3. reservations[r].version \in Nat /\ version <= reservations[r].version
    BY <1>3 DEF IInv, TypeInv, TypeOK, Reservation
  <2> QED BY <2>2, <2>3 DEF Aged, StatusCall
<1>7. ASSUME NEW d \in Callers, CaptureCheck(d) \/ ReleaseCheck(d) PROVE Aged(calls'[c])
  <2>1. d = c /\ calls'[c] = [calls[c] EXCEPT !.stage = "checked"]
    BY <1>1, <1>7 DEF CaptureCheck, ReleaseCheck
  <2>2. calls[c] \in CaptureCall \cup ReleaseCall
    BY <1>7, <2>1 DEF CaptureCheck, ReleaseCheck
  <2>3. /\ calls'[c].op = calls[c].op /\ calls'[c].snap = calls[c].snap
        /\ calls'[c].version = calls[c].version /\ calls'[c].rid = calls[c].rid
    BY <2>1, <2>2 DEF CaptureCall, ReleaseCall
  <2>4. calls'[c] \notin StatusCall
    BY <2>2, <2>3 DEF CaptureCall, ReleaseCall, StatusCall
  <2>5. Aged(calls[c])
    BY DEF IInv, AllAged
  <2> QED BY <2>2, <2>3, <2>4, <2>5 DEF Aged
<1>8. ASSUME NEW d \in Callers, NEW t \in Tenants, NEW key \in Keys, NEW op \in {"grant", "adjust"},
             NEW amount \in Amounts, NEW delta \in {amount, -amount},
             NEW balance \in Expectable(ledger[t].version), CreditCheck(d, op, t, key, delta, balance)
      PROVE Aged(calls'[c])
  <2>1. calls'[c].op \in {"grant", "adjust"}
    BY <1>1, <1>8 DEF CreditCheck
  <2> QED BY <2>1 DEF Aged, StatusCall, CaptureCall, ReleaseCall
<1>9. ASSUME NEW d \in Callers, NEW r \in Rids, NEW key \in Keys, NEW amount \in Amounts,
             NEW expires \in Expiries, NEW balance \in Expectable(ledger[r[1]].version),
             ReserveCheck(d, r, key, amount, expires, balance)
      PROVE Aged(calls'[c])
  <2>1. calls'[c].op = "reserve"
    BY <1>1, <1>9 DEF ReserveCheck
  <2> QED BY <2>1 DEF Aged, StatusCall, CaptureCall, ReleaseCall
<1>10. ASSUME NEW d \in Callers, calls' = [calls EXCEPT ![d] = Idle] PROVE Aged(calls'[c])
  BY <1>1, <1>2, <1>10
<1>11. ASSUME NEW d \in Callers, AccountNext(d) PROVE Aged(calls'[c])
  BY <1>4, <1>8, <1>10, <1>11 DEF AccountNext, StatusCommit, CreditCommit
<1>12. ASSUME NEW d \in Callers, ReservationNext(d) PROVE Aged(calls'[c])
  BY <1>5, <1>6, <1>7, <1>9, <1>10, <1>12
  DEF ReservationNext, ReserveCommit, CaptureCommit, ReleaseCommit, Abandon
<1>13. GatewayNext \/ Tick \/ UNCHANGED vars => UNCHANGED calls
  BY DEF GatewayNext, GatewayReserve, GatewayCapture, GatewayRelease, Tick, vars
<1>14. \A t \in Tenants, key \in Keys : CreateAccount(t, key) => UNCHANGED calls
  BY DEF CreateAccount
<1> QED BY <1>11, <1>12, <1>13, <1>14 DEF Next

\* The inductive invariant holds initially.
LEMMA InitInv == Init => IInv
<1> SUFFICES ASSUME Init PROVE IInv
  OBVIOUS
<1>1. AllAged
  BY DEF Init, AllAged, Aged, Idle, StatusCall, CaptureCall, ReleaseCall
<1>2. Books
  BY DEF Init, Books, LedgerMatchesReservations, NothingStranded, NoReservation, Remaining, Open
<1> QED BY <1>1, <1>2, InitType DEF IInv

\* Every shape keeps ledger and reservations in agreement.
LEMMA BooksKept == IInv /\ [Next]_vars => Books'
<1> SUFFICES ASSUME IInv, [Next]_vars PROVE Books'
  OBVIOUS
<1> USE BillingAssumption
<1>1. CASE Quiet \/ \E t \in Tenants, delta \in Int : Credited(t, delta)
  BY <1>1 DEF Quiet, Credited, IInv, Books, LedgerMatchesReservations, NothingStranded, Remaining
<1>2. ASSUME NEW r \in Rids, NEW amount \in Amounts, NEW expires \in Nat, Holds(r, amount, expires)
      PROVE Books'
  <2> DEFINE new == NewReservation(amount, expires)
  <2>1. new.status \in Open /\ new.released = 0 /\ Remaining(new) = amount /\ new.captured = 0
        /\ amount \in Nat /\ amount > 0
    BY DEF NewReservation, Remaining, Open
  <2>2. posted[r].held = 0 /\ posted[r].charged = 0
    BY <1>2 DEF Holds, NoReservation, Remaining, IInv, Books, LedgerMatchesReservations
  <2>3. LedgerMatchesReservations'
    BY <1>2, <2>1, <2>2 DEF Holds, Post, IInv, Books, LedgerMatchesReservations, TypeInv, TypeOK, Remaining
  <2>4. NothingStranded'
    BY <1>2, <2>1 DEF Holds, IInv, Books, NothingStranded, TypeInv, TypeOK, Remaining
  <2> QED BY <2>3, <2>4 DEF Books
<1>3. ASSUME NEW r \in Rids, NEW spend \in Nat, NEW back \in Nat, NEW new \in Reservation,
             Draws(r, spend, back, new)
      PROVE Books'
  <2> DEFINE res == reservations[r]
  <2>1. res \in Reservation /\ res.released = 0
        /\ posted[r].held = Remaining(res) /\ posted[r].charged = res.captured
    BY <1>3 DEF Draws, IInv, TypeInv, TypeOK, Books, NothingStranded, LedgerMatchesReservations
  <2>2. Remaining(new) = Remaining(res) - (spend + back) /\ new.captured = res.captured + spend
    BY <1>3, <2>1 DEF Draws, Drawn, Remaining, Reservation
  <2>3. LedgerMatchesReservations'
    BY <1>3, <2>1, <2>2 DEF Draws, Post, IInv, Books, LedgerMatchesReservations, TypeInv, TypeOK,
       Remaining, Reservation
  <2>4. IF new.status \in Open THEN new.released = 0 /\ Remaining(new) > 0 ELSE Remaining(new) = 0
    <3>1. Remaining(res) \in Int /\ Remaining(new) \in Int /\ new.status \in Open \cup Settled
          /\ new.released = res.released + back /\ spend + back <= Remaining(res)
          /\ (new.status \in Settled <=> spend + back = Remaining(res))
          /\ (new.status \in Open => back = 0)
      BY <1>3, <2>1 DEF Draws, Drawn, Remaining, Reservation
    <3>2. new.status \in Open <=> new.status \notin Settled
      BY <3>1 DEF Open, Settled
    <3> QED BY <2>1, <2>2, <3>1, <3>2
  <2>5. NothingStranded'
    BY <1>3, <2>4 DEF Draws, IInv, Books, NothingStranded, TypeInv, TypeOK, Remaining
  <2> QED BY <2>3, <2>5 DEF Books
<1> QED BY <1>1, <1>2, <1>3, StepShape DEF Shape, Reserving

\* Every step keeps the inductive invariant.
LEMMA NextInv ==
  ASSUME Lookahead = 0
  PROVE  IInv /\ [Next]_vars => IInv'
<1> SUFFICES ASSUME IInv, [Next]_vars PROVE IInv'
  OBVIOUS
<1>1. TypeInv'
  BY NextType DEF IInv
<1>2. AllAged'
  <2> SUFFICES ASSUME NEW c \in Callers PROVE Aged(calls[c])'
    BY DEF AllAged
  <2>1. calls'[c] \in Call
    BY <1>1 DEF TypeInv, TypeOK
  <2>2. Aged(calls'[c])
    <3>1. CASE calls'[c] = calls[c]
      BY <3>1 DEF IInv, AllAged
    <3>2. CASE calls'[c] # calls[c]
      BY <3>2, NewCallAged
    <3> QED BY <3>1, <3>2
  <2> DEFINE call == calls'[c]
  <2>3. ASSUME NEW k, k = calls'[c] PROVE Aged(k)'
    BY <2>1, <2>2, <2>3, AgeKept
  <2> QED BY <2>3 DEF Aged
<1>3. Books'
  BY BooksKept
<1> QED BY <1>1, <1>2, <1>3 DEF IInv

\* The inductive invariant holds in every reachable state.
LEMMA Invariance ==
  ASSUME Lookahead = 0
  PROVE  Spec => []IInv
<1>1. Init => IInv
  BY InitInv
<1>2. IInv /\ [Next]_vars => IInv'
  BY NextInv
<1> QED BY <1>1, <1>2, PTL DEF Spec

\* Whatever captures and releases race for a reservation, its ledger entries
\* add up to what the reservation says: nothing is charged twice, and no
\* credit is lost between the two.
THEOREM LedgerAgrees ==
  ASSUME Lookahead = 0
  PROVE  Spec => []LedgerMatchesReservations
<1>1. IInv => LedgerMatchesReservations
  BY DEF IInv, Books
<1> QED BY <1>1, Invariance, PTL

\* No credit stays behind a reservation that nothing can settle any more.
THEOREM NoCreditStranded ==
  ASSUME Lookahead = 0
  PROVE  Spec => []NothingStranded
<1>1. IInv => NothingStranded
  BY DEF IInv, Books
<1> QED BY <1>1, Invariance, PTL

\* The charges of the ledger and the released credit of a reservation never
\* exceed what was reserved.
THEOREM ReservationBound ==
  ASSUME Lookahead = 0
  PROVE  Spec => []NeverExceedsReservation
<1>1. IInv => NeverExceedsReservation
  <2> SUFFICES ASSUME IInv, NEW r \in Rids
      PROVE posted[r].charged + reservations[r].released <= reservations[r].estimated
    BY DEF NeverExceedsReservation
  <2>1. reservations[r] \in Reservation /\ posted[r].charged = reservations[r].captured
    BY DEF IInv, TypeInv, TypeOK, Books, LedgerMatchesReservations
  <2>2. Remaining(reservations[r]) >= 0
    BY <2>1 DEF IInv, Books, NothingStranded, Reservation, Remaining
  <2> QED BY <2>1, <2>2 DEF Reservation, Remaining
<1> QED BY <1>1, Invariance, PTL

\* Every write of a reservation or an account was computed from the version
\* it replaces, although both are read outside the transaction.
THEOREM StaleWritesRefused ==
  ASSUME Lookahead = 0
  PROVE  Spec => NoStaleWrite
<1> DEFINE Moves ==
      /\ \A r \in Rids : reservations'[r] # reservations[r]
                           => reservations'[r].version = reservations[r].version + 1
      /\ \A t \in Tenants : account'[t] # account[t]
                           => account'[t].version = account[t].version + 1
<1>1. IInv /\ [Next]_vars => [Moves]_vars
  BY VersionsMove
<1> QED BY <1>1, Invariance, PTL DEF Spec, NoStaleWrite

\* A closed account never opens again and a settled reservation never changes.
THEOREM SettlementIsFinal ==
  ASSUME Lookahead = 0
  PROVE  Spec => SettledForGood
<1> DEFINE Stays ==
      /\ \A t \in Tenants : account[t].status = "closed" => account'[t] = account[t]
      /\ \A r \in Rids : reservations[r].status \in Settled
                           => reservations'[r] = reservations[r]
<1>1. IInv /\ [Next]_vars => [Stays]_vars
  <2> SUFFICES ASSUME IInv, [Next]_vars PROVE Stays
    OBVIOUS
  <2>1. \A t \in Tenants : account[t].status = "closed" => account'[t] = account[t]
    BY VersionsMove
  <2>2. ASSUME NEW r \in Rids, reservations[r].status \in Settled
        PROVE reservations'[r] = reservations[r]
    <3>1. reservations[r] # NoReservation /\ reservations[r].status \notin Open
      BY <2>2 DEF NoReservation, Open, Settled
    <3>2. CASE Quiet \/ \E t \in Tenants, delta \in Int : Credited(t, delta)
      BY <3>2 DEF Quiet, Credited
    <3>3. ASSUME NEW q \in Rids, NEW amount \in Amounts, NEW expires \in Nat, Holds(q, amount, expires)
          PROVE reservations'[r] = reservations[r]
      BY <3>1, <3>3 DEF Holds, IInv, TypeInv, TypeOK
    <3>4. ASSUME NEW q \in Rids, NEW spend \in Nat, NEW back \in Nat, NEW new \in Reservation,
                 Draws(q, spend, back, new)
          PROVE reservations'[r] = reservations[r]
      BY <3>1, <3>4 DEF Draws, IInv, TypeInv, TypeOK
    <3> QED BY <3>2, <3>3, <3>4, StepShape DEF Shape, Reserving
  <2> QED BY <2>1, <2>2
<1> QED BY <1>1, Invariance, PTL DEF Spec, SettledForGood

-----------------------------------------------------------------------------
\* The refinement: every step sets credit aside, spends or returns some, or
\* leaves the promise of CreditHolds unchanged.

\* Initially no credit is set aside.
LEMMA InitRefines == Init => Credits!Init
<1> SUFFICES ASSUME Init PROVE Credits!Init
  OBVIOUS
<1>1. availableBar \in [Tenants -> Nat]
  BY DEF Init, availableBar
<1>2. holdBar = [r \in Rids |-> [phase |-> "none", set |-> 0, spent |-> 0]]
  BY DEF Init, holdBar, PhaseOf, NoReservation, Remaining, Open, Settled
<1> QED BY <1>1, <1>2 DEF Credits!Init, Credits!Rids, Rids

\* Every step is a step of CreditHolds or leaves it unchanged.
LEMMA StepRefines == IInv /\ [Next]_vars => [Credits!Next]_(Credits!vars)
<1> SUFFICES ASSUME IInv, [Next]_vars PROVE Credits!Next \/ UNCHANGED Credits!vars
  OBVIOUS
<1> USE BillingAssumption
<1>0. /\ \A t \in Tenants : availableBar[t] = ledger[t].available
      /\ \A t \in Tenants : availableBar'[t] = ledger'[t].available
      /\ \A r \in Rids : /\ holdBar[r].phase = PhaseOf(reservations[r].status)
                        /\ holdBar[r].set = Remaining(reservations[r])
                        /\ holdBar[r].spent = reservations[r].captured
      /\ \A r \in Rids : holdBar'[r].spent = reservations'[r].captured
  BY DEF availableBar, holdBar, PhaseOf, Remaining
<1>t. ledger \in [Tenants -> [available : Nat, reserved : Nat, version : Nat]]
      /\ reservations \in [Rids -> Reservation]
  BY DEF IInv, TypeInv, TypeOK
<1>1. CASE Quiet
  BY <1>1 DEF Quiet, Credits!vars, availableBar, holdBar
\* What Append does to the available credit.
<1>a. ASSUME NEW t \in Tenants, NEW n \in Nat, NEW delta \in Int, NEW held \in Int,
             Append(t, n, delta, held)
      PROVE  /\ availableBar[t] + delta >= 0
             /\ availableBar'[t] = availableBar[t] + delta
             /\ availableBar' = [availableBar EXCEPT ![t] = @ + delta]
  BY <1>a, <1>t DEF Append, availableBar
<1>2. ASSUME NEW t \in Tenants, NEW delta \in Int, Credited(t, delta) PROVE Credits!Next
  <2>1. UNCHANGED holdBar
    BY <1>2 DEF Credited, holdBar
  <2>2. availableBar[t] \in Int
    BY <1>0, <1>t
  <2>3. availableBar'[t] - availableBar[t] = delta
    BY <1>2, <1>a, <2>2 DEF Credited
  <2>4. Credits!Credit(t, delta)
    BY <1>2, <1>a, <2>1 DEF Credited, Credits!Credit
  <2> QED BY <2>3, <2>4 DEF Credits!Next
<1>3. ASSUME NEW r \in Rids, NEW amount \in Amounts, NEW expires \in Nat, Holds(r, amount, expires)
      PROVE Credits!Next
  <2>1. r[1] \in Tenants /\ amount \in Nat /\ amount > 0 /\ r \in Credits!Rids
    BY DEF Rids, Credits!Rids
  <2>2. availableBar[r[1]] \in Int /\ -amount \in Int
    BY <1>0, <1>t, <2>1
  <2>3. /\ availableBar[r[1]] >= amount
        /\ availableBar[r[1]] - availableBar'[r[1]] = amount
        /\ availableBar' = [availableBar EXCEPT ![r[1]] = @ - amount]
    <3>1. Append(r[1], 1, -amount, amount)
      BY <1>3 DEF Holds
    <3>2. /\ availableBar[r[1]] + -amount >= 0
          /\ availableBar'[r[1]] = availableBar[r[1]] + -amount
          /\ availableBar' = [availableBar EXCEPT ![r[1]] = @ + -amount]
      BY <1>a, <2>1, <2>2, <3>1
    <3>3. availableBar[r[1]] + -amount = availableBar[r[1]] - amount
      BY <2>1, <2>2
    <3>4. availableBar[r[1]] >= amount /\ availableBar[r[1]] - availableBar'[r[1]] = amount
      BY <2>1, <2>2, <3>2
    <3>5. availableBar' = [availableBar EXCEPT ![r[1]] = @ - amount]
      BY <3>2, <3>3, Zenon
    <3> QED BY <3>4, <3>5
  <2>4. holdBar[r].phase = "none"
    <3>1. reservations[r].status = "none"
      BY <1>3 DEF Holds, NoReservation
    <3> QED BY <1>0, <3>1 DEF PhaseOf, Open, Settled
  <2>5. holdBar' = [holdBar EXCEPT ![r] = [phase |-> "open", set |-> amount, spent |-> 0]]
    <3> DEFINE new == NewReservation(amount, expires)
    <3>1. /\ PhaseOf(new.status) = "open" /\ new.captured = 0
          /\ Remaining(new) = amount
      BY <2>1 DEF NewReservation, PhaseOf, Remaining, Open
    <3>2. reservations' = [reservations EXCEPT ![r] = new]
      BY <1>3 DEF Holds
    <3> HIDE DEF new
    <3>3. holdBar' = [holdBar EXCEPT ![r] =
             [phase |-> PhaseOf(new.status), set |-> Remaining(new), spent |-> new.captured]]
      BY <1>t, <3>2 DEF holdBar, PhaseOf, Remaining
    <3> QED BY <3>1, <3>3
  <2>6. Credits!Hold(r, amount)
    BY <2>1, <2>3, <2>4, <2>5 DEF Credits!Hold
  <2> QED BY <2>1, <2>3, <2>6 DEF Credits!Next
<1>4. ASSUME NEW r \in Rids, NEW spend \in Nat, NEW back \in Nat, NEW new \in Reservation,
             Draws(r, spend, back, new)
      PROVE Credits!Next
  <2> DEFINE res == reservations[r]
  <2>1. r[1] \in Tenants /\ r \in Credits!Rids /\ res \in Reservation
    BY <1>t DEF Rids, Credits!Rids
  <2>2. PICK n \in Nat : Append(r[1], n, back, -(spend + back))
    BY <1>4 DEF Draws
  <2>3. /\ availableBar[r[1]] \in Int
        /\ availableBar'[r[1]] - availableBar[r[1]] = back
        /\ availableBar' = [availableBar EXCEPT ![r[1]] = @ + back]
    <3>1. availableBar[r[1]] \in Int /\ -(spend + back) \in Int
      BY <1>0, <1>t, <2>1
    <3> QED BY <1>a, <2>1, <2>2, <3>1
  <2>4. /\ holdBar[r].phase = "open" /\ holdBar[r].set = Remaining(res)
        /\ holdBar[r].spent = res.captured
    BY <1>0, <1>4 DEF Draws, PhaseOf
  <2>5. /\ Remaining(new) = Remaining(res) - spend - back
        /\ new.captured = res.captured + spend /\ res.captured \in Nat /\ Remaining(res) \in Int
        /\ PhaseOf(new.status) = IF spend + back = Remaining(res) THEN "settled" ELSE "open"
    <3>1. /\ new.captured = res.captured + spend /\ new.released = res.released + back
          /\ new.estimated = res.estimated /\ new.status \in Open \cup Settled
          /\ new.status \in Settled <=> spend + back = Remaining(res)
      BY <1>4 DEF Draws, Drawn
    <3>2. PhaseOf(new.status) = IF spend + back = Remaining(res) THEN "settled" ELSE "open"
      BY <3>1 DEF PhaseOf, Open, Settled
    <3> QED BY <2>1, <3>1, <3>2 DEF Remaining, Reservation
  <2>6. holdBar' = [holdBar EXCEPT ![r] =
           [phase |-> PhaseOf(new.status), set |-> Remaining(new), spent |-> new.captured]]
    BY <1>4, <1>t DEF Draws, holdBar, PhaseOf, Remaining
  <2>7. holdBar' = [holdBar EXCEPT ![r] =
           [phase |-> IF spend + back = @.set THEN "settled" ELSE "open",
            set   |-> @.set - spend - back,
            spent |-> @.spent + spend]]
    BY <2>4, <2>5, <2>6
  <2>8. holdBar'[r].spent - holdBar[r].spent = spend
    BY <1>0, <1>4, <1>t, <2>4, <2>5 DEF Draws
  <2>9. Credits!Draw(r, spend, back)
    BY <1>4, <2>3, <2>4, <2>7 DEF Draws, Credits!Draw
  <2> QED BY <2>1, <2>3, <2>8, <2>9 DEF Credits!Next
<1> QED BY <1>1, <1>2, <1>3, <1>4, StepShape DEF Shape, Reserving

\* The billing service keeps the promise of CreditHolds for every number of
\* tenants, requests and callers: a reservation is set aside once, is spent
\* and returned within its amount, and is settled for good.
THEOREM Refinement ==
  ASSUME Lookahead = 0
  PROVE  Spec => ImplementsCreditHolds
<1>1. Init => Credits!Init
  BY InitRefines
<1>2. IInv /\ [Next]_vars => [Credits!Next]_(Credits!vars)
  BY StepRefines
<1> QED BY <1>1, <1>2, Invariance, PTL DEF Spec, ImplementsCreditHolds, Credits!Spec

-----------------------------------------------------------------------------
\* Sums. A total is the number of units that a function counts out, so that it
\* moves with the one value that a step changes, whatever the others are.

LEMMA UnitsOfOne ==
  ASSUME NEW f, NEW x, f[x] \in Nat
  PROVE  IsFiniteSet({x} \X (1 .. f[x])) /\ Cardinality({x} \X (1 .. f[x])) = f[x]
<1> DEFINE one == {x}  units == 1 .. f[x]
<1>1. IsFiniteSet(one) /\ Cardinality(one) = 1
  BY FS_Singleton
<1>2. IsFiniteSet(units) /\ Cardinality(units) = f[x]
  BY FS_Interval
<1> HIDE DEF one, units
<1>3. IsFiniteSet(one \X units) /\ Cardinality(one \X units) = Cardinality(one) * Cardinality(units)
  BY <1>1, <1>2, FS_Product
<1>4. Cardinality(one \X units) = f[x]
  BY <1>1, <1>2, <1>3
<1> QED BY <1>3, <1>4 DEF one, units

LEMMA UnitsAgree ==
  ASSUME NEW f, NEW g, NEW S, \A x \in S : f[x] = g[x]
  PROVE  Units(f, S) = Units(g, S)
BY DEF Units

\* Counting one more.
LEMMA Counting ==
  ASSUME NEW f, NEW S, NEW x, x \notin S, f[x] \in Nat, IsFiniteSet(Units(f, S))
  PROVE  /\ IsFiniteSet(Units(f, S \cup {x})) /\ Total(f, S) \in Nat
         /\ Total(f, S \cup {x}) = Total(f, S) + f[x]
<1> DEFINE one == {x} \X (1 .. f[x])
<1>1. Units(f, S \cup {x}) = Units(f, S) \cup one
  BY DEF Units
<1>2. Cardinality(Units(f, S) \cap one) = 0
  <2>1. Units(f, S) \cap one = {}
    BY DEF Units
  <2> QED BY <2>1, FS_EmptySet, Zenon
<1>3. IsFiniteSet(one) /\ Cardinality(one) = f[x]
  BY UnitsOfOne
<1>4. Cardinality(Units(f, S)) \in Nat
  BY FS_CardinalityType
<1> HIDE DEF one
<1>5. /\ IsFiniteSet(Units(f, S) \cup one)
      /\ Cardinality(Units(f, S) \cup one)
           = Cardinality(Units(f, S)) + Cardinality(one) - Cardinality(Units(f, S) \cap one)
  BY <1>3, FS_Union
<1>6. Cardinality(Units(f, S) \cup one) = Cardinality(Units(f, S)) + f[x]
  BY <1>2, <1>3, <1>4, <1>5
<1> QED BY <1>1, <1>4, <1>5, <1>6 DEF Total

\* Counting again, after one value changed.
LEMMA Recounting ==
  ASSUME NEW f, NEW g, NEW S, NEW x \in S, f[x] \in Nat, g[x] \in Nat,
         \A y \in S \ {x} : g[y] = f[y], IsFiniteSet(Units(f, S))
  PROVE  /\ IsFiniteSet(Units(g, S)) /\ Total(f, S) \in Nat
         /\ Total(g, S) = Total(f, S) - f[x] + g[x]
<1> DEFINE rest == S \ {x}
<1>1. Units(f, rest) = Units(g, rest)
  BY UnitsAgree
<1>2. Units(f, rest) \subseteq Units(f, S)
  BY DEF Units
<1>3. IsFiniteSet(Units(f, rest))
  BY <1>2, FS_Subset
<1>4. x \notin rest /\ S = rest \cup {x}
  OBVIOUS
<1> HIDE DEF rest
<1>5. /\ Total(f, rest) \in Nat /\ Total(f, S) = Total(f, rest) + f[x]
      /\ IsFiniteSet(Units(f, S))
  BY <1>3, <1>4, Counting
<1>6. Total(g, S) = Total(g, rest) + g[x] /\ IsFiniteSet(Units(g, S))
  BY <1>1, <1>3, <1>4, Counting
<1>7. Total(f, rest) = Total(g, rest)
  BY <1>1 DEF Total
<1> QED BY <1>5, <1>6, <1>7

-----------------------------------------------------------------------------
\* The books, tenant by tenant.

\* What the sums are finite over, as a part of the invariant.
Accounted ==
    /\ ReservedIsHeld /\ UsageIsCaptured
    /\ \A t \in Tenants : /\ IsFiniteSet(Units(heldOf, RidsOf(t)))
                          /\ IsFiniteSet(Units(spentOf, RidsOf(t)))
    /\ \A r \in Rids : IsFiniteSet(Units(chargeOf, UsageOf(r)))

\* The sums after a step.
LEMMA SumsPrimed ==
  /\ \A t : Total(heldOf, RidsOf(t))' = Total(heldOf', RidsOf(t))
  /\ \A t : Total(spentOf, RidsOf(t))' = Total(spentOf', RidsOf(t))
  /\ \A t : Units(heldOf, RidsOf(t))' = Units(heldOf', RidsOf(t))
  /\ \A t : Units(spentOf, RidsOf(t))' = Units(spentOf', RidsOf(t))
  /\ \A r : Total(chargeOf, UsageOf(r))' = Total(chargeOf', UsageOf(r)')
  /\ \A r : Units(chargeOf, UsageOf(r))' = Units(chargeOf', UsageOf(r)')
BY DEF Total, Units, RidsOf, Rids

\* The terms of the sums, before and after a step.
LEMMA SumTerms ==
  /\ \A t : RidsOf(t) \subseteq Rids
  /\ \A r \in Rids : /\ heldOf[r] = Remaining(reservations[r])
                     /\ heldOf'[r] = Remaining(reservations'[r])
                     /\ spentOf[r] = reservations[r].captured
                     /\ spentOf'[r] = reservations'[r].captured
  /\ \A u \in usage : chargeOf[u] = u.charge
  /\ \A u \in usage' : chargeOf'[u] = u.charge
BY DEF RidsOf, heldOf, spentOf, chargeOf, Remaining

\* One reservation changes: the sums of its tenant move with it, and no others.
LEMMA OneMoves ==
  ASSUME IInv, Accounted, NEW r \in Rids, NEW t \in Tenants,
         \A q \in Rids \ {r} : reservations'[q] = reservations[q],
         reservations'[r] \in Reservation, Remaining(reservations'[r]) \in Nat
  PROVE  /\ IsFiniteSet(Units(heldOf', RidsOf(t))) /\ IsFiniteSet(Units(spentOf', RidsOf(t)))
         /\ Total(heldOf, RidsOf(t)) \in Nat /\ Total(spentOf, RidsOf(t)) \in Nat
         /\ Total(heldOf', RidsOf(t)) =
              IF t = r[1] THEN Total(heldOf, RidsOf(t)) - Remaining(reservations[r])
                                 + Remaining(reservations'[r])
                          ELSE Total(heldOf, RidsOf(t))
         /\ Total(spentOf', RidsOf(t)) =
              IF t = r[1] THEN Total(spentOf, RidsOf(t)) - reservations[r].captured
                                 + reservations'[r].captured
                          ELSE Total(spentOf, RidsOf(t))
<1>1. /\ heldOf[r] \in Nat /\ heldOf'[r] \in Nat /\ spentOf[r] \in Nat /\ spentOf'[r] \in Nat
      /\ \A q \in Rids \ {r} : heldOf'[q] = heldOf[q] /\ spentOf'[q] = spentOf[q]
  <2>1. reservations[r] \in Reservation
    BY DEF IInv, TypeInv, TypeOK
  <2>2. Remaining(reservations[r]) \in Nat
    BY <2>1 DEF IInv, Books, NothingStranded, Remaining, Reservation
  <2> QED BY <2>1, <2>2, SumTerms DEF Reservation
<1>2. IsFiniteSet(Units(heldOf, RidsOf(t))) /\ IsFiniteSet(Units(spentOf, RidsOf(t)))
  BY DEF Accounted
<1>3. Total(heldOf, RidsOf(t)) \in Nat /\ Total(spentOf, RidsOf(t)) \in Nat
  BY <1>2, FS_CardinalityType DEF Total
<1>4. CASE t = r[1]
  <2>1. r \in RidsOf(t) /\ RidsOf(t) \subseteq Rids
    BY <1>4 DEF RidsOf
  <2>2. ASSUME NEW f, NEW g, f[r] \in Nat, g[r] \in Nat, IsFiniteSet(Units(f, RidsOf(t))),
               \A q \in Rids \ {r} : g[q] = f[q]
        PROVE  /\ IsFiniteSet(Units(g, RidsOf(t)))
               /\ Total(g, RidsOf(t)) = Total(f, RidsOf(t)) - f[r] + g[r]
    <3> DEFINE mine == RidsOf(t)
    <3>1. r \in mine /\ \A q \in mine \ {r} : g[q] = f[q]
      BY <2>1, <2>2
    <3>2. IsFiniteSet(Units(f, mine))
      BY <2>2
    <3> HIDE DEF mine
    <3>3. IsFiniteSet(Units(g, mine)) /\ Total(g, mine) = Total(f, mine) - f[r] + g[r]
      BY <2>2, <3>1, <3>2, Recounting
    <3> QED BY <3>3 DEF mine
  <2>3. /\ IsFiniteSet(Units(heldOf', RidsOf(t)))
        /\ Total(heldOf', RidsOf(t)) = Total(heldOf, RidsOf(t)) - heldOf[r] + heldOf'[r]
    BY <1>1, <1>2, <2>2
  <2>4. /\ IsFiniteSet(Units(spentOf', RidsOf(t)))
        /\ Total(spentOf', RidsOf(t)) = Total(spentOf, RidsOf(t)) - spentOf[r] + spentOf'[r]
    BY <1>1, <1>2, <2>2
  <2> QED BY <1>3, <1>4, <2>3, <2>4, SumTerms
<1>5. CASE t # r[1]
  <2>1. RidsOf(t) \subseteq Rids \ {r}
    BY <1>5 DEF RidsOf
  <2>2. Units(heldOf', RidsOf(t)) = Units(heldOf, RidsOf(t))
        /\ Units(spentOf', RidsOf(t)) = Units(spentOf, RidsOf(t))
    BY <1>1, <2>1, UnitsAgree
  <2> QED BY <1>2, <1>3, <1>5, <2>2 DEF Total
<1> QED BY <1>4, <1>5

\* Usage that is recorded, or not, is what is captured.
LEMMA UsageMoves ==
  ASSUME IInv, Accounted, NEW r \in Rids, NEW spend \in Nat,
         IF spend = 0 THEN UNCHANGED usage ELSE \E id \in Usages : RecordUsage(id, r, spend),
         reservations'[r].captured = reservations[r].captured + spend,
         \A q \in Rids \ {r} : reservations'[q] = reservations[q]
  PROVE  UsageIsCaptured' /\ \A q \in Rids : IsFiniteSet(Units(chargeOf, UsageOf(q)))'
<1> SUFFICES ASSUME NEW q \in Rids
             PROVE  /\ Total(chargeOf', UsageOf(q)') = reservations'[q].captured
                    /\ IsFiniteSet(Units(chargeOf', UsageOf(q)'))
  BY SumsPrimed DEF UsageIsCaptured
<1>1. /\ IsFiniteSet(Units(chargeOf, UsageOf(q)))
      /\ Total(chargeOf, UsageOf(q)) = reservations[q].captured
      /\ reservations[q].captured \in Nat
  BY DEF Accounted, UsageIsCaptured, IInv, TypeInv, TypeOK, Reservation
<1>2. ASSUME usage \subseteq usage'
      PROVE  Units(chargeOf', UsageOf(q)) = Units(chargeOf, UsageOf(q))
  BY <1>2, SumTerms, UnitsAgree DEF UsageOf
<1>3. ASSUME usage \subseteq usage', UsageOf(q)' = UsageOf(q),
             reservations'[q].captured = reservations[q].captured
      PROVE  /\ Total(chargeOf', UsageOf(q)') = reservations'[q].captured
             /\ IsFiniteSet(Units(chargeOf', UsageOf(q)'))
  BY <1>1, <1>2, <1>3 DEF Total
<1>4. CASE spend = 0
  <2>1. usage' = usage /\ UsageOf(q)' = UsageOf(q)
    BY <1>4 DEF UsageOf
  <2>2. reservations'[q].captured = reservations[q].captured
    BY <1>1, <1>4
  <2> QED BY <1>3, <2>1, <2>2
<1>5. CASE spend # 0
  <2>1. PICK id \in Usages : RecordUsage(id, r, spend)
    BY <1>5
  <2> DEFINE new == [id |-> id, rid |-> r, charge |-> spend]
  <2>2. usage' = usage \cup {new} /\ new \notin usage /\ new.rid = r /\ new.charge = spend
    BY <2>1 DEF RecordUsage
  <2> HIDE DEF new
  <2>3. CASE q = r
    <3>1. UsageOf(q)' = UsageOf(q) \cup {new} /\ new \notin UsageOf(q)
      BY <2>2, <2>3 DEF UsageOf
    <3>2. chargeOf'[new] = spend
      BY <2>2, SumTerms
    <3>3. Units(chargeOf', UsageOf(q)) = Units(chargeOf, UsageOf(q))
      BY <1>2, <2>2
    <3>4. /\ IsFiniteSet(Units(chargeOf', UsageOf(q) \cup {new}))
          /\ Total(chargeOf', UsageOf(q) \cup {new}) = Total(chargeOf', UsageOf(q)) + spend
      BY <1>1, <3>1, <3>2, <3>3, Counting
    <3>5. Total(chargeOf', UsageOf(q)) = reservations[q].captured
      BY <1>1, <3>3 DEF Total
    <3> QED BY <2>3, <3>1, <3>4, <3>5
  <2>4. CASE q # r
    <3>1. UsageOf(q)' = UsageOf(q)
      BY <2>2, <2>4 DEF UsageOf
    <3> QED BY <1>3, <2>2, <2>4, <3>1
  <2> QED BY <2>3, <2>4
<1> QED BY <1>4, <1>5

\* What a move of credit does to the books: h goes to what the tenant's
\* reservations hold, spend to what they captured, and the rest comes out of
\* the available credit, or returns to it.
LEMMA Shifting ==
  ASSUME IInv, IInv', Accounted, NEW r \in Rids, NEW n \in Nat, NEW a \in Int, NEW h \in Int,
         NEW spend \in Nat, Append(r[1], n, a, h), a + h + spend = 0,
         \A q \in Rids \ {r} : reservations'[q] = reservations[q],
         Remaining(reservations'[r]) = Remaining(reservations[r]) + h,
         reservations'[r].captured = reservations[r].captured + spend,
         IF spend = 0 THEN UNCHANGED usage ELSE \E id \in Usages : RecordUsage(id, r, spend)
  PROVE  Accounted' /\ \A t \in Tenants : Worth(t)' = Worth(t)
<1>1. /\ reservations[r] \in Reservation /\ reservations'[r] \in Reservation
      /\ Remaining(reservations'[r]) \in Nat /\ Remaining(reservations[r]) \in Int
      /\ r[1] \in Tenants
  <2>1. reservations[r] \in Reservation /\ reservations'[r] \in Reservation
    BY DEF IInv, TypeInv, TypeOK
  <2>2. NothingStranded'
    BY DEF IInv, Books
  <2>3. IF reservations'[r].status \in Open
        THEN reservations'[r].released = 0 /\ Remaining(reservations'[r]) > 0
        ELSE Remaining(reservations'[r]) = 0
    BY <2>2 DEF NothingStranded, Remaining
  <2>4. /\ Remaining(reservations'[r]) \in Int /\ Remaining(reservations[r]) \in Int
    BY <2>1 DEF Remaining, Reservation
  <2>5. r[1] \in Tenants
    BY DEF Rids
  <2>6. Remaining(reservations'[r]) \in Nat
    BY <2>3, <2>4
  <2> QED BY <2>1, <2>4, <2>5, <2>6
<1>2. UsageIsCaptured' /\ \A q \in Rids : IsFiniteSet(Units(chargeOf, UsageOf(q)))'
  BY UsageMoves
<1>3. ASSUME NEW t \in Tenants
      PROVE  /\ ledger'[t].reserved = Total(heldOf', RidsOf(t))
             /\ IsFiniteSet(Units(heldOf', RidsOf(t))) /\ IsFiniteSet(Units(spentOf', RidsOf(t)))
             /\ ledger'[t].available + ledger'[t].reserved + Total(spentOf', RidsOf(t))
                  = ledger[t].available + ledger[t].reserved + Total(spentOf, RidsOf(t))
  <2>1. /\ ledger[t] \in [available : Nat, reserved : Nat, version : Nat]
        /\ ledger[t].reserved = Total(heldOf, RidsOf(t))
    BY DEF IInv, TypeInv, TypeOK, Accounted, ReservedIsHeld
  <2>2. /\ ledger'[t].available = IF t = r[1] THEN ledger[t].available + a ELSE ledger[t].available
        /\ ledger'[t].reserved = IF t = r[1] THEN ledger[t].reserved + h ELSE ledger[t].reserved
    BY <1>1 DEF Append, IInv, TypeInv, TypeOK
  <2>3. /\ IsFiniteSet(Units(heldOf', RidsOf(t))) /\ IsFiniteSet(Units(spentOf', RidsOf(t)))
        /\ Total(heldOf, RidsOf(t)) \in Nat /\ Total(spentOf, RidsOf(t)) \in Nat
        /\ Total(heldOf', RidsOf(t)) =
             IF t = r[1] THEN Total(heldOf, RidsOf(t)) - Remaining(reservations[r])
                                + Remaining(reservations'[r])
                         ELSE Total(heldOf, RidsOf(t))
        /\ Total(spentOf', RidsOf(t)) =
             IF t = r[1] THEN Total(spentOf, RidsOf(t)) - reservations[r].captured
                                + reservations'[r].captured
                         ELSE Total(spentOf, RidsOf(t))
    BY <1>1, OneMoves
  <2>4. reservations[r].captured \in Nat /\ ledger[t].available \in Nat
    BY <1>1, <2>1 DEF Reservation
  <2>5. Total(spentOf', RidsOf(t)) = IF t = r[1] THEN Total(spentOf, RidsOf(t)) + spend
                                                ELSE Total(spentOf, RidsOf(t))
    BY <2>3, <2>4
  <2>6. Total(heldOf', RidsOf(t)) = IF t = r[1] THEN Total(heldOf, RidsOf(t)) + h
                                               ELSE Total(heldOf, RidsOf(t))
    BY <1>1, <2>3
  <2> QED BY <2>1, <2>2, <2>3, <2>4, <2>5, <2>6
<1>4. ReservedIsHeld'
  BY <1>3, SumsPrimed DEF ReservedIsHeld
<1>5. \A t \in Tenants : Worth(t)' = Worth(t)
  BY <1>3, SumsPrimed DEF Worth
<1> QED BY <1>2, <1>3, <1>4, <1>5, SumsPrimed DEF Accounted

\* Where reservations and usage stay, the sums stay.
LEMMA SumsStay ==
  ASSUME UNCHANGED <<reservations, usage>>
  PROVE  /\ \A t : Total(heldOf, RidsOf(t))' = Total(heldOf, RidsOf(t))
         /\ \A t : Total(spentOf, RidsOf(t))' = Total(spentOf, RidsOf(t))
         /\ \A t : Units(heldOf, RidsOf(t))' = Units(heldOf, RidsOf(t))
         /\ \A t : Units(spentOf, RidsOf(t))' = Units(spentOf, RidsOf(t))
         /\ \A r : Total(chargeOf, UsageOf(r))' = Total(chargeOf, UsageOf(r))
         /\ \A r : Units(chargeOf, UsageOf(r))' = Units(chargeOf, UsageOf(r))
<1>1. heldOf' = heldOf /\ spentOf' = spentOf /\ chargeOf' = chargeOf
      /\ \A r : UsageOf(r)' = UsageOf(r)
  BY DEF heldOf, spentOf, chargeOf, UsageOf, Remaining
<1> QED BY <1>1, SumsPrimed

LEMMA BooksStay ==
  ASSUME Accounted, UNCHANGED <<reservations, usage>>,
         \A t \in Tenants : ledger'[t].reserved = ledger[t].reserved
  PROVE  /\ Accounted'
         /\ \A t \in Tenants : ledger'[t].available = ledger[t].available => Worth(t)' = Worth(t)
BY SumsStay DEF Accounted, ReservedIsHeld, UsageIsCaptured, Worth

\* Reservation traffic keeps the books in balance.
LEMMA ReservingBalances ==
  ASSUME IInv, IInv', Accounted, Reserving
  PROVE  Accounted' /\ \A t \in Tenants : Worth(t)' = Worth(t)
<1> USE BillingAssumption
<1>1. CASE Quiet
  BY <1>1, BooksStay DEF Quiet
<1>2. ASSUME NEW r \in Rids, NEW amount \in Amounts, NEW expires \in Nat, Holds(r, amount, expires)
      PROVE  Accounted' /\ \A t \in Tenants : Worth(t)' = Worth(t)
  <2> DEFINE new == NewReservation(amount, expires)
  <2>1. /\ Remaining(reservations[r]) = 0 /\ reservations[r].captured = 0
        /\ Remaining(new) = amount /\ new.captured = 0
    BY <1>2 DEF Holds, NoReservation, NewReservation, Remaining
  <2>2. /\ Append(r[1], 1, -amount, amount) /\ -amount \in Int /\ amount \in Int
        /\ -amount + amount + 0 = 0 /\ UNCHANGED usage
        /\ reservations' = [reservations EXCEPT ![r] = new]
    BY <1>2 DEF Holds
  <2> HIDE DEF new
  <2>3. /\ reservations'[r] = new
        /\ \A q \in Rids \ {r} : reservations'[q] = reservations[q]
    BY <2>2 DEF IInv, TypeInv, TypeOK
  <2>4. /\ Remaining(reservations'[r]) = Remaining(reservations[r]) + amount
        /\ reservations'[r].captured = reservations[r].captured + 0
    BY <2>1, <2>2, <2>3
  <2> QED BY <2>2, <2>3, <2>4, Shifting
<1>3. ASSUME NEW r \in Rids, NEW spend \in Nat, NEW back \in Nat, NEW new \in Reservation,
             Draws(r, spend, back, new)
      PROVE  Accounted' /\ \A t \in Tenants : Worth(t)' = Worth(t)
  <2> DEFINE h == -(spend + back)
  <2>1. PICK n \in Nat : Append(r[1], n, back, h)
    BY <1>3 DEF Draws
  <2>2. h \in Int /\ back \in Int /\ back + h + spend = 0
    OBVIOUS
  <2>3. /\ reservations'[r] = new
        /\ \A q \in Rids \ {r} : reservations'[q] = reservations[q]
    BY <1>3 DEF Draws, IInv, TypeInv, TypeOK
  <2>4. /\ Remaining(reservations'[r]) = Remaining(reservations[r]) + h
        /\ reservations'[r].captured = reservations[r].captured + spend
    <3>1. reservations[r] \in Reservation
      BY DEF IInv, TypeInv, TypeOK
    <3> QED BY <1>3, <2>3, <3>1 DEF Draws, Drawn, Remaining, Reservation
  <2>5. IF spend = 0 THEN UNCHANGED usage ELSE \E id \in Usages : RecordUsage(id, r, spend)
    BY <1>3 DEF Draws
  <2> HIDE DEF h
  <2> QED BY <2>1, <2>2, <2>3, <2>4, <2>5, Shifting
<1> QED BY <1>1, <1>2, <1>3 DEF Reserving

\* So do grants and adjustments, except that they bring credit in or take it out.
LEMMA StepBalances ==
  ASSUME IInv, IInv', Accounted, [Next]_vars
  PROVE  /\ Accounted'
         /\ \A t \in Tenants : Worth(t)' # Worth(t) =>
              \E c \in Callers : CreditCommit(c) /\ calls[c].t = t
<1>1. CASE Reserving
  BY <1>1, ReservingBalances
<1>2. ASSUME NEW c \in Callers, CreditCommit(c)
      PROVE  /\ Accounted'
             /\ \A t \in Tenants : Worth(t)' # Worth(t) => calls[c].t = t
  <2>1. /\ calls[c].t \in Tenants /\ calls[c].delta \in Int /\ UNCHANGED <<reservations, usage>>
        /\ Append(calls[c].t, 1, calls[c].delta, 0)
    BY <1>2 DEF CreditCommit, CreditCall
  <2>2. ASSUME NEW t \in Tenants
        PROVE  /\ ledger'[t].reserved = ledger[t].reserved
               /\ t # calls[c].t => ledger'[t].available = ledger[t].available
    BY <2>1 DEF Append, IInv, TypeInv, TypeOK
  <2> QED BY <2>1, <2>2, BooksStay
<1> QED BY <1>1, <1>2, StepKinds

\* At first every sum is zero.
LEMMA NothingCounted ==
  ASSUME usage = {}, \A r \in Rids : reservations[r] = NoReservation,
         \A t \in Tenants : ledger[t].reserved = 0
  PROVE  Accounted /\ \A t : Total(spentOf, RidsOf(t)) = 0
<1>1. \A r \in Rids : heldOf[r] = 0 /\ spentOf[r] = 0
  BY DEF heldOf, spentOf, NoReservation, Remaining
<1>2. \A t : Units(heldOf, RidsOf(t)) = {} /\ Units(spentOf, RidsOf(t)) = {}
  BY <1>1 DEF Units, RidsOf
<1>3. \A r : Units(chargeOf, UsageOf(r)) = {}
  BY DEF Units, UsageOf
<1>4. IsFiniteSet({}) /\ Cardinality({}) = 0
  BY FS_EmptySet
<1>5. /\ \A t : Total(heldOf, RidsOf(t)) = 0 /\ Total(spentOf, RidsOf(t)) = 0
      /\ \A r : Total(chargeOf, UsageOf(r)) = 0
  BY <1>2, <1>3, <1>4, Zenon DEF Total
<1>6. \A S : S = {} => IsFiniteSet(S)
  BY <1>4
<1>7. \A t \in Tenants : IsFiniteSet(Units(heldOf, RidsOf(t))) /\ IsFiniteSet(Units(spentOf, RidsOf(t)))
  BY <1>2, <1>6
<1>8. \A r \in Rids : IsFiniteSet(Units(chargeOf, UsageOf(r)))
  BY <1>3, <1>6
<1>9. ReservedIsHeld /\ UsageIsCaptured
  BY <1>5 DEF ReservedIsHeld, UsageIsCaptured, NoReservation
<1> QED BY <1>5, <1>7, <1>8, <1>9 DEF Accounted

LEMMA FundedInv == FundedInit => IInv /\ Accounted /\ \A t \in Tenants : Worth(t) = Funds
<1> SUFFICES ASSUME FundedInit PROVE IInv /\ Accounted /\ \A t \in Tenants : Worth(t) = Funds
  OBVIOUS
<1> USE BillingAssumption
<1>1. TypeInv
  <2>1. AllChecked
    BY IdleCall DEF FundedInit, AllChecked
  <2>2. TypeOK
    BY IdleCall DEF FundedInit, TypeOK, Account, AccountStatuses, Reservation, NoReservation,
       Open, Settled
  <2> QED BY <2>1, <2>2 DEF TypeInv
<1>2. AllAged
  BY DEF FundedInit, AllAged, Aged, Idle, StatusCall, CaptureCall, ReleaseCall
<1>3. Books
  BY DEF FundedInit, Books, LedgerMatchesReservations, NothingStranded, NoReservation, Remaining, Open
<1>4. Accounted /\ \A t : Total(spentOf, RidsOf(t)) = 0
  BY NothingCounted DEF FundedInit
<1>5. \A t \in Tenants : Worth(t) = Funds
  BY <1>4 DEF FundedInit, Worth
<1> QED BY <1>1, <1>2, <1>3, <1>4, <1>5 DEF IInv

LEMMA InvarianceAccounted ==
  ASSUME Lookahead = 0
  PROVE  Spec => [](IInv /\ Accounted)
<1>1. Init => IInv /\ Accounted
  BY InitInv, NothingCounted DEF Init
<1>2. IInv /\ Accounted /\ [Next]_vars => IInv' /\ Accounted'
  BY NextInv, StepBalances
<1> QED BY <1>1, <1>2, PTL DEF Spec

\* Whatever mixture of public and gateway operations races, the reserved
\* credit of a tenant is the sum of what its reservations hold, and the usage
\* events of a reservation sum up to what was captured from it.
THEOREM SumsAgree ==
  ASSUME Lookahead = 0
  PROVE  Spec => [](ReservedIsHeld /\ UsageIsCaptured)
<1>1. Accounted => ReservedIsHeld /\ UsageIsCaptured
  BY DEF Accounted
<1> QED BY <1>1, InvarianceAccounted, PTL

\* The credit of a tenant, available, reserved and spent, changes in nothing
\* but the commit of a grant or an adjustment for that tenant: no other
\* operation creates or loses any.
THEOREM CreditConserved ==
  ASSUME Lookahead = 0
  PROVE  Spec => [][\A t \in Tenants : Worth(t)' # Worth(t) =>
                      \E c \in Callers : CreditCommit(c) /\ calls[c].t = t]_vars
<1> DEFINE Conserved == \A t \in Tenants : Worth(t)' # Worth(t) =>
                          \E c \in Callers : CreditCommit(c) /\ calls[c].t = t
<1>1. (IInv /\ Accounted) /\ (IInv /\ Accounted)' /\ [Next]_vars => [Conserved]_vars
  BY StepBalances
<1> QED BY <1>1, InvarianceAccounted, PTL DEF Spec

\* The books of a funded tenant balance under reservation traffic, whatever
\* races: its credit is available, reserved or spent, and adds up to Funds.
THEOREM BooksStayBalanced ==
  ASSUME Lookahead = 0
  PROVE  ReservationSpec => []BooksBalance
<1> DEFINE Balanced == IInv /\ Accounted /\ \A t \in Tenants : Worth(t) = Funds
<1>1. FundedInit => Balanced
  BY FundedInv
<1>2. Balanced /\ [ReservationTraffic]_vars => Balanced'
  <2> SUFFICES ASSUME Balanced, [ReservationTraffic]_vars PROVE Balanced'
    OBVIOUS
  <2>1. IInv'
    <3>1. [Next]_vars
      BY DEF ReservationTraffic, Next
    <3> QED BY <3>1, NextInv
  <2>2. Reserving
    BY ReservingShape
  <2>3. Accounted' /\ \A t \in Tenants : Worth(t)' = Worth(t)
    BY <2>1, <2>2, ReservingBalances
  <2>4. \A t \in Tenants : (Worth(t) = Funds)'
    BY <2>3
  <2> QED BY <2>1, <2>3, <2>4
<1>3. Balanced => BooksBalance
  BY DEF Accounted, BooksBalance
<1> QED BY <1>1, <1>2, <1>3, PTL DEF ReservationSpec

-----------------------------------------------------------------------------
\* Idempotency keys.

\* A step that moves credit of t records a key of t that was not recorded.
Recorded(t) ==
    \E op \in Operations \ {"account"}, key \in Keys \cup Requests :
        <<op, t, key>> \in idem' \ idem

\* A commit under a key of t leaves the credit of the others alone.
LEMMA RecordedAt ==
  ASSUME TypeOK, NEW t \in Tenants, NEW op \in Operations \ {"account"},
         NEW key \in Keys \cup Requests, Once(op, t, key),
         NEW entry, ledger' = [ledger EXCEPT ![t] = entry],
         NEW s \in Tenants, ledger'[s] # ledger[s]
  PROVE  Recorded(s)
<1>1. s = t
  BY DEF TypeOK
<1> QED BY <1>1 DEF Recorded, Once

\* Credit moves only together with an idempotency record of its own, so that
\* no grant, reservation, capture or release is applied twice under one key,
\* however its callers retry it and whatever versions they send.
THEOREM OncePerKey == Spec => MovesOncePerKey
<1> DEFINE Moves == \A t \in Tenants : ledger'[t] # ledger[t]
             => \E op \in Operations \ {"account"}, key \in Keys \cup Requests :
                  <<op, t, key>> \in idem' \ idem
<1>1. TypeOK /\ [Next]_vars => [Moves]_vars
  <2> SUFFICES ASSUME TypeOK, Next, NEW s \in Tenants, ledger'[s] # ledger[s]
               PROVE  Recorded(s)
    BY DEF vars, Recorded
  <2>1. ASSUME NEW c \in Callers, CreditCommit(c) PROVE Recorded(s)
    <3>1. /\ calls[c].op \in Operations \ {"account"} /\ calls[c].t \in Tenants
          /\ calls[c].key \in Keys
      BY <2>1 DEF CreditCommit, CreditCall, Operations
    <3> QED BY <2>1, <3>1, RecordedAt DEF CreditCommit, Append
  <2>2. ASSUME NEW c \in Callers, ReserveCommit(c) \/ CaptureCommit(c) \/ ReleaseCommit(c)
        PROVE  Recorded(s)
    <3>1. calls[c].rid[1] \in Tenants /\ calls[c].key \in Keys
      BY <2>2 DEF ReserveCommit, ReserveCall, CaptureCommit, CaptureCall, ReleaseCommit,
                  ReleaseCall, Rids
    <3>2. {"reserve", "capture", "release"} \subseteq Operations \ {"account"}
      BY DEF Operations
    <3> QED BY <2>2, <3>1, <3>2, RecordedAt
            DEF ReserveCommit, CaptureCommit, ReleaseCommit, Append
  <2>3. ASSUME NEW r \in Rids,
               \/ \E amount \in Amounts, expires \in Expiries : GatewayReserve(r, amount, expires)
               \/ \E charge \in Amounts : GatewayCapture(r, charge)
               \/ GatewayRelease(r)
        PROVE  Recorded(s)
    <3>1. r[1] \in Tenants /\ r[2] \in Requests
      BY DEF Rids
    <3>2. {"gateway_reserve", "gateway_capture", "gateway_release"} \subseteq Operations \ {"account"}
      BY DEF Operations
    <3> QED BY <2>3, <3>1, <3>2, RecordedAt
            DEF GatewayReserve, GatewayCapture, GatewayRelease, Append
  <2>4. ASSUME NEW c \in Callers, AccountNext(c) PROVE Recorded(s)
    <3>1. \A t, status, version : ~StatusRead(c, t, status, version)
      BY DEF StatusRead
    <3>2. \A op, t, key, delta, balance : ~CreditCheck(c, op, t, key, delta, balance)
      BY DEF CreditCheck
    <3>3. ~StatusCommit(c)
      BY DEF StatusCommit
    <3> QED BY <2>1, <2>4, <3>1, <3>2, <3>3 DEF AccountNext
  <2>5. ASSUME NEW c \in Callers, ReservationNext(c) PROVE Recorded(s)
    <3>1. ReserveCommit(c) \/ CaptureCommit(c) \/ ReleaseCommit(c)
      BY <2>5 DEF ReservationNext, ReserveCheck, CaptureRead, CaptureCheck, ReleaseRead,
                  ReleaseCheck, Abandon
    <3> QED BY <2>2, <3>1
  <2>6. ~Tick /\ \A t, key : ~CreateAccount(t, key)
    BY DEF Tick, CreateAccount
  <2> QED BY <2>3, <2>4, <2>5, <2>6 DEF Next, GatewayNext
<1> QED BY <1>1, TypeCorrect, PTL DEF Spec, MovesOncePerKey

-----------------------------------------------------------------------------
\* Prices: what rounding does, for every quantity and rate, and that the rules
\* for rate cards make the active one unambiguous.

\* Division by the unit, in the form that the other proofs use.
LEMMA Ceiling ==
  ASSUME NEW n \in Nat, NEW k, k = (n + 999) \div 1000
  PROVE  k \in Nat /\ 1000 * k >= n /\ 1000 * k < n + 1000
BY SMT

\* A charge is the least whole amount that is not below the exact price.
THEOREM RoundsUp ==
  ASSUME NEW quantity \in Nat, NEW rate \in Nat
  PROVE  /\ RoundUp(quantity, rate) \in Nat
         /\ TokenRateUnit * RoundUp(quantity, rate) >= quantity * rate
         /\ TokenRateUnit * RoundUp(quantity, rate) < quantity * rate + TokenRateUnit
<1>1. PICK n \in Nat : n = quantity * rate
  BY SMT
<1> DEFINE k == (n + 999) \div 1000
<1>2. RoundUp(quantity, rate) = k
  BY <1>1 DEF RoundUp, TokenRateUnit
<1>3. k \in Nat /\ 1000 * k >= n /\ 1000 * k < n + 1000
  BY Ceiling
<1> HIDE DEF k
<1> QED BY <1>1, <1>2, <1>3 DEF TokenRateUnit

\* Rounding the parts of a quantity costs what rounding all of it does, or one
\* more: rounding down nowhere makes up for rounding up.
LEMMA PartsRoundUp ==
  ASSUME NEW a \in Nat, NEW b \in Nat, NEW rate \in Nat
  PROVE  /\ RoundUp(a + b, rate) <= RoundUp(a, rate) + RoundUp(b, rate)
         /\ RoundUp(a, rate) + RoundUp(b, rate) <= RoundUp(a + b, rate) + 1
<1>1. PICK x \in Nat : x = a * rate
  BY SMT
<1>2. PICK y \in Nat : y = b * rate
  BY SMT
<1>3. (a + b) * rate = x + y
  BY <1>1, <1>2, SMT
<1> DEFINE p == (x + 999) \div 1000  q == (y + 999) \div 1000  w == (x + y + 999) \div 1000
<1>4. RoundUp(a, rate) = p /\ RoundUp(b, rate) = q /\ RoundUp(a + b, rate) = w
  BY <1>1, <1>2, <1>3 DEF RoundUp, TokenRateUnit
<1>5. /\ p \in Nat /\ 1000 * p >= x /\ 1000 * p < x + 1000
      /\ q \in Nat /\ 1000 * q >= y /\ 1000 * q < y + 1000
      /\ w \in Nat /\ 1000 * w >= x + y /\ 1000 * w < x + y + 1000
  BY Ceiling
<1> HIDE DEF p, q, w
<1>6. w <= p + q /\ p + q <= w + 1
  BY <1>5
<1> QED BY <1>4, <1>6

\* A usage that is captured in two parts under one card is charged no less than
\* in one capture, and at most the fixed price and two microunits more.
THEOREM PartsCost ==
  ASSUME NEW card, NEW key, NEW price, price = card.prices[key],
         price.input \in Nat, price.output \in Nat, price.fixed \in Nat,
         NEW a \in [input : Nat, output : Nat], NEW b \in [input : Nat, output : Nat]
  PROVE  LET both  == [input |-> a.input + b.input, output |-> a.output + b.output]
             parts == Charge(card, key, a) + Charge(card, key, b)
         IN  /\ Charge(card, key, both) <= parts
             /\ parts <= Charge(card, key, both) + price.fixed + 2
<1> DEFINE both == [input |-> a.input + b.input, output |-> a.output + b.output]
<1>0. /\ a.input \in Nat /\ a.output \in Nat /\ b.input \in Nat /\ b.output \in Nat
      /\ both.input = a.input + b.input /\ both.output = a.output + b.output
      /\ both.input \in Nat /\ both.output \in Nat
  OBVIOUS
<1> HIDE DEF both
<1>1. /\ RoundUp(a.input, price.input) \in Nat /\ RoundUp(b.input, price.input) \in Nat
      /\ RoundUp(a.output, price.output) \in Nat /\ RoundUp(b.output, price.output) \in Nat
      /\ RoundUp(both.input, price.input) \in Nat /\ RoundUp(both.output, price.output) \in Nat
  BY <1>0, RoundsUp
<1>2. /\ RoundUp(both.input, price.input)
           <= RoundUp(a.input, price.input) + RoundUp(b.input, price.input)
      /\ RoundUp(a.input, price.input) + RoundUp(b.input, price.input)
           <= RoundUp(both.input, price.input) + 1
  BY <1>0, PartsRoundUp
<1>3. /\ RoundUp(both.output, price.output)
           <= RoundUp(a.output, price.output) + RoundUp(b.output, price.output)
      /\ RoundUp(a.output, price.output) + RoundUp(b.output, price.output)
           <= RoundUp(both.output, price.output) + 1
  BY <1>0, PartsRoundUp
<1>4. \A u \in {a, b, both} : Charge(card, key, u)
        = RoundUp(u.input, price.input) + RoundUp(u.output, price.output) + price.fixed
  BY DEF Charge
<1>5. /\ Charge(card, key, both) <= Charge(card, key, a) + Charge(card, key, b)
      /\ Charge(card, key, a) + Charge(card, key, b)
           <= Charge(card, key, both) + price.fixed + 2
  BY <1>1, <1>2, <1>3, <1>4
<1> QED BY <1>5 DEF both

\* At any time at most one card is active, if cards are only added as add allows.
THEOREM OneActive ==
  ASSUME NEW cards, NEW t \in Nat,
         \A c \in cards : c.effective \in Nat /\ c.id \in Nat /\ c.version \in Nat,
         \A c \in cards : Addable(cards \ {c}, c),
         NEW c \in cards, NEW d \in cards, Active(cards, t, c), Active(cards, t, d)
  PROVE  c = d
BY DEF Active, Before, Addable
=============================================================================
