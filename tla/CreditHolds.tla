----------------------------- MODULE CreditHolds -----------------------------
(***************************************************************************)
(* What the billing service promises about credit, without accounts,       *)
(* versions, idempotency keys, expiry or concurrent callers: each tenant   *)
(* has some available credit, each reservation sets some of it aside, and  *)
(* a reservation is then spent or given back, once, and for good.          *)
(* Billing.tla implements this specification.                              *)
(***************************************************************************)
EXTENDS Integers

CONSTANTS Tenants, Requests

\* A reservation is named by its tenant and the request it pays for.
Rids == Tenants \X Requests

VARIABLES
    available,  \* available[t]: credit tenant t may still spend
    hold        \* hold[r]: [phase, set, spent] of reservation r

vars == <<available, hold>>

Phases == {"none", "open", "settled"}

Init ==
    /\ available \in [Tenants -> Nat]
    /\ hold = [r \in Rids |-> [phase |-> "none", set |-> 0, spent |-> 0]]

\* Credit is granted, refunded or adjusted, never below zero.
Credit(t, delta) ==
    /\ available[t] + delta >= 0
    /\ available' = [available EXCEPT ![t] = @ + delta]
    /\ UNCHANGED hold

\* A new reservation sets amount aside; a name is used once.
Hold(r, amount) ==
    /\ hold[r].phase = "none"
    /\ amount > 0
    /\ available[r[1]] >= amount
    /\ available' = [available EXCEPT ![r[1]] = @ - amount]
    /\ hold' = [hold EXCEPT ![r] = [phase |-> "open", set |-> amount, spent |-> 0]]

\* Part of an open reservation is spent and part given back; what is left
\* stays set aside, and a reservation with nothing left is settled.
Draw(r, spend, back) ==
    /\ hold[r].phase = "open"
    /\ spend >= 0 /\ back >= 0 /\ spend + back > 0
    /\ spend + back <= hold[r].set
    /\ available' = [available EXCEPT ![r[1]] = @ + back]
    /\ hold' = [hold EXCEPT ![r] =
                  [phase |-> IF spend + back = @.set THEN "settled" ELSE "open",
                   set   |-> @.set - spend - back,
                   spent |-> @.spent + spend]]

\* The amount of a step is read off the credit it moves, so that the
\* specification needs no bound on amounts.
Next ==
    \/ \E t \in Tenants : Credit(t, available'[t] - available[t])
    \/ \E r \in Rids : Hold(r, available[r[1]] - available'[r[1]])
    \/ \E r \in Rids : Draw(r, hold'[r].spent - hold[r].spent,
                               available'[r[1]] - available[r[1]])

Spec == Init /\ [][Next]_vars
=============================================================================
