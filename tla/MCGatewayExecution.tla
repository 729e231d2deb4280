-------------------------- MODULE MCGatewayExecution --------------------------
(* Small instances of GatewayExecution. *)
EXTENDS GatewayExecution, Pricing, TLC
CONSTANTS t1, t2, q1, q2, e1, e2, e3, prompt, other

\* Two clients send the same request, and a third its id with another input.
SharedRequest == [e \in Executions |-> <<t1, q1>>]
MixedInput == [e \in Executions |-> IF e = e3 THEN other ELSE prompt]

SameInput == [e \in Executions |-> prompt]

\* Two clients of two tenants happen to use the same request id.
OwnTenant == [e \in Executions |-> <<IF e = e1 THEN t1 ELSE t2, q1>>]

\* A rate card, and one that replaces it at time 1 and raises the price of
\* output: a short result costs less than the estimate at first, and a long one
\* uses it up, after a fraction was rounded up.
Rates(output) == "key" :> [input |-> 0, output |-> output, fixed |-> 0]
Cards == {[id |-> 1, version |-> 1, effective |-> 0, prices |-> Rates(500)],
          [id |-> 1, version |-> 2, effective |-> 1, prices |-> Rates(600)]}
ASSUME \A card \in Cards : Addable(Cards \ {card}, card) /\ Priced(card, "key")
UsageOf(a) == [input |-> 10, output |-> IF a = "short" THEN 2 ELSE 3]
Prices == [a \in Results |-> [n \in 0 .. MaxNow |-> Charge(ActiveAt(Cards, n), "key", UsageOf(a))]]
=============================================================================
