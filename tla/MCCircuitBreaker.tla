-------------------------- MODULE MCCircuitBreaker --------------------------
(* Small instances of CircuitBreaker, with routes chosen by Routing. *)
EXTENDS CircuitBreaker, Routing
CONSTANTS e1, e2, e3

\* Two providers, one of which only one tenant may use in one of the regions.
TwoProviders ==
    {[id |-> "primary", priority |-> 1, regions |-> {"in", "eu"}, models |-> {"m"}],
     [id |-> "secondary", priority |-> 2, regions |-> {"in"}, models |-> {"m"}]}
Policies ==
    "t1" :> [allowed |-> {"primary", "secondary"}, blocked |-> {}, regions |-> {"in", "eu"}] @@
    "t2" :> [allowed |-> {"primary", "secondary"}, blocked |-> {"primary"}, regions |-> {"in"}]
ASSUME /\ DistinctProviders(TwoProviders)
       /\ \A t \in DOMAIN Policies : KnownProviders(Policies[t], TwoProviders)

\* A request with a fallback, one of another tenant that has none, and one of a
\* region that only the first provider serves.
Requested == e1 :> [tenant |-> "t1", model |-> "m", region |-> "in"] @@
             e2 :> [tenant |-> "t2", model |-> "m", region |-> "in"] @@
             e3 :> [tenant |-> "t1", model |-> "m", region |-> "eu"]
Routes == [e \in Executions |-> Route(TwoProviders, Policies, Requested[e])]
=============================================================================
