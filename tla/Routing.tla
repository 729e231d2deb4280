------------------------------- MODULE Routing -------------------------------
(***************************************************************************)
(* The provider router of the gateway (services/ai_gateway/router.py) over *)
(* its configuration (config.py): the providers that a tenant's policy and *)
(* the requested model and region allow, in the order of their priorities. *)
(* The first is the route's provider, the others are its fallback.         *)
(***************************************************************************)
EXTENDS SequencesExt

\* load_config refuses providers that share an id or a priority,
DistinctProviders(providers) ==
    \A p, q \in providers : p.id = q.id \/ p.priority = q.priority => p = q

\* and a policy that names a provider which is not configured.
KnownProviders(policy, providers) ==
    policy.allowed \cup policy.blocked \subseteq {p.id : p \in providers}

Eligible(provider, policy, request) ==
    /\ provider.id \in policy.allowed \ policy.blocked
    /\ request.region \in provider.regions
    /\ request.model \in provider.models

\* A tenant without a policy, a region that its policy does not allow and a
\* request that nobody is eligible for are refused: they have no route.
Route(providers, policies, request) ==
    IF \/ request.tenant \notin DOMAIN policies
       \/ request.region \notin policies[request.tenant].regions
    THEN <<>>
    ELSE LET eligible == {p \in providers : Eligible(p, policies[request.tenant], request)}
             ordered  == SetToSortSeq(eligible, LAMBDA p, q : p.priority < q.priority)
         IN  [i \in DOMAIN ordered |-> ordered[i].id]
=============================================================================
