------------------------------ MODULE AuditTrail ------------------------------
(***************************************************************************)
(* Outbox and audit service together: the publisher of the dispatchers is  *)
(* DurableAuditEventPublisher, which hands every event to                  *)
(* append_source_event. A record is published several times when answers,  *)
(* leases or workers are lost, and the audit service must sort that out.   *)
(***************************************************************************)
EXTENDS Outbox, AuditChain

CONSTANT EventOf   \* EventOf[i]: the event that record i carries

ASSUME TrailAssumption == EventOf \in [Records -> Sources]

trailVars == <<vars, auditVars>>

TrailInit == Init /\ AuditInit

\* Faulty: an audit service that is told of an event and does not keep it.
PublishUnheard(w) == Publish(w) /\ UNCHANGED auditVars

\* Faulty: a dispatch that goes on when the audit service refuses its event.
PublishRefused(w) ==
    /\ workers[w].stage = "claimed"
    /\ workers' = [workers EXCEPT ![w].stage = "published"]
    /\ tries' = [tries EXCEPT ![workers[w].id] = @ + 1]
    /\ UNCHANGED <<records, published, units, auditVars>>

\* publish: append_source_event takes the event, or answers that it has it, and
\* the dispatcher may hear of that or not; or it fails or refuses the event, and
\* the publisher raises.
PublishToAudit(w) ==
    LET i == workers[w].id IN
    /\ Publish(w)
    /\ \/ /\ RecordSource(EventOf[i]) \/ ReplaySource(EventOf[i])
          /\ published' = published \cup {i}
       \/ /\ published' = published
          /\ workers'[w].stage = "failed"
          /\ UNCHANGED auditVars

TrailNext ==
    \/ \E w \in Workers : PublishToAudit(w)
    \/ /\ \/ \E i \in Records : Enqueue(i)
          \/ \E w \in Workers :
               \/ \E i \in Records : Claim(w, i)
               \/ Acknowledge(w)
               \/ \E wait \in 0 .. MaxWait : Retry(w, wait)
               \/ Crash(w)
          \/ EnterUnit \/ RefuseUnit
          \/ Tick
       /\ UNCHANGED auditVars

TrailSpec == TrailInit /\ [][TrailNext]_trailVars

\* Time passes, a dispatch or a unit of work runs on, and whoever calls dispatch
\* calls it for every eligible record in turn: the scheduler is not part of
\* this code.
TrailFairness ==
    /\ WF_trailVars(Tick /\ UNCHANGED auditVars)
    /\ WF_trailVars(RefuseUnit /\ UNCHANGED auditVars)
    /\ \A w \in Workers :
         /\ WF_trailVars(PublishToAudit(w))
         /\ WF_trailVars((Acknowledge(w) \/ \E wait \in 0 .. MaxWait : Retry(w, wait))
                            /\ UNCHANGED auditVars)
    /\ \A i \in Records :
         SF_trailVars((\E w \in Workers : Claim(w, i)) /\ UNCHANGED auditVars)

TrailFairSpec == TrailSpec /\ TrailFairness

-----------------------------------------------------------------------------
\* An acknowledged record's own event is in the audit trail, an event of the
\* trail was enqueued, and each is there once: neither lost answers nor late
\* workers nor another record with the same event id lose or double an entry.
AuditedExactlyOnce ==
    /\ \A i \in Records : records[i].status = "accepted"
         => \E r \in recorded : r.source = EventOf[i]
    /\ \A r \in recorded : \E i \in Records :
         EventOf[i] = r.source /\ records[i] # NoRecord
    /\ \A t \in Tenants :
         Len(streams[t]) = Cardinality({r \in recorded : r.source.tenant = t})
=============================================================================
