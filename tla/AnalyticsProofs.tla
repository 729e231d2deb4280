--------------------------- MODULE AnalyticsProofs ---------------------------
(***************************************************************************)
(* Proofs about Analytics, for any events, keys, windows and callers, any  *)
(* lateness and skew and an unbounded clock.                               *)
(***************************************************************************)
EXTENDS Analytics, TLAPS

Total == calls = [c \in Callers |-> calls[c]]

\* An ingestion under way has found its event in time, by a clock that has not
\* gone back.
InTimeCalls ==
    \A c \in Callers : calls[c].op = "ingest" =>
        InTime(calls[c].event, calls[c].at) /\ calls[c].at <= now

\* Points, taken or stored, are those of a set of events that is still there.
Based(s) ==
    /\ s.basis \subseteq {e.event.id : e \in events}
    /\ s.points = PointsOf({e \in events : e.event.id \in s.basis})
    /\ \A e \in events : e.event.id \in s.basis =>
         e.event.tenant = s.tenant /\ InWindow(e.event, s.window)
PointsBased ==
    /\ \A c \in Callers : calls[c].op = "snapshot" => Based(calls[c])
    /\ \A s \in snapshots : Based(s)

IInv == TypeOK /\ Total /\ AcceptedOnce /\ InTimeCalls /\ PointsBased

LEMMA Initially == Init => IInv
BY AnalyticsAssumption
   DEF Init, IInv, TypeOK, Total, AcceptedOnce, InTimeCalls, PointsBased, Idle

\* What a new call must satisfy for the invariants of the calls.
CallOK(call) ==
    /\ call = Idle \/ call \in IngestCall \/ SnapshotCall(call)
    /\ call.op = "ingest" => InTime(call.event, call.at) /\ call.at <= now
    /\ call.op = "snapshot" => Based(call)

LEMMA IdleOK == CallOK(Idle)
BY DEF CallOK, Idle

\* A step that only starts or ends a call keeps the invariant.
LEMMA CallStep ==
  ASSUME IInv, NEW c \in Callers, NEW call, CallOK(call),
         calls' = [calls EXCEPT ![c] = call],
         UNCHANGED <<events, idem, outbox, snapshots, now>>
  PROVE  IInv'
<1>1. \A d \in Callers : calls'[d] = IF d = c THEN call ELSE calls[d]
  BY DEF IInv, Total
<1>2. TypeOK'
  BY <1>1 DEF IInv, TypeOK, CallOK, StoredEvent, SnapshotCall
<1>3. Total'
  BY <1>1 DEF IInv, Total
<1>4. AcceptedOnce'
  BY DEF IInv, AcceptedOnce, InTime
<1>5. InTimeCalls'
  BY <1>1 DEF IInv, InTimeCalls, CallOK, InTime
<1>6. PointsBased'
  <2>1. ASSUME NEW d \in Callers, (calls[d].op = "snapshot")'
        PROVE  Based(calls[d])'
    <3>1. CASE d = c
      <4>1. calls'[d] = call /\ Based(call)
        BY <1>1, <2>1, <3>1 DEF CallOK
      <4> QED BY <4>1 DEF Based
    <3>2. CASE d # c
      <4>1. calls'[d] = calls[d] /\ Based(calls[d])
        BY <1>1, <2>1, <3>2 DEF IInv, PointsBased
      <4> QED BY <4>1 DEF Based
    <3> QED BY <3>1, <3>2
  <2>2. ASSUME NEW s \in snapshots PROVE Based(s)'
    <3>1. Based(s)
      BY DEF IInv, PointsBased
    <3> QED BY <3>1 DEF Based
  <2> QED BY <2>1, <2>2 DEF PointsBased
<1> QED BY <1>2, <1>3, <1>4, <1>5, <1>6 DEF IInv

LEMMA IngestCheckStep ==
  ASSUME IInv, NEW c \in Callers, NEW event \in Events, NEW key \in Keys,
         NEW request \in Requests, IngestCheck(c, event, key, request)
  PROVE  IInv'
<1> DEFINE call == [op |-> "ingest", event |-> event, key |-> key,
                    request |-> request, at |-> now]
<1>1. CallOK(call)
  BY DEF IngestCheck, CallOK, IngestCall, IInv, TypeOK
<1> QED BY <1>1, CallStep DEF IngestCheck

LEMMA SnapshotReadStep ==
  ASSUME IInv, NEW c \in Callers, NEW tenant \in Tenants, NEW w \in Windows,
         SnapshotRead(c, tenant, w)
  PROVE  IInv'
<1> DEFINE basis == {e.event.id : e \in Counted(tenant, w)}
           call == [op |-> "snapshot", tenant |-> tenant, window |-> w,
                    points |-> Aggregate(tenant, w), basis |-> basis]
<1>1. \A e \in events : e.event.id \in basis <=> e \in Counted(tenant, w)
  BY DEF Counted, IInv, AcceptedOnce
<1>2. {e \in events : e.event.id \in basis} = Counted(tenant, w)
  BY <1>1 DEF Counted
<1>3. Based(call)
  BY <1>1, <1>2 DEF Based, Aggregate, Counted
<1>4. CallOK(call)
  BY <1>3 DEF CallOK, SnapshotCall
<1> QED BY <1>4, CallStep DEF SnapshotRead

\* The commit of an ingestion adds an event that is new, or there already.
LEMMA Committed ==
  ASSUME IInv, NEW c \in Callers, IngestCommit(c)
  PROVE  LET call == calls[c]  stored == Ingested(call) IN
         /\ call \in IngestCall /\ stored \in StoredEvent
         /\ InTime(stored.event, stored.recorded)
         /\ events' = events \cup {stored}
         /\ \A e \in events : e.event.id = stored.event.id => e = stored
         /\ \A d \in Callers : calls'[d] = IF d = c THEN Idle ELSE calls[d]
<1> DEFINE call == calls[c]  stored == Ingested(call)
<1>1. call \in IngestCall
  BY DEF IngestCommit, IInv, TypeOK, Idle, SnapshotCall
<1>2. stored = [event |-> call.event, recorded |-> call.at]
  BY DEF Ingested
<1>3. stored \in StoredEvent /\ InTime(stored.event, stored.recorded)
  BY <1>1, <1>2 DEF IngestCall, StoredEvent, IInv, InTimeCalls
<1>4. /\ events' = events \cup {stored}
      /\ \A e \in events : e.event.id = stored.event.id => e = stored
  BY DEF IngestCommit, Store
<1>5. \A d \in Callers : calls'[d] = IF d = c THEN Idle ELSE calls[d]
  BY DEF IngestCommit, IInv, Total
<1> QED BY <1>1, <1>3, <1>4, <1>5

LEMMA IngestCommitStep ==
  ASSUME IInv, NEW c \in Callers, IngestCommit(c)
  PROVE  IInv'
<1> DEFINE call == calls[c]  stored == Ingested(call)
           record == [id |-> call.event.id, request |-> call.request, recorded |-> call.at]
           answer == [tenant |-> call.event.tenant, key |-> call.key, result |-> stored]
<1>1. /\ call \in IngestCall /\ stored \in StoredEvent
      /\ InTime(stored.event, stored.recorded)
      /\ events' = events \cup {stored}
      /\ \A e \in events : e.event.id = stored.event.id => e = stored
      /\ \A d \in Callers : calls'[d] = IF d = c THEN Idle ELSE calls[d]
  BY Committed
<1>2. /\ idem' = idem \cup {answer}
      /\ \A r \in idem : ~(r.tenant = answer.tenant /\ r.key = answer.key)
  BY DEF IngestCommit, Known
<1>3. /\ outbox' = outbox \cup {record}
      /\ \A r \in outbox : r.id = record.id => r = record
  BY DEF IngestCommit, Enqueue
<1>4. UNCHANGED <<snapshots, now>>
  BY DEF IngestCommit
<1>5. stored = [event |-> call.event, recorded |-> call.at]
  BY DEF Ingested
<1>6. TypeOK'
  <2>1. answer \in [tenant : Tenants, key : Keys, result : StoredEvent]
    BY <1>1 DEF IngestCall, Tenants
  <2>2. record \in [id : {e.id : e \in Events}, request : Requests, recorded : Nat]
    BY <1>1 DEF IngestCall
  <2>3. \A d \in Callers :
          calls'[d] = Idle \/ calls'[d] \in IngestCall \/ SnapshotCall(calls[d])'
    BY <1>1 DEF IInv, TypeOK, SnapshotCall
  <2> HIDE DEF answer, record, stored
  <2> QED
    BY <1>1, <1>2, <1>3, <1>4, <2>1, <2>2, <2>3 DEF IInv, TypeOK
<1>7. Total'
  BY DEF IngestCommit, IInv, Total
<1>8. AcceptedOnce'
  <2>1. /\ record.id = stored.event.id /\ record.recorded = stored.recorded
        /\ answer.result = stored
    BY <1>5
  <2> HIDE DEF answer, record, stored
  <2>2. \A e, f \in events' : e.event.id = f.event.id => e = f
    BY <1>1 DEF IInv, AcceptedOnce
  <2>3. \A e \in events' : InTime(e.event, e.recorded)
    BY <1>1 DEF IInv, AcceptedOnce
  <2>4. {e.event.id : e \in events'} = {r.id : r \in outbox'}
    BY <1>1, <1>3, <2>1 DEF IInv, AcceptedOnce
  <2>5. \A e \in events', r \in outbox' : r.id = e.event.id => r.recorded = e.recorded
    BY <1>1, <1>3, <2>1 DEF IInv, AcceptedOnce
  <2>6. \A r, q \in outbox' : r.id = q.id => r = q
    BY <1>3 DEF IInv, AcceptedOnce
  <2>7. {r.result : r \in idem'} = events'
    BY <1>1, <1>2, <2>1 DEF IInv, AcceptedOnce
  <2>8. \A r, q \in idem' : r.tenant = q.tenant /\ r.key = q.key => r = q
    BY <1>2 DEF IInv, AcceptedOnce
  <2> QED
    BY <2>2, <2>3, <2>4, <2>5, <2>6, <2>7, <2>8 DEF AcceptedOnce, InTime
<1>9. InTimeCalls'
  BY <1>1, <1>4 DEF IInv, InTimeCalls, Idle, InTime
<1>10. PointsBased'
  <2> HIDE DEF stored
  \* Every event of a basis was stored before.
  <2>1. ASSUME NEW s, Based(s) PROVE Based(s)'
    <3>1. {e \in events' : e.event.id \in s.basis} = {e \in events : e.event.id \in s.basis}
      BY <1>1, <2>1 DEF Based, IInv, AcceptedOnce
    <3>2. \A e \in events' : e.event.id \in s.basis => e \in events
      BY <3>1
    <3>3. s.basis \subseteq {e.event.id : e \in events'}
      BY <1>1, <2>1 DEF Based
    <3> QED BY <2>1, <3>1, <3>2, <3>3 DEF Based
  <2>2. ASSUME NEW d \in Callers, (calls[d].op = "snapshot")' PROVE Based(calls[d])'
    <3>1. calls'[d] = calls[d] /\ calls[d].op = "snapshot"
      BY <1>1, <2>2 DEF Idle
    <3>2. Based(calls[d])
      BY <3>1 DEF IInv, PointsBased
    <3> DEFINE s == calls[d]
    <3> HIDE DEF s
    <3>3. Based(s) => {e \in events' : e.event.id \in s.basis}
                       = {e \in events : e.event.id \in s.basis}
      BY <1>1 DEF Based, IInv, AcceptedOnce
    <3> USE DEF s
    <3>4. \A e \in events' : e.event.id \in calls[d].basis => e \in events
      BY <3>2, <3>3
    <3>5. calls[d].basis \subseteq {e.event.id : e \in events'}
      BY <1>1, <3>2 DEF Based
    <3> QED BY <3>1, <3>2, <3>3, <3>4, <3>5 DEF Based
  <2>3. ASSUME NEW s \in snapshots' PROVE Based(s)'
    BY <2>1, <2>3, <1>4 DEF IInv, PointsBased
  <2> QED BY <2>2, <2>3 DEF PointsBased
<1> QED BY <1>6, <1>7, <1>8, <1>9, <1>10 DEF IInv

LEMMA SnapshotPutStep ==
  ASSUME IInv, NEW c \in Callers, SnapshotPut(c)
  PROVE  IInv'
<1> DEFINE call == calls[c]
           snapshot == [tenant |-> call.tenant, window |-> call.window,
                        points |-> call.points, created |-> now, basis |-> call.basis]
<1>1. /\ snapshots' = snapshots \cup {snapshot}
      /\ UNCHANGED <<events, idem, outbox, now>>
      /\ call.op = "snapshot"
  BY DEF SnapshotPut
<1>2. \A d \in Callers : calls'[d] = IF d = c THEN Idle ELSE calls[d]
  BY DEF SnapshotPut, IInv, Total
<1>3. /\ snapshot.tenant \in Tenants /\ snapshot.window \in Windows
      /\ snapshot.created \in Nat /\ Based(snapshot)
  <2>1. SnapshotCall(call)
    BY <1>1 DEF IInv, TypeOK, Idle, IngestCall
  <2>2. Based(call)
    BY <1>1 DEF IInv, PointsBased
  <2>3. /\ snapshot.basis = call.basis /\ snapshot.points = call.points
        /\ snapshot.tenant = call.tenant /\ snapshot.window = call.window
        /\ snapshot.created = now
    OBVIOUS
  <2> QED BY <2>1, <2>2, <2>3 DEF SnapshotCall, Based, IInv, TypeOK
<1> HIDE DEF snapshot
<1>4. TypeOK'
  BY <1>1, <1>2, <1>3 DEF IInv, TypeOK, SnapshotCall
<1>5. Total'
  BY DEF SnapshotPut, IInv, Total
<1>6. AcceptedOnce'
  BY <1>1 DEF IInv, AcceptedOnce, InTime
<1>7. InTimeCalls'
  BY <1>1, <1>2 DEF IInv, InTimeCalls, Idle, InTime
<1>8. PointsBased'
  <2>1. ASSUME NEW d \in Callers, (calls[d].op = "snapshot")' PROVE Based(calls[d])'
    <3>1. calls'[d] = calls[d] /\ Based(calls[d])
      BY <1>2, <2>1 DEF Idle, IInv, PointsBased
    <3> QED BY <1>1, <3>1 DEF Based
  <2>2. ASSUME NEW s \in snapshots' PROVE Based(s)'
    <3>1. Based(s)
      BY <1>1, <1>3 DEF IInv, PointsBased
    <3> QED BY <1>1, <3>1 DEF Based
  <2> QED BY <2>1, <2>2 DEF PointsBased
<1> QED BY <1>4, <1>5, <1>6, <1>7, <1>8 DEF IInv

LEMMA AbandonStep ==
  ASSUME IInv, NEW c \in Callers, Abandon(c)
  PROVE  IInv'
BY IdleOK, CallStep DEF Abandon

LEMMA TickStep == IInv /\ Tick => IInv'
<1> SUFFICES ASSUME IInv, Tick PROVE IInv'
  OBVIOUS
<1>1. TypeOK'
  BY DEF Tick, IInv, TypeOK, SnapshotCall
<1>2. Total' /\ AcceptedOnce'
  BY DEF Tick, IInv, Total, AcceptedOnce, InTime
<1>3. InTimeCalls'
  BY DEF Tick, IInv, TypeOK, InTimeCalls, InTime, IngestCall, Idle, SnapshotCall
<1>4. PointsBased'
  <2>1. ASSUME NEW c \in Callers, calls[c].op = "snapshot" PROVE Based(calls[c])'
    <3>1. Based(calls[c]) /\ UNCHANGED <<calls, events>>
      BY <2>1 DEF Tick, IInv, PointsBased
    <3> QED BY <3>1 DEF Based
  <2>2. ASSUME NEW s \in snapshots PROVE Based(s)'
    <3>1. Based(s) /\ UNCHANGED events
      BY DEF Tick, IInv, PointsBased
    <3> QED BY <3>1 DEF Based
  <2> QED BY <2>1, <2>2 DEF Tick, PointsBased
<1> QED BY <1>1, <1>2, <1>3, <1>4 DEF IInv

LEMMA Unmoved == IInv /\ UNCHANGED analyticsVars => IInv'
<1> SUFFICES ASSUME IInv, UNCHANGED analyticsVars PROVE IInv'
  OBVIOUS
<1> USE DEF analyticsVars
<1>1. TypeOK' /\ Total' /\ AcceptedOnce' /\ InTimeCalls'
  BY DEF IInv, TypeOK, SnapshotCall, Total, AcceptedOnce, InTimeCalls, InTime
<1>2. PointsBased'
  <2>1. ASSUME NEW c \in Callers, calls[c].op = "snapshot" PROVE Based(calls[c])'
    <3>1. Based(calls[c])
      BY <2>1 DEF IInv, PointsBased
    <3> QED BY <3>1 DEF Based
  <2>2. ASSUME NEW s \in snapshots PROVE Based(s)'
    <3>1. Based(s)
      BY DEF IInv, PointsBased
    <3> QED BY <3>1 DEF Based
  <2> QED BY <2>1, <2>2 DEF PointsBased
<1> QED BY <1>1, <1>2 DEF IInv

LEMMA Inductive == IInv /\ [Next]_analyticsVars => IInv'
<1> SUFFICES ASSUME IInv, [Next]_analyticsVars PROVE IInv'
  OBVIOUS
<1>1. ASSUME NEW c \in Callers, NEW event \in Events, NEW key \in Keys,
             NEW request \in Requests, IngestCheck(c, event, key, request)
      PROVE  IInv'
  BY <1>1, IngestCheckStep
<1>2. ASSUME NEW c \in Callers, IngestCommit(c) PROVE IInv'
  BY <1>2, IngestCommitStep
<1>3. ASSUME NEW c \in Callers, NEW tenant \in Tenants, NEW w \in Windows,
             SnapshotRead(c, tenant, w)
      PROVE  IInv'
  BY <1>3, SnapshotReadStep
<1>4. ASSUME NEW c \in Callers, SnapshotPut(c) PROVE IInv'
  BY <1>4, SnapshotPutStep
<1>5. ASSUME NEW c \in Callers, Abandon(c) PROVE IInv'
  BY <1>5, AbandonStep
<1> QED BY <1>1, <1>2, <1>3, <1>4, <1>5, TickStep, Unmoved DEF Next

LEMMA Invariance == Spec => []IInv
BY Initially, Inductive, PTL DEF Spec

\* Type correctness of the stores and of the calls.
THEOREM TypeCorrect == Spec => []TypeOK
<1>1. IInv => TypeOK
  BY DEF IInv
<1> QED BY <1>1, Invariance, PTL

\* An accepted event is accepted once, in time, and is what its keys and its
\* outbox record say, with any number of callers, keys and requests.
THEOREM EventsAcceptedOnce == Spec => []AcceptedOnce
<1>1. IInv => AcceptedOnce
  BY DEF IInv
<1> QED BY <1>1, Invariance, PTL

\* Every stored snapshot can be computed again from the events it was
\* computed from, although it was stored in another unit of work.
THEOREM SnapshotsStayReproducible == Spec => []SnapshotsReproducible
<1>1. IInv => SnapshotsReproducible
  BY DEF IInv, PointsBased, Based, SnapshotsReproducible
<1> QED BY <1>1, Invariance, PTL

\* A window whose lateness has passed, for the clock and for every ingestion
\* under way, stays closed and keeps its counts.
LEMMA ClosedStep ==
  ASSUME IInv, [Next]_analyticsVars, NEW tenant \in Tenants, NEW w \in Windows, Closed(w)
  PROVE  Closed(w)' /\ Aggregate(tenant, w)' = Aggregate(tenant, w)
<1>1. now \in Nat /\ w.start \in Nat /\ w.end \in Nat /\ Lateness \in Nat
  BY AnalyticsAssumption DEF IInv, TypeOK
<1>2. ASSUME UNCHANGED events PROVE Aggregate(tenant, w)' = Aggregate(tenant, w)
  BY <1>2 DEF Aggregate, Counted
<1>3. ASSUME NEW c \in Callers, NEW call, calls' = [calls EXCEPT ![c] = call],
             call.op = "ingest" => call.at = now, UNCHANGED now
      PROVE  Closed(w)'
  <2>1. \A d \in Callers : calls'[d] = IF d = c THEN call ELSE calls[d]
    BY <1>3 DEF IInv, Total
  <2> QED BY <1>3, <2>1 DEF Closed
<1>4. ASSUME NEW c \in Callers, NEW event \in Events, NEW key \in Keys,
             NEW request \in Requests, IngestCheck(c, event, key, request)
      PROVE  Closed(w)' /\ UNCHANGED events
  <2> DEFINE call == [op |-> "ingest", event |-> event, key |-> key,
                      request |-> request, at |-> now]
  <2>1. calls' = [calls EXCEPT ![c] = call] /\ call.at = now /\ UNCHANGED <<now, events>>
    BY <1>4 DEF IngestCheck
  <2> QED BY <1>3, <2>1
<1>5. ASSUME NEW c \in Callers, NEW t \in Tenants, NEW v \in Windows, SnapshotRead(c, t, v)
      PROVE  Closed(w)' /\ UNCHANGED events
  <2> DEFINE call == [op |-> "snapshot", tenant |-> t, window |-> v,
                      points |-> Aggregate(t, v),
                      basis |-> {e.event.id : e \in Counted(t, v)}]
  <2>1. calls' = [calls EXCEPT ![c] = call] /\ call.op # "ingest" /\ UNCHANGED <<now, events>>
    BY <1>5 DEF SnapshotRead
  <2> HIDE DEF call
  <2> QED BY <1>3, <2>1
<1>6. ASSUME NEW c \in Callers, SnapshotPut(c) \/ Abandon(c)
      PROVE  Closed(w)' /\ UNCHANGED events
  <2>1. calls' = [calls EXCEPT ![c] = Idle] /\ Idle.op # "ingest" /\ UNCHANGED <<now, events>>
    BY <1>6 DEF SnapshotPut, Abandon, Idle
  <2> QED BY <1>3, <2>1
<1>7. ASSUME Tick PROVE Closed(w)' /\ UNCHANGED events
  BY <1>1, <1>7 DEF Tick, Closed
\* What an ingestion still adds is not in the window.
<1>8. ASSUME NEW c \in Callers, IngestCommit(c)
      PROVE  Closed(w)' /\ Aggregate(tenant, w)' = Aggregate(tenant, w)
  <2> DEFINE call == calls[c]  stored == Ingested(call)
  <2>1. /\ call \in IngestCall /\ InTime(stored.event, stored.recorded)
        /\ events' = events \cup {stored}
    BY <1>8, Committed
  <2>2. stored.event = call.event /\ stored.recorded = call.at
    BY DEF Ingested
  <2>3. call.at >= w.end + Lateness /\ call.at \in Nat /\ call.event.at \in Nat
    BY <2>1, AnalyticsAssumption DEF Closed, IngestCall
  <2>4. ~InWindow(stored.event, w)
    BY <1>1, <2>1, <2>2, <2>3 DEF InTime, InWindow
  <2> HIDE DEF stored
  <2>5. Counted(tenant, w)' = Counted(tenant, w)
    BY <2>1, <2>4 DEF Counted
  <2>6. calls' = [calls EXCEPT ![c] = Idle] /\ Idle.op # "ingest" /\ UNCHANGED now
    BY <1>8 DEF IngestCommit, Idle
  <2>7. Closed(w)'
    BY <1>3, <2>6
  <2> QED BY <2>5, <2>7 DEF Aggregate
<1>9. ASSUME UNCHANGED analyticsVars PROVE Closed(w)' /\ UNCHANGED events
  BY <1>9 DEF analyticsVars, Closed
<1> QED BY <1>2, <1>4, <1>5, <1>6, <1>7, <1>8, <1>9 DEF Next

\* Windows close, for any lateness and any order of the calls.
THEOREM WindowsStayClosed == Spec => WindowsClose
<1>1. IInv /\ [Next]_analyticsVars =>
        [\A tenant \in Tenants, w \in Windows :
           Closed(w) => Closed(w)' /\ Aggregate(tenant, w)' = Aggregate(tenant, w)]_analyticsVars
  BY ClosedStep
<1> QED BY <1>1, Invariance, PTL DEF Spec, WindowsClose
=============================================================================
