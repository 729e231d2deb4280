------------------------------ MODULE Analytics ------------------------------
(***************************************************************************)
(* The analytics service (services/platform_analytics): ingestion of       *)
(* operational events, aggregation over half-open windows, snapshots.      *)
(*                                                                         *)
(* ingest reads the clock and compares the event with its lateness and     *)
(* skew limits before its unit of work; create_snapshot aggregates in one  *)
(* unit of work and stores the points in another. calls[c] is what caller  *)
(* c has found out; other callers, and the clock, go on in between.        *)
(***************************************************************************)
EXTENDS Integers, FiniteSets

CONSTANTS
    Events,      \* events that may be sent: [id, tenant, group, at]; the group
                 \* is product, region and type, at is occurred_at
    Keys,        \* idempotency keys
    Requests,    \* request ids
    Windows,     \* aggregation windows: [start, end]
    Callers,
    Lateness,    \* max_lateness_seconds
    Skew,        \* future_clock_skew_seconds
    MaxNow, MaxSnapshots \* bounds of the clock and of the stored snapshots

ASSUME AnalyticsAssumption ==
    /\ \A e \in Events : e.at \in Nat
    /\ \A w \in Windows : w.start \in Nat /\ w.end \in Nat /\ w.start < w.end
    /\ Lateness \in Nat /\ Skew \in Nat /\ MaxNow \in Nat /\ MaxSnapshots \in Nat

VARIABLES
    events,      \* the stored events: [event, recorded]
    idem,        \* idempotency records: [tenant, key, result]
    outbox,      \* the records that ingest enqueued: [id, request, recorded]
    snapshots,   \* the stored snapshots: [tenant, window, points, created, basis]
    calls,       \* calls[c]: the operation of caller c
    now          \* the clock

analyticsVars == <<events, idem, outbox, snapshots, calls, now>>

Tenants == {e.tenant : e \in Events}
Idle == [op |-> "none"]

Init ==
    /\ events = {}
    /\ idem = {}
    /\ outbox = {}
    /\ snapshots = {}
    /\ calls = [c \in Callers |-> Idle]
    /\ now = 0

-----------------------------------------------------------------------------
\* Ingestion

\* Faulty: a lateness that is a tick too long.
InTimeLate(event, at) == event.at >= at - Lateness - 1 /\ event.at <= at + Skew

InTime(event, at) == event.at >= at - Lateness /\ event.at <= at + Skew

IngestCheck(c, event, key, request) ==
    /\ calls[c] = Idle
    /\ InTime(event, now)
    /\ calls' = [calls EXCEPT ![c] = [op |-> "ingest", event |-> event, key |-> key,
                                      request |-> request, at |-> now]]
    /\ UNCHANGED <<events, idem, outbox, snapshots, now>>

Known(tenant, key) == \E r \in idem : r.tenant = tenant /\ r.key = key

\* Faulty: the stored event is replaced by the one that comes under its id.
StoreReplacing(stored) ==
    events' = {e \in events : e.event.id # stored.event.id} \cup {stored}

\* events.append: an id names one content, the recording time included.
Store(stored) ==
    /\ \A e \in events : e.event.id = stored.event.id => e = stored
    /\ events' = events \cup {stored}

\* outbox.enqueue: the record of an event is named by the event's id, and what
\* it carries is named by the request too.
Enqueue(record) ==
    /\ \A r \in outbox : r.id = record.id => r = record
    /\ outbox' = outbox \cup {record}

\* Faulty: the event is recorded at the time of the commit.
IngestedAt(call) == [event |-> call.event, recorded |-> now]

Ingested(call) == [event |-> call.event, recorded |-> call.at]

\* The unit of work of a key that is new. A known key is replayed if it has
\* come with the same event before, and refused otherwise: see Abandon.
IngestCommit(c) ==
    LET call == calls[c]  stored == Ingested(call) IN
    /\ call.op = "ingest"
    /\ ~Known(call.event.tenant, call.key)
    /\ Store(stored)
    /\ idem' = idem \cup {[tenant |-> call.event.tenant, key |-> call.key, result |-> stored]}
    /\ Enqueue([id |-> call.event.id, request |-> call.request, recorded |-> call.at])
    /\ calls' = [calls EXCEPT ![c] = Idle]
    /\ UNCHANGED <<snapshots, now>>

-----------------------------------------------------------------------------
\* Aggregation

\* Windows are half-open.
InWindow(event, w) == w.start <= event.at /\ event.at < w.end

\* The metric points of a set of stored events: a count for each group in it.
PointsOf(stored) ==
    {[group |-> g, count |-> Cardinality({e \in stored : e.event.group = g})] :
        g \in {e.event.group : e \in stored}}

Counted(tenant, w) == {e \in events : e.event.tenant = tenant /\ InWindow(e.event, w)}
Aggregate(tenant, w) == PointsOf(Counted(tenant, w))

\* basis is not stored: it is what the points were computed from.
SnapshotRead(c, tenant, w) ==
    /\ calls[c] = Idle
    /\ calls' = [calls EXCEPT ![c] =
                   [op |-> "snapshot", tenant |-> tenant, window |-> w,
                    points |-> Aggregate(tenant, w),
                    basis |-> {e.event.id : e \in Counted(tenant, w)}]]
    /\ UNCHANGED <<events, idem, outbox, snapshots, now>>

SameSnapshot(s, t) == s.tenant = t.tenant /\ s.window = t.window /\ s.points = t.points

\* snapshots.put: tenant, window and points name a snapshot, whose time of
\* creation may not change: the same points at another time are refused.
SnapshotPut(c) ==
    LET call == calls[c]
        snapshot == [tenant |-> call.tenant, window |-> call.window,
                     points |-> call.points, created |-> now, basis |-> call.basis]
    IN  /\ call.op = "snapshot"
        /\ \A s \in snapshots : ~SameSnapshot(s, snapshot)
        /\ Cardinality(snapshots) < MaxSnapshots
        /\ snapshots' = snapshots \cup {snapshot}
        /\ calls' = [calls EXCEPT ![c] = Idle]
        /\ UNCHANGED <<events, idem, outbox, now>>

\* A replay, a refusal, a rolled-back failure, or a crash.
Abandon(c) ==
    /\ calls[c] # Idle
    /\ calls' = [calls EXCEPT ![c] = Idle]
    /\ UNCHANGED <<events, idem, outbox, snapshots, now>>

Tick ==
    /\ now < MaxNow
    /\ now' = now + 1
    /\ UNCHANGED <<events, idem, outbox, snapshots, calls>>

Next ==
    \/ \E c \in Callers :
        \/ \E event \in Events, key \in Keys, request \in Requests :
             IngestCheck(c, event, key, request)
        \/ IngestCommit(c)
        \/ \E tenant \in Tenants, w \in Windows : SnapshotRead(c, tenant, w)
        \/ SnapshotPut(c)
        \/ Abandon(c)
    \/ Tick

Spec == Init /\ [][Next]_analyticsVars

-----------------------------------------------------------------------------
\* Properties

\* The types of the stores and of the calls under way.
StoredEvent == [event : Events, recorded : Nat]
IngestCall == [op : {"ingest"}, event : Events, key : Keys, request : Requests, at : Nat]
SnapshotCall(call) ==
    /\ call.op = "snapshot"
    /\ call.tenant \in Tenants /\ call.window \in Windows
TypeOK ==
    /\ events \subseteq StoredEvent
    /\ idem \subseteq [tenant : Tenants, key : Keys, result : StoredEvent]
    /\ outbox \subseteq [id : {e.id : e \in Events}, request : Requests, recorded : Nat]
    /\ \A s \in snapshots : s.tenant \in Tenants /\ s.window \in Windows /\ s.created \in Nat
    /\ \A c \in Callers :
         calls[c] = Idle \/ calls[c] \in IngestCall \/ SnapshotCall(calls[c])
    /\ now \in Nat

\* An accepted event is one: it has one recording time, within its limits, one
\* outbox record that says so, and every key under which it was accepted
\* answers with it, whatever was sent under its id, its key or its request.
AcceptedOnce ==
    /\ \A e, f \in events : e.event.id = f.event.id => e = f
    /\ \A e \in events : InTime(e.event, e.recorded)
    /\ {e.event.id : e \in events} = {r.id : r \in outbox}
    /\ \A e \in events, r \in outbox : r.id = e.event.id => r.recorded = e.recorded
    /\ \A r, q \in outbox : r.id = q.id => r = q
    /\ {r.result : r \in idem} = events
    /\ \A r, q \in idem : r.tenant = q.tenant /\ r.key = q.key => r = q

\* A snapshot can be computed again from the events it was computed from: they
\* are all still stored as they were, and no snapshot counts what was not there.
SnapshotsReproducible ==
    \A s \in snapshots :
        /\ s.points = PointsOf({e \in events : e.event.id \in s.basis})
        /\ \A e \in events : e.event.id \in s.basis =>
             e.event.tenant = s.tenant /\ InWindow(e.event, s.window)

\* A window closes: when its last event would be late, and every ingestion that
\* looked at the clock before has ended, its counts do not change any more.
Closed(w) ==
    /\ now >= w.end + Lateness
    /\ \A c \in Callers : calls[c].op = "ingest" => calls[c].at >= w.end + Lateness
WindowsClose ==
    [][\A tenant \in Tenants, w \in Windows :
        Closed(w) => Closed(w)' /\ Aggregate(tenant, w)' = Aggregate(tenant, w)]_analyticsVars

\* "Immutable snapshot hashes preserve reproducibility": a snapshot of what was
\* counted before can be taken again at any time.
SnapshotsRepeat ==
    \A c \in Callers : calls[c].op = "snapshot" =>
        \A s \in snapshots : SameSnapshot(s, calls[c]) => s.created = now
=============================================================================
