# TLA+ models of the UWO shared platform

This directory holds TLA+ specifications of the services under `services/`,
the TLC configurations that check them on small instances, and proofs, checked
by TLAPS, that the safety properties hold for every value of the constants.

    tlc -config MCBillingReservations.cfg MCBilling.tla     # check one run
    tlapm BillingProofs.tla                                 # check the proofs

## The system

The platform is a set of separate services over repositories behind units of
work. A unit of work takes the lock of its service's state, snapshots it with the
outbox, and restores the snapshot unless it was committed. So whatever happens
inside one is a single step for the service's other units of work, and what is hard
is what happens between them. The outbox is the exception: it has a lock of its own,
which dispatchers take, and only the control plane's unit of work holds it from its
snapshot to its end. The units of work of the gateway's outcomes, storage, analytics
and audit do not, so a refused one also undoes what dispatchers did meanwhile.

| Component | State | Operations | Hard because |
|---|---|---|---|
| Billing (`platform_billing/service.py`, `in_memory.py`) | accounts, append-only ledger, reservations, usage events, idempotency records | create account, set status, grant/adjust/refund, reserve, capture, release, and their gateway forms | public operations read a record, then commit under a version that the caller sent; the gateway forms read inside the unit of work |
| Gateway adapter (`platform_billing/gateway.py`) | none | authorize, reserve, capture, release | derives reservation, usage and idempotency ids from the request id |
| Secure execution (`ai_gateway/execution.py`) | outcome of each request, outbox of mandatory events | execute | eight calls and transactions in a row, retried by the client after a crash, and while an earlier execution is still under way |
| Outbox (`data_service_common.py`) | records: status, attempts, lease, version | enqueue, claim, acknowledge, retry, cancel, transition, reconcile; `dispatch` | leases expire while a worker publishes; workers share an owner name; workers crash; a refused unit of work of the owner puts an older outbox back |
| Notifications (`platform_notifications`) | templates, preferences, notifications, attempts, dead letters, outbox | template and preference updates, create, cancel, dispatch | the provider is called between two transactions |
| Circuit breaker (`ai_gateway/resilience.py`) | failures and opening time per provider | execute | state is read before and written after a call, by many threads |
| Storage (`platform_storage`) | objects, versions, uploads, retention, holds, scans, outbox | initiate, finalize, abort, delete, restore, retention, hold, scan, download | a download reads in four transactions; three operations write one retention policy |
| Audit (`platform_audit`) | hash-chained streams, source events, checkpoints, exports, retention | append, source event, verify, checkpoint, export, set retention | verification and recording are separate transactions; events are delivered more than once; stored entries may be damaged |
| Control plane (`platform_control_plane`) | tenants, memberships, roles, entitlements, policies | tenant, membership, role and entitlement changes | updates computed from a read outside the unit of work |
| Analytics (`platform_analytics`) | events, idempotency records, outbox, snapshots | ingest, aggregate, snapshot, export | the clock is read before the unit of work; snapshots of moving data |
| Pricing (`platform_billing/pricing.py`), router (`ai_gateway/router.py`) | rate cards; configuration | price a usage, choose a route | pure: rounding, the card of the moment, tie-breaking |
| HTTP applications, provider adapters, authentication, content safety, configuration, secrets, audit sinks | none of their own | | stateless, or pure I/O |

They interact as follows. The gateway's execution calls billing through the
adapter, in transactions of billing's own, and keeps its outcomes and mandatory
events in its own unit of work. Storage, notifications, control plane and
gateway enqueue outbox records inside their units of work; a dispatcher, driven
by a scheduler outside this repository, claims and publishes them. Notifications
dispatch their own records. `DurableAuditEventPublisher` hands published events to
the audit service, which records each event id once.

What makes each part correct:

- billing: credit is neither created nor lost nor spent twice, the ledger agrees
  with the reservations, nothing is stranded, terminal states are final;
- execution: a request costs what its stored result costs and a failure costs
  nothing, the first answer is the answer, events tell the outcomes, and a client
  that keeps retrying gets its result captured;
- outbox: acknowledged only after acceptance, one valid claim at a time, a bounded
  number of attempts, final states are final, abandoned work is resolved, as far as
  refused units of work of its owner leave that true;
- notifications: the notification and its record never disagree, the history tells
  the outcome, and every notification is resolved;
- circuit breaker: a circuit is open exactly when its failures say so, closes only
  after the full reset time or a success, and does close; every execution ends;
- storage: every finalized upload is one numbered version, scan reports are unique
  and announced, no object is deleted before the retention that was asked for, downloads were found clean and governed;
- control plane: no lost update, no self-promotion, only platform administrators
  reactivate, a tenant is created whole or not at all, grants happen once;
- audit: an append-only chain with one entry per source event; a checkpoint tells
  whether its entries are still there; whoever has an export can verify it; an
  acknowledged outbox event is in the trail exactly once;
- analytics: an event is accepted once and in time, the counts of a window settle,
  and a snapshot can be computed again from what is stored;
- pricing: each dimension is rounded up once under the one card that is active;
  routing: a deterministic, eligible choice.

## Modules

| Module | Models |
|---|---|
| `CreditHolds` | what billing promises: available credit, credit set aside, spent or given back |
| `Billing` | the billing service; implements `CreditHolds` |
| `BillingProofs` | theorems about `Billing` and `Pricing` |
| `GatewayExecution` | `SecureExecutionService.execute` over an instance of `Billing` |
| `GatewayProofs` | theorems about `GatewayExecution`, with those of `BillingProofs` for its billing service |
| `OutboxRecords` | one outbox record and what each operation makes of it |
| `Outbox` | outbox records under `OutboxDispatcher`; uses `OutboxRecords` |
| `Notifications` | the notification service and its own dispatcher; uses `OutboxRecords` |
| `NotificationProofs` | theorems about `Notifications` |
| `AuditChain` | the audit service: streams, source events, checkpoints, exports, retention, damage |
| `AuditTrail` | the outbox dispatchers publishing to the audit service: extends `Outbox` and `AuditChain` |
| `AuditTrailProofs` | theorems about `Outbox`, `AuditChain` and `AuditTrail` |
| `Analytics` | the analytics service |
| `AnalyticsProofs` | theorems about `Analytics` |
| `Pricing` | rounding, charges, rate cards: operators |
| `Routing` | the router and what the configuration must satisfy: operators |
| `CircuitBreaker` | `ResilientProviderExecutor`: circuits shared by concurrent executions |
| `CircuitProofs` | theorems about `CircuitBreaker` |
| `Storage` | the storage service, and a download split at its reads |
| `StorageProofs` | theorems about `Storage` |
| `ControlPlane` | tenants, memberships, roles, entitlements, the directory, authorization |
| `ControlPlaneProofs` | theorems about `ControlPlane` |
| `MCBilling`, `MCGatewayExecution`, `MCAuditTrail`, `MCAuditChain`, `MCAnalytics`, `MCNotifications`, `MCCircuitBreaker`, `MCStorage`, `MCControlPlane` | small instances for TLC |

`GatewayExecution` composes the execution with `Billing`, at prices that
`MCGatewayExecution` takes from `Pricing`; `AuditTrail` composes `Outbox` with
`AuditChain`; `MCCircuitBreaker` takes the routes of its executions from `Routing`.

The definitions whose comment begins with "Faulty" are plausible mistakes in the
definition they stand next to. No specification uses them; each one shows, when it
takes that definition's place, that some property would notice the mistake.

### Billing

`account`, `ledger`, `reservations`, `usage` and `idem` are the repositories.
`ledger[t]` is the balance that `InMemoryLedgerRepository.balance` derives from
the entries of a tenant; `posted[r]` sums the same entries by the reservation they
refer to, so that the ledger can be compared with the reservations. `calls[c]` is
the public operation that caller `c` has under way with everything it has read.

A public operation is two or three actions: for `capture`, `CaptureRead` takes
the reservation (service.py:333), `CaptureCheck` is the look for a replay, the
account status and the checks of the snapshot (336-363), and `CaptureCommit` is
the unit of work. `Abandon` is a refusal, a replay, a repository failure that was
rolled back, or a crash: none of them changes a store. The gateway operations are
one action each, with the idempotency record as a guard.

Abstractions: the price of a capture is any amount that fits (`GatewayExecution`
ties it to a rate card); a reservation is
named by its tenant and request; the actor of an idempotency scope is part of the
key; a refund has the shape of a grant; fingerprints are left out, because a key
used with other input is refused, like any other refusal. A call chooses the
versions it expects when it starts, up to `Lookback` behind and `Lookahead` ahead
of the stored ones. `Expiries` are the times at which reservations may expire.

`ReservationSpec` is the traffic of public and gateway operations on reservations
alone, over accounts that were funded with `Funds` credits (`FundedInit`, the state
after `create_account` and one `grant_credits`). It is what the gateway does with
billing, and where a tenant's books add up to what it was funded with. The sums of
`BooksBalance` are taken without recursion: `Units(f, S)` has one pair for each unit
of `f[x]` of each `x` of `S`, and `Total(f, S)` is how many there are.

### GatewayExecution

`exec[e]` is where client `e`'s execution stands between two calls or
transactions. The eight billing variables are `Billing`'s, and the billing steps
are its `GatewayReserve`, `GatewayCapture` and `GatewayRelease`. A performed
operation is replayed from its idempotency record. `events` is the set of mandatory
events in the outcome store's outbox; their delivery is `Outbox`. An answer is a
result or a failure code, from the provider or from the check of its output.
`InputOf[e]` stands for prompt and actor, which the fingerprint covers.

`ChargeAt[a][n]` is the price of result `a` by the card that is active at time `n`:
`capture_for_gateway` looks the card up when it captures, so that a replay of a
result may cost something else than its first capture would have. In the run a
second card with a higher rate becomes active at time 1.

### OutboxRecords, Outbox, Notifications

Only how far a due time or a lease lies ahead of the clock matters, so a record
carries the ticks that are left. `_require_claim` compares owner and version, and the
lease with the time that its caller names. `OutboxDispatcher` names the time at
which it claimed, and so never finds its own lease expired (`HoldsClaim`); the
notification service names the time of the call (`HoldsLease`).

`Publish` covers a publisher that raises after the downstream accepted the event.

`EnterUnit` and `RefuseUnit` are the two ends of a unit of work of the service that
owns the outbox and is refused, as one of the gateway's is when two executions of a
request get different answers (execution.py:307). The first copies the outbox into
`snapshots` (158-161), the second puts the copy back (166-171), and dispatchers and
the clock take any steps in between. `refusals` counts them, up to `MaxRefusals`.
A unit that commits restores nothing, so `Enqueue` alone stands for it. Each refusal of
these units comes before they enqueue anything, and the service's lock lets one run at
a time, so no record is enqueued between the two ends. `MaxRefusals = 0` is an outbox whose
lock the unit of work holds, like the control plane's.

In `Notifications`, `Deliver` is the provider's answer, and `Finalize` is the
second transaction, with its branches for an accepted, a retryable and a permanent
answer. `transition` returns a record that is dead-lettered already before it looks
at version or lease. So where a raised limit has left an enqueued notification with
such a record (`SetApart`), a worker that lost its claim long ago and comes with a
final failure still ends the notification, with a dead letter of its own, older
number. All dispatches of this service are inside its units of work, whose lock they
share, so refusals undo nothing here. All workers use one `worker_id`, as the constructor's default has it.
A service may be restarted with another `max_attempts` at any time, and stored
records keep theirs: each step of `Notifications` runs under any limit of `Limits`,
which covers every sequence of redeployments, and old and new services side by side.

### AuditChain and AuditTrail

A hash is modelled as the list of everything it covers, from the first entry of
the stream on: two hashes are equal exactly if what was hashed is. `Contents` stands
for action, outcome, time, request, actor and attributes of an entry. `append`,
`append_source_event` and `set_retention` are single steps; `checkpoint` and `export`
are a read, which verifies the whole stream, and a create in a second unit of work.
`Damage` is not an operation of the service: it alters, renumbers or removes a stored
entry, which is what `verify`, `verify_checkpoint` and `verify_export` are there to
notice. `Taken` is the sequence of the entries at the positions that a condition
selects, listed in their order (`InOrder`); it says what `SelectSeq` says, in a form
that the provers can expand. A checkpoint of the model also carries the entries it covers and an export
the entries it was handed out with, so that properties can name them.

In `AuditTrail` a published record calls `RecordSource` or `ReplaySource`, after
which the dispatcher may hear of it or not; or the audit service fails, or refuses
another event under a known id, and the dispatcher sees an exception.

### Analytics

`IngestCheck` reads the clock and compares the event with the limits for late and
future events (service.py:18-20); `IngestCommit` is the unit of work, which stores
the event with the time that was read, the idempotency record and the outbox record.
A known key is a replay or a refusal and changes nothing. `SnapshotRead` aggregates,
`SnapshotPut` stores. A group is the product, region and type that are counted
together. The two exports only read.

### Pricing and Routing

Both are operators, without state. `Charge` rounds each token count up on its own and
adds the fixed price; `ActiveAt` is the card that `active_at` returns, and `Addable`
what `add` accepts. `Route` is the sequence of the route's provider and its fallback;
the sort of `load_config` by priority and id is the order by priority, as priorities
are distinct. The allowed models of a policy are not compared by the router, but by
the gateway before it.

### CircuitBreaker

`circuits[p]` is `_CircuitState`, with the ticks until a reset in place of the
opening time; `executions[e]` is where one call of `execute` stands. `_available`,
`_success` and `_failure` hold the lock and are one step each, while the provider's
call and the sleep lie between steps. `Retry` is the condition of resilience.py:96,
which looks at the circuit only if it gets that far, and resets it if it may.

### Storage

Each mutation is one action. `Stage` is the blob provider, which takes what a
client uploads whenever it likes, before or after finalization, right or wrong.
A session's classification counts as governed (restricted or regulated) or not.
`authorize_download` is `DownloadObject`, `DownloadPolicies`, `DownloadScans` and
`DownloadGrant`, with anything in between. The model is of one tenant: no operation
crosses tenants, because each refuses a record of another one.

The retention written by `initiate_upload` must be the object's first policy
(service.py:53 expects version zero). So at most one session of an object can carry
a retention, and since sessions for restricted and regulated objects must carry
one, such an object never gets a second version through a governed session.

### ControlPlane

A call is authorized, reads, and commits in separate steps; `calls[c]` holds its
request and the record it will store. `StatusRead`, `StatusAuthorize` and
`StatusCommit` are the parts of `set_tenant_status`, which reads the tenant again in
its unit of work, while `TargetRead` and `MemberRead` compute the new membership
before `MembershipCommit` compares versions. Permissions are those that guard a
mutation. Products and models behave alike, so both are items.

## What is checked

Passing runs (TLC explores every reachable state of the instance):

| Run | Shows | Instance |
|---|---|---|
| `MCBillingReservations` | balances, ledger, reservations and usage agree, and billing implements `CreditHolds`, whatever public and gateway operations race | 2 callers, 2 requests, 3 credits, charges 1 and 2 |
| `MCBillingWhole` | credit moves only under a new idempotency record, a stale write is refused, final states are final | every operation, 2 callers, 1 request, expiry, overrides |
| `MCAuditTrail` | acknowledgement follows acceptance, acknowledged events are in the trail exactly once, attempts are bounded, claims are exclusive until a refusal, final states change by a refusal only, abandoned and undone work is resolved or left in its last claim | 2 workers under one name, 2 records whose events share an id, 2 attempts, 1 refusal |
| `MCAuditChain` | undamaged streams verify, checkpoints tell, exports verify, a source is recorded once | 3 entries of 2 contents, 2 events of one id, 1 caller, 2 damages, 1 checkpoint, 1 export |
| `MCAnalytics` | events accepted once and in time, snapshots can be computed again, windows close | 3 events, 2 tenants, 2 keys, 2 request ids, 2 callers, 2 adjacent windows, time 0 to 3 |
| `MCNotificationsDispatch` | notification and record in step, history, finality; every notification is resolved | 3 workers, 1 notification, `max_attempts` 2 and 3, 2 template versions |
| `MCGatewayRetries` | charge, answers and events agree; stored results are captured, failures released | 3 clients of one request, one with other input, two of which keep retrying; 2 results, 2 failures; 2 rate cards; expiry |
| `MCCircuitBreaker` | a circuit closes only for a reason and cools down; executions end | 3 executions with the routes of 3 requests, 2 providers, 2 attempts, threshold 2, reset after 2 ticks |
| `MCStorage` | uploads are numbered versions, scanner reports count once, downloads are justified, retention is kept | 1 object, 2 uploads, 2 scanner reports, 1 client, 2 ticks, 2 deadlines |
| `MCControlPlane` | no lost update, no self-promotion, reactivation, whole tenants, recorded grants | 2 callers, a platform and a tenant administrator, 2 roles, 2 items, versions up to 3 |

Runs that find a documented promise broken (each checks one property):

| Run | What happens |
|---|---|
| `MCBillingAnticipated` | `capture` writes back a snapshot under a version it did not read: the caller sends the version that a concurrent commit is about to produce, and more is captured and released than was reserved (service.py:333, ADR 0004:16) |
| `MCGatewayStarved` | a retry is denied for lack of the credit that its own reservation holds (ADR 0004:26) |

Further properties are stated in the modules and fail; a configuration that
differs from a run of this directory shows it:

- `Exclusive` of `Outbox` (`MCAuditTrail`): a unit of work of the outbox's owner is
  refused after a dispatcher has claimed a record; the claim is undone, and another
  dispatcher claims the record under the same version while the first is publishing
  (execution.py:166, README.md:68 has "exclude concurrent processing");
- `EventuallyResolved` of `Outbox` (`MCAuditTrail`): a record whose last permitted
  dispatch was abandoned stays claimed for ever, as `claim` refuses it and the
  dispatcher reconciles nothing (ADR 0005:22 has "poison events become visible dead
  letters"); `ResolvedOrStuck` is what does hold;
- `Aligned` (`MCNotificationsDispatch`): after `max_attempts` was raised, the record
  of an enqueued notification is dead-lettered by its own, older limit (README.md:62);
  `InStep` says how far the two may differ;
- `SnapshotsRepeat` (`MCAnalytics`): a snapshot of what was counted before is refused
  at another time, since its id is that of the stored one and its time of creation is
  not (ADR 0005:18 has "immutable snapshot hashes preserve reproducibility");
- `ResultsCaptured` with a price above `Estimate` (`MCGatewayRetries` with a card of
  rate 1000 and amounts up to 3): the reservation cannot cover the charge, the capture
  is refused at each retry, and the reservation expires;
- `ClosedForGood` (`MCBillingWhole` with `Lookahead = 1`): a closed account is
  reopened, as in `MCBillingAnticipated`;
- `ClosedTakesNoDebit` (`MCBillingWhole`): an operation that saw the account open
  debits it after it was closed (SECURITY.md:59);
- `ProviderCalledOnce` (`MCGatewayRetries` with `MaxCalls = 2`): concurrent executions both call the
  provider (ROADMAP.md:36);
- `ResultsCaptured` with `RequestOf <- OwnTenant` and two tenants: two tenants with
  one request id share a usage event id, and one result is never captured;
- `NoSilentOverwrite` and `NoSelfPromotion` (`MCControlPlane` with `Lookahead = 1`):
  as in billing, a membership computed from an older read is stored under an
  anticipated version (service.py:238, ADR 0003:10), and with it roles that were
  revoked in between.

The type invariant of every module with state is proved, and no configuration lists
it. Nor does one list `OpenIffFailing` of `CircuitBreaker`, that a circuit is open
exactly when its failures have reached the threshold, which `OpenAgrees` proves.

### Bounds

`Lookahead` bounds how far ahead of the stored version the version may be that a
caller sends when it starts. It is 0 in the passing runs: callers send a version that
they may have read. The violations above need 1.

Two callers and the gateway give every overlap of two public operations with a
third one. Versions, the clock and the number of keys are capped in guards
(`MaxVersion`, `MaxNow`, `Keys`). Charges of 1 and 2 out of reservations of 1 and 2
give full and partial captures and releases, and a fund of 3 makes two reservations
of 2 exceed it. One key for all operations of a kind allows a first call, a replay
and a clash, and a second key another call. A lease of one tick expires between any
two steps; two attempts and crashes let a late outbox worker meet a newer
claim, besides the one that a refusal gave out again. One refusal undoes any stretch of
the outbox's work.
Three notification workers meet newer claims at one limit, while the other limit raises
it. A third client with other input exercises every refusal by fingerprint.
In `MCBillingWhole` reservations expire at time 1, which the clock reaches, or at 2, which
it does not; the other billing runs leave the clock at 0.

Three executions are enough to open a circuit with two, and have the third answer
after it opened, was reset, or opened again; two providers are enough for fallback.
Two uploads of one object race for a number and make a newer version during a
download; two scanner reports in two ticks are ordered by time or by id. Deadlines
of 2 and 3 lie in the clock's reach and beyond it. In the control plane the tenant
administrator may lose his role, his membership, his place in the directory or his
tenant between the steps of his own call; version 3 allows two changes after
creation, so that a stale write finds one that came in between.

Streams of three entries have a first, an inner and a last one, and two damages can
renumber an entry and remove the one whose place it takes; exports of every range are
made. One caller is enough for checkpoints and exports, as appends, source events and
damages come between its steps. Two source events of one id are the least that can
clash. In `MCAnalytics` the lateness of one tick makes an event of the first window
late at time 3, while a call that began at time 2 still commits it; the event at the
boundary belongs to the second window, and the event of another tenant has the id of
the first one.

Symmetry is used in runs without liveness, over sets that no definition tells
apart: callers, keys, requests, workers and contents. No run has a deadlock check: every instance reaches a state in which all
bounds are used up, or all work is done.

### Fairness

The repository contains neither the scheduler that calls `dispatch` nor the
clients that retry. The liveness runs assume them. Of dispatchers: time passes, a
dispatch that has begun makes its next step unless it crashes, a refused unit of
work ends, and each eligible record is claimed again and again (strong fairness, since leases make claims come
and go). Of the gateway: the clients in `Persistent` retry for ever, each takes its
next step, and from some point on no denial, failing compensation or crash
interrupts them; nothing is assumed of the other clients. Of circuits: the clock
goes on, every provider call returns, because it has a timeout, and every sleep
ends; nobody has to start an execution, and no answer is favoured.

## What is proved

All theorems hold for any values of the constants that satisfy the named
`ASSUME`s of the modules; bounds such as `MaxVersion` or `MaxNow` are any numbers.
Every safety property that a passing run checks is a theorem. Each rests on an
inductive invariant, which says what the calls under way know.

**Billing.** `BillingProofs` proves `TypeOK` first, on its own: it holds for any
expected versions. Most of the other theorems assume `Lookahead = 0`, that is,
callers send versions that existed when their operation began;
`MCBillingAnticipated` shows that they fail without it. The inductive invariant has
two parts. `SnapshotsHold` says, of every call under way, that its snapshot is no
newer than the stored record, equal to it if the versions are equal, and no older
than the version the call expects. So when the commit finds the expected version
stored, the snapshot is the stored record. `Books` is `LedgerMatchesReservations`
with `NothingStranded`. A commit then changes the record it has checked, and the
arithmetic of that one record decides the rest. From this follow `LedgerAgrees`,
`NoCreditStranded`, `ReservationBound`, `StaleWritesRefused`, `SettlementIsFinal`,
and `Refinement`: each action maps to `Credit`, `Hold`, `Draw` or a stutter of
`CreditHolds`. `OncePerKey` needs no assumption: a step that moves credit writes the
idempotency record whose absence was its guard.

The sums over a tenant's reservations and usage events are cardinalities of sets of
units (`Total`), so that a step which changes one summand adds or removes a
known number of units, and nothing is proved by induction over the summands.
`SumsAgree` proves that reserved credit is what the reservations hold and captured
credit what the usage events charge; `CreditConserved`, that only a credit mutation of a
tenant changes what it is worth in available, reserved and spent credit; and
`BooksStayBalanced` combines them to `BooksBalance` under `ReservationSpec`.

**Execution.** `GatewayProofs` takes a reservation through the stages `Unreserved`,
`Held` and then `Charged` or `Returned`: charged only for the stored result, at a
price of a time before it expired, and returned only for the stored failure. What keeps two
executions of one request from settling it both ways is `Follows`: whoever is about to
capture or to compensate has in hand the answer that is stored, and a stored answer
stays. Hence `PaysForTheResult`, `EventsMatchOutcomes` and `FirstAnswerKept`.
`GatewayUsesBilling` is a refinement across the components: each step of an execution
is a step of billing's `ReservationSpec`, with the gateway as its only caller, or a
stutter. So `BillingProofs`, instantiated as `Books`, applies, and `CreditConserved` is
`BooksStayBalanced` of that instance. Nothing is assumed beyond `ExecutionAssumption`:
that amounts are positive, every result has a price at every time, results and failures
differ, and `Ttl` is positive.

**Outbox and audit.** `AuditTrailProofs` proves, of the outbox, `TypeCorrect`,
`AcknowledgedAfterAcceptance`, `ExclusiveClaim` and `ResolutionIsFinal`. The invariant
that carries them is `DispatchesAge`: a published dispatch has its event accepted and,
until something is refused (`refusals = 0`), a dispatch runs on a version that the
record has had, and no two dispatches of a record run on one version. A lease is never
compared: the version alone excludes late workers. So `ExclusiveClaim` says nothing
of what follows a refusal, where `Exclusive` fails. The others do: a copy of the outbox is as sound as the outbox (`CopiesSound`), and
`ResolutionIsFinal` excepts the step that puts one back.
`PublishedWithinAttempts` counts the workers that have claimed a record and not called
the publisher yet (`Due`) with the calls that were made: together they are no more than
the attempts of the record, and once more `MaxAttempts` for each refusal (`Spare`), which
may take all attempts back.

Of the audit service, undamaged streams verify (`StreamsStayVerified`), a source event
has one record and one entry (`SourcesRecordedOnce`), no operation of the service
changes a stored entry, and nothing takes back a recorded source, a checkpoint or an
export (`AppendOnly`). The properties are inductive together with the
types and `OwnEntries`: the entry of a record belongs to the tenant of its source, so
that the step which appends to one tenant's stream leaves the others' records alone.
Each append is reduced to the lemma that a chain which verifies still does with its
next entry.

`CheckpointsStayTelling` and `ExportsStayVerified` hold for streams of any length and
any damage. A checkpoint is made of a chain that verified when it was read (`Covers`).
Two chains of one length that end in one hash are equal (`HashTells`, by induction from
the last entry to the first), and the one entry that stands at the checkpoint's sequence is the
last of those up to it. An export is a stretch of such a chain (`Given`): in a chain
that verifies, the entries of a range of sequences stand next to each other, and
listing them in their order yields them as they stand (`InOrderLists`, `TakenStretch`).
The induction is `Counting`, over a set of numbers instead of a formula, from the
library's fact that the naturals are well-founded.

`TrailImplementsOutbox` and `TrailImplementsAudit` show that publishing to the audit
service keeps all of this: each step of `AuditTrail` is a step of `Outbox` or a
stutter, and a step of `AuditChain` or a stutter. `AuditedOnce` proves
`AuditedExactlyOnce` of the composition. What was published is recorded (`Heard`), and
acknowledgement follows publication; what is recorded belongs to a record that was
enqueued (`Enqueued`), which needs that a dispatch under way found one (`Dispatched`)
and that no copy of the outbox misses it (`CopiesMade`); and every stream is as long as the records of its tenant
are many (`EachOnce`), because a source that is known appends nothing.

**Notifications.** `NotificationProofs` proves `StaysInStep`, `HistoriesTell` and
`ResolutionIsFinal` for any number of notifications and workers and any limits. What is
to be shown of a notification depends on its own stores only, so each action is judged
at the one it is about. The invariant adds what a worker knows (`Knows`): the version
it claimed is not newer than the stored one, and if they are equal its attempt is the
last one counted. So an answer that comes after a cancellation or another claim finds
another version and changes nothing, with one exception: the final failure of an older
claim ends a notification that was set apart (see `Finalize`). Its number is one that
the record has counted, and no other final attempt is stored, which is what
`HistoryTells` claims of it (`Recording`).

**Circuit breaker.** `CircuitProofs` proves `TypeCorrect`, `OpenAgrees` and
`ClosesInTime`, for any number of executions and providers, any order and any policy.
`OpenIffFailing` is inductive together with the types: a late failure keeps an open
circuit open because its count is already at the threshold, and a reset clears count and
opening at once.

**Analytics.** `AnalyticsProofs` proves `EventsAcceptedOnce`,
`SnapshotsStayReproducible` and `WindowsStayClosed`. The invariant adds to
`AcceptedOnce` that every ingestion under way was in time at a clock reading that is not
in the future (`InTimeCalls`), and that the points of a snapshot, taken or stored, are
those of the stored events with the ids of its basis (`PointsBased`), which an append
can only keep. A closed window then takes no commit: the event of the call was not late
when the call read the clock, and so lies behind the window's end.

**Control plane.** `ControlPlaneProofs` proves `TenantsStayWhole` and
`GrantsStayRecorded` for any expected versions, and `OverwritesRefused`,
`NobodyPromotesHimself` and `OnlyPlatformMayReactivate` for `Lookahead = 0`. The latter
rest on the invariant `Current`, the counterpart of `SnapshotsHold`: if the version that
a call expects is still the stored one, then the record that the call was computed from
is the stored one too, and with it the authorization, which depended on that record.
`NobodyPromotesHimself` also assumes what holds of the built-in catalog, that a role
that may manage roles has every permission.

**Storage.** `StorageProofs` proves `HistoriesAddUp`, `GrantsStayJustified` and
`PromisesKept`. Its invariant has one part for each kind of record: a version is its
upload's and each number has one (`VersionsOwn`), the outbox tells versions and infected
scans (`EventsTell`), among the scans of a version one is the last (`ScansOrdered`), a
policy is no weaker than any session asked unless it was overridden (`Promised`), and
what a download has found so far is still so (`ReadsHold`): versions, policies and clean
scans are never taken back, whatever comes between the four reads.

**Pricing.** `BillingProofs` also proves, for all quantities and rates, that a charge is
the least whole amount not below the exact price (`RoundsUp`), that a usage in two
captures costs no less than in one and at most the fixed price and two microunits more
(`PartsCost`), and that at most one card is active at a time if the repository accepted
them all (`OneActive`).

**Only model-checked:** the liveness properties, which are outside the prover's reach
(`ResolvedOrStuck`, `EventuallyResolved`, `ResultsCaptured`, `FailuresReleased`,
`CoolsDown`, `ExecutionsEnd`). The operators of `Routing` are neither, beyond the routes
that the circuit breaker's run takes from them.

## What is not modelled

- HTTP applications (`app.py` of each service, `data_service_http.py`): they parse a
  request, call one operation of a service and map its errors; they keep no state, and
  what they refuse changes none.
- Authentication, the gateway's authorization and content safety: decisions on one
  request, which appear as refusals, or as a failing answer in `GatewayExecution`. The
  control plane's own authorization is modelled, because it reads what its operations
  change.
- Provider adapters and transport: I/O with external services; a call is an answer or
  a failure, after any time.
- Parsing of configuration, secrets, audit log output, validation tools: read-only, or
  written where no part of the platform reads it.
- Validation and serialization of the contracts' fields: the models' inputs satisfy
  them. A fingerprint or a deterministic id is modelled by what it tells apart.
- Reading operations (lists, lookups, the exports of analytics): they change nothing;
  what they return is a store of the model.
- Who may call the operations of storage, audit, analytics and notifications: a
  refusal. `Storage` and `Notifications` are of one tenant, because every operation
  refuses a record of another one; the other modules have any number, of which most
  runs take one, and `MCAnalytics`, where ids are shared, two.
- Persistence: the repository has only in-memory repositories. A crash in the models
  ends a call between two units of work and keeps the stores; the loss of a whole
  store is not something the code recovers from.
