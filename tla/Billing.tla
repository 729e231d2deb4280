------------------------------- MODULE Billing -------------------------------
(***************************************************************************)
(* The billing service (services/platform_billing): accounts, the credit   *)
(* ledger, reservations, usage events and idempotency records.             *)
(*                                                                         *)
(* A public operation reads what it needs in a few separate steps and      *)
(* commits in one unit of work guarded by the versions its caller sent:    *)
(* calls[c] is the operation that caller c has under way, and other        *)
(* callers take steps between its read and its commit. A gateway operation *)
(* does all its reading inside its unit of work and is one step.           *)
(* A unit of work holds every repository lock, so a commit is one step; a  *)
(* refusal, a replay, a repository failure and a crash leave every store   *)
(* as it was (Abandon).                                                    *)
(***************************************************************************)
EXTENDS Integers, FiniteSets

CONSTANTS
    Tenants, Requests,  \* tenant ids, request ids
    Usages,             \* usage event ids; a gateway capture uses its request's
    Callers,            \* concurrent callers of the public operations
    Keys,               \* idempotency keys that callers choose
    Amounts,            \* amounts of reservations, charges and grants
    Funds,              \* credit of each tenant, where accounts are funded at first
    Expiries,           \* times at which reservations expire
    Overrides,          \* whether captures carry administrative_override
    Lookback, Lookahead, \* how far behind and ahead of the version stored when
                        \* the operation starts its expected version may be
    MaxNow, MaxVersion  \* bounds of the clock and of every version

ASSUME BillingAssumption ==
    /\ Requests \subseteq Usages
    /\ Amounts \subseteq Nat \ {0} /\ Funds \in Nat
    /\ Expiries \subseteq Nat /\ Overrides \subseteq BOOLEAN
    /\ Lookback \in Nat /\ Lookahead \in Nat
    /\ MaxNow \in Nat /\ MaxVersion \in Nat

VARIABLES
    account,       \* account[t]: [status, version]
    ledger,        \* ledger[t]: balance derived from t's ledger entries
    posted,        \* posted[r]: sums of the entries that refer to r
    reservations,  \* reservations[r]: the stored CreditReservation
    usage,         \* the stored UsageEvents
    idem,          \* scopes and keys that have an idempotency record
    calls,         \* calls[c]: the public operation of caller c
    now            \* the clock

vars == <<account, ledger, posted, reservations, usage, idem, calls, now>>

\* _id("reservation", "{tenant_id}:{request_id}"): the pair itself.
Rids == Tenants \X Requests

AccountStatuses == {"active", "suspended", "closed"}
NoAccount == [status |-> "none", version |-> 0]
Account == {NoAccount} \cup [status : AccountStatuses, version : Nat]

Open == {"active", "partially_captured"}
Settled == {"captured", "released"}
Reservation ==
    [status : {"none"} \cup Open \cup Settled, estimated : Nat, captured : Nat,
     released : Nat, expires : Nat, version : Nat]
NoReservation ==
    [status |-> "none", estimated |-> 0, captured |-> 0, released |-> 0,
     expires |-> 0, version |-> 0]

UsageEvent == [id : Usages, rid : Rids, charge : Nat]
Operations == {"account", "grant", "adjust", "reserve", "capture", "release",
               "gateway_reserve", "gateway_capture", "gateway_release"}
Scopes == Operations \X Tenants \X (Keys \cup Requests)

\* A call under way: its request, and what it has read so far.
Idle == [op |-> "none", stage |-> "idle"]
StatusCall ==
    [op : {"status"}, stage : {"read"}, t : Tenants, status : AccountStatuses,
     version : Nat, snap : Account]
CreditCall ==
    [op : {"grant", "adjust"}, stage : {"checked"}, t : Tenants, key : Keys,
     delta : Int, balance : Nat]
ReserveCall ==
    [op : {"reserve"}, stage : {"checked"}, rid : Rids, key : Keys,
     amount : Amounts, expires : Nat, balance : Nat]
CaptureCall ==
    [op : {"capture"}, stage : {"read", "checked"}, rid : Rids, key : Keys,
     usage : Usages, charge : Amounts, override : BOOLEAN, version : Nat,
     balance : Nat, snap : Reservation]
ReleaseCall ==
    [op : {"release"}, stage : {"read", "checked"}, rid : Rids, key : Keys,
     version : Nat, balance : Nat, snap : Reservation]
Call == {Idle} \cup StatusCall \cup CreditCall \cup ReserveCall
               \cup CaptureCall \cup ReleaseCall

Init ==
    /\ account = [t \in Tenants |-> NoAccount]
    /\ ledger = [t \in Tenants |-> [available |-> 0, reserved |-> 0, version |-> 1]]
    /\ posted = [r \in Rids |-> [held |-> 0, charged |-> 0]]
    /\ reservations = [r \in Rids |-> NoReservation]
    /\ usage = {}
    /\ idem = {}
    /\ calls = [c \in Callers |-> Idle]
    /\ now = 0

\* Every tenant has an active account with Funds credits, as after
\* create_account and one grant_credits.
FundedInit ==
    /\ account = [t \in Tenants |-> [status |-> "active", version |-> 1]]
    /\ ledger = [t \in Tenants |-> [available |-> Funds, reserved |-> 0, version |-> 2]]
    /\ posted = [r \in Rids |-> [held |-> 0, charged |-> 0]]
    /\ reservations = [r \in Rids |-> NoReservation]
    /\ usage = {}
    /\ idem = {}
    /\ calls = [c \in Callers |-> Idle]
    /\ now = 0

-----------------------------------------------------------------------------
\* Helpers

Remaining(res) == res.estimated - res.captured - res.released
Expired(res) == res.expires <= now

\* The versions a caller may send for an aggregate stored at version v.
Expectable(v) == {n \in v - Lookback .. v + Lookahead : n >= 1}

\* ledger.append: n entries that move available and reserved credit of t.
Append(t, n, available, reserved) ==
    /\ ledger[t].version + n <= MaxVersion
    /\ ledger[t].available + available >= 0
    /\ ledger[t].reserved + reserved >= 0
    /\ ledger' = [ledger EXCEPT ![t] =
                    [available |-> @.available + available,
                     reserved  |-> @.reserved + reserved,
                     version   |-> @.version + n]]

\* The same entries, summed by the reservation they refer to.
Post(r, held, charged) ==
    posted' = [posted EXCEPT ![r] = [held    |-> @.held + held,
                                     charged |-> @.charged + charged]]

\* Faulty: an idempotency key that is looked up but not written.
OnceUnwritten(op, t, key) == <<op, t, key>> \notin idem /\ idem' = idem

\* idempotency.get finds nothing and idempotency.put records the result.
Once(op, t, key) ==
    /\ <<op, t, key>> \notin idem
    /\ idem' = idem \cup {<<op, t, key>>}

\* Faulty: a usage event that is dropped when its id exists.
RecordUsageSilently(id, r, charge) ==
    usage' = IF \E u \in usage : u.id = id
             THEN usage ELSE usage \cup {[id |-> id, rid |-> r, charge |-> charge]}

RecordUsage(id, r, charge) ==
    /\ \A u \in usage : u.id # id
    /\ usage' = usage \cup {[id |-> id, rid |-> r, charge |-> charge]}

\* Faulty updates of a reservation: captures that are not added up or never
\* complete it, and a settlement that gives nothing back.
AfterCaptureLast(res, charge) ==
    [res EXCEPT !.captured = charge, !.status = "partially_captured", !.version = @ + 1]
AfterCapturePartial(res, charge) ==
    [res EXCEPT !.captured = @ + charge, !.status = "partially_captured", !.version = @ + 1]
AfterSettleHolding(res, charge) ==
    [res EXCEPT !.captured = @ + charge, !.status = "released", !.version = @ + 1]

\* The reservation as reserve, capture and release write it.
NewReservation(amount, expires) ==
    [status |-> "active", estimated |-> amount, captured |-> 0, released |-> 0,
     expires |-> expires, version |-> 1]
AfterCapture(res, charge) ==
    [res EXCEPT !.captured = @ + charge,
                !.status = IF res.captured + charge = res.estimated
                           THEN "captured" ELSE "partially_captured",
                !.version = @ + 1]
AfterSettle(res, charge) ==
    LET unused == Remaining(res) - charge IN
    [res EXCEPT !.captured = @ + charge,
                !.released = @ + unused,
                !.status = IF unused = 0 THEN "captured" ELSE "released",
                !.version = @ + 1]
AfterRelease(res) ==
    [res EXCEPT !.released = @ + Remaining(res), !.status = "released",
                !.version = @ + 1]

-----------------------------------------------------------------------------
\* Accounts

CreateAccount(t, key) ==
    /\ Once("account", t, key)
    /\ account[t] = NoAccount
    /\ account' = [account EXCEPT ![t] = [status |-> "active", version |-> 1]]
    /\ UNCHANGED <<ledger, posted, reservations, usage, calls, now>>

\* set_account_status reads the account, and only then asks the repository
\* to replace it under the version the caller expects.
StatusRead(c, t, status, version) ==
    /\ calls[c] = Idle
    /\ account[t].status \notin {"none", "closed", status}
    /\ calls' = [calls EXCEPT ![c] =
                   [op |-> "status", stage |-> "read", t |-> t, status |-> status,
                    version |-> version, snap |-> account[t]]]
    /\ UNCHANGED <<account, ledger, posted, reservations, usage, idem, now>>

\* Faulty: a status that is replaced without comparing versions.
StatusCommitUnchecked(c) ==
    LET call == calls[c] IN
    /\ call \in StatusCall
    /\ call.version < MaxVersion
    /\ account' = [account EXCEPT ![call.t] =
                     [status |-> call.status, version |-> call.snap.version + 1]]
    /\ calls' = [calls EXCEPT ![c] = Idle]
    /\ UNCHANGED <<ledger, posted, reservations, usage, idem, now>>

StatusCommit(c) ==
    LET call == calls[c] IN
    /\ call \in StatusCall
    /\ account[call.t].version = call.version
    /\ call.version < MaxVersion
    /\ account' = [account EXCEPT ![call.t] =
                     [status |-> call.status, version |-> call.snap.version + 1]]
    /\ calls' = [calls EXCEPT ![c] = Idle]
    /\ UNCHANGED <<ledger, posted, reservations, usage, idem, now>>

-----------------------------------------------------------------------------
\* Credit: grant_credits and adjust_credits; refund has the shape of a grant
\* under a scope of its own.

CreditCheck(c, op, t, key, delta, balance) ==
    /\ calls[c] = Idle
    /\ <<op, t, key>> \notin idem
    /\ op = "grant" => delta > 0
    /\ account[t] # NoAccount
    /\ account[t].status = "closed" => delta > 0
    /\ calls' = [calls EXCEPT ![c] =
                   [op |-> op, stage |-> "checked", t |-> t, key |-> key,
                    delta |-> delta, balance |-> balance]]
    /\ UNCHANGED <<account, ledger, posted, reservations, usage, idem, now>>

CreditCommit(c) ==
    LET call == calls[c] IN
    /\ call \in CreditCall
    /\ Once(call.op, call.t, call.key)
    /\ ledger[call.t].version = call.balance
    /\ Append(call.t, 1, call.delta, 0)
    /\ calls' = [calls EXCEPT ![c] = Idle]
    /\ UNCHANGED <<account, posted, reservations, usage, now>>

-----------------------------------------------------------------------------
\* Reservations through the public operations

ReserveCheck(c, r, key, amount, expires, balance) ==
    /\ calls[c] = Idle
    /\ <<"reserve", r[1], key>> \notin idem
    /\ account[r[1]].status = "active"
    /\ expires > now
    /\ calls' = [calls EXCEPT ![c] =
                   [op |-> "reserve", stage |-> "checked", rid |-> r, key |-> key,
                    amount |-> amount, expires |-> expires, balance |-> balance]]
    /\ UNCHANGED <<account, ledger, posted, reservations, usage, idem, now>>

ReserveCommit(c) ==
    LET call == calls[c]  r == call.rid IN
    /\ call \in ReserveCall
    /\ Once("reserve", r[1], call.key)
    /\ reservations[r] = NoReservation
    /\ ledger[r[1]].version = call.balance
    /\ Append(r[1], 1, -call.amount, call.amount)
    /\ Post(r, call.amount, 0)
    /\ reservations' = [reservations EXCEPT ![r] =
                          NewReservation(call.amount, call.expires)]
    /\ calls' = [calls EXCEPT ![c] = Idle]
    /\ UNCHANGED <<account, usage, now>>

\* capture and release take their reservation before anything else.
CaptureRead(c, r, key, usageId, charge, override, version, balance) ==
    /\ calls[c] = Idle
    /\ reservations[r] # NoReservation
    /\ calls' = [calls EXCEPT ![c] =
                   [op |-> "capture", stage |-> "read", rid |-> r, key |-> key,
                    usage |-> usageId, charge |-> charge, override |-> override,
                    version |-> version, balance |-> balance,
                    snap |-> reservations[r]]]
    /\ UNCHANGED <<account, ledger, posted, reservations, usage, idem, now>>

CaptureCheck(c) ==
    LET call == calls[c] IN
    /\ call \in CaptureCall /\ call.stage = "read"
    /\ <<"capture", call.rid[1], call.key>> \notin idem
    /\ account[call.rid[1]].status = "active"
    /\ call.snap.status \in Open
    /\ ~Expired(call.snap) \/ call.override
    /\ call.charge <= Remaining(call.snap)
    /\ calls' = [calls EXCEPT ![c].stage = "checked"]
    /\ UNCHANGED <<account, ledger, posted, reservations, usage, idem, now>>

CaptureCommit(c) ==
    LET call == calls[c]  r == call.rid IN
    /\ call \in CaptureCall /\ call.stage = "checked"
    /\ Once("capture", r[1], call.key)
    /\ reservations[r].version = call.version
    /\ call.version < MaxVersion
    /\ RecordUsage(call.usage, r, call.charge)
    /\ ledger[r[1]].version = call.balance
    /\ Append(r[1], 1, 0, -call.charge)
    /\ Post(r, -call.charge, call.charge)
    /\ reservations' = [reservations EXCEPT ![r] = AfterCapture(call.snap, call.charge)]
    /\ calls' = [calls EXCEPT ![c] = Idle]
    /\ UNCHANGED <<account, now>>

ReleaseRead(c, r, key, version, balance) ==
    /\ calls[c] = Idle
    /\ reservations[r] # NoReservation
    /\ calls' = [calls EXCEPT ![c] =
                   [op |-> "release", stage |-> "read", rid |-> r, key |-> key,
                    version |-> version, balance |-> balance,
                    snap |-> reservations[r]]]
    /\ UNCHANGED <<account, ledger, posted, reservations, usage, idem, now>>

ReleaseCheck(c) ==
    LET call == calls[c] IN
    /\ call \in ReleaseCall /\ call.stage = "read"
    /\ <<"release", call.rid[1], call.key>> \notin idem
    /\ call.snap.status \in Open
    /\ Remaining(call.snap) > 0
    /\ calls' = [calls EXCEPT ![c].stage = "checked"]
    /\ UNCHANGED <<account, ledger, posted, reservations, usage, idem, now>>

ReleaseCommit(c) ==
    LET call == calls[c]  r == call.rid  rest == Remaining(call.snap) IN
    /\ call \in ReleaseCall /\ call.stage = "checked"
    /\ Once("release", r[1], call.key)
    /\ reservations[r].version = call.version
    /\ call.version < MaxVersion
    /\ ledger[r[1]].version = call.balance
    /\ Append(r[1], 1, rest, -rest)
    /\ Post(r, -rest, 0)
    /\ reservations' = [reservations EXCEPT ![r] = AfterRelease(call.snap)]
    /\ calls' = [calls EXCEPT ![c] = Idle]
    /\ UNCHANGED <<account, usage, now>>

\* A refusal, a replay, a rolled-back repository failure, or a crash.
Abandon(c) ==
    /\ calls[c] # Idle
    /\ calls' = [calls EXCEPT ![c] = Idle]
    /\ UNCHANGED <<account, ledger, posted, reservations, usage, idem, now>>

-----------------------------------------------------------------------------
\* Reservations through the gateway operations: one unit of work each, under
\* an idempotency key made from the request id.

GatewayReserve(r, amount, expires) ==
    /\ Once("gateway_reserve", r[1], r[2])
    /\ account[r[1]].status = "active"
    /\ expires > now
    /\ reservations[r] = NoReservation
    /\ Append(r[1], 1, -amount, amount)
    /\ Post(r, amount, 0)
    /\ reservations' = [reservations EXCEPT ![r] = NewReservation(amount, expires)]
    /\ UNCHANGED <<account, usage, calls, now>>

\* The usage event of a gateway capture is named by the request id alone.
GatewayCapture(r, charge) ==
    LET res == reservations[r]  unused == Remaining(res) - charge IN
    /\ <<"gateway_reserve", r[1], r[2]>> \in idem
    /\ Once("gateway_capture", r[1], r[2])
    /\ account[r[1]].status = "active"
    /\ res.status \in Open
    /\ ~Expired(res)
    /\ charge <= Remaining(res)
    /\ res.version < MaxVersion
    /\ RecordUsage(r[2], r, charge)
    /\ Append(r[1], IF unused = 0 THEN 1 ELSE 2, unused, -charge - unused)
    /\ Post(r, -charge - unused, charge)
    /\ reservations' = [reservations EXCEPT ![r] = AfterSettle(res, charge)]
    /\ UNCHANGED <<account, calls, now>>

GatewayRelease(r) ==
    LET res == reservations[r]  rest == Remaining(res) IN
    /\ <<"gateway_reserve", r[1], r[2]>> \in idem
    /\ Once("gateway_release", r[1], r[2])
    /\ res.status \in Open
    /\ rest > 0
    /\ res.version < MaxVersion
    /\ Append(r[1], 1, rest, -rest)
    /\ Post(r, -rest, 0)
    /\ reservations' = [reservations EXCEPT ![r] = AfterRelease(res)]
    /\ UNCHANGED <<account, usage, calls, now>>

Tick ==
    /\ now < MaxNow
    /\ now' = now + 1
    /\ UNCHANGED <<account, ledger, posted, reservations, usage, idem, calls>>

-----------------------------------------------------------------------------
AccountNext(c) ==
    \/ \E t \in Tenants, status \in AccountStatuses :
        \E version \in Expectable(account[t].version) : StatusRead(c, t, status, version)
    \/ StatusCommit(c)
    \/ \E t \in Tenants, key \in Keys, op \in {"grant", "adjust"}, amount \in Amounts :
        \E delta \in {amount, -amount}, balance \in Expectable(ledger[t].version) :
            CreditCheck(c, op, t, key, delta, balance)
    \/ CreditCommit(c)

ReservationNext(c) ==
    \/ \E r \in Rids, key \in Keys, amount \in Amounts, expires \in Expiries :
        \E balance \in Expectable(ledger[r[1]].version) :
            ReserveCheck(c, r, key, amount, expires, balance)
    \/ ReserveCommit(c)
    \/ \E r \in Rids, key \in Keys, usageId \in Usages, charge \in Amounts,
          override \in Overrides :
        \E version \in Expectable(reservations[r].version),
           balance \in Expectable(ledger[r[1]].version) :
            CaptureRead(c, r, key, usageId, charge, override, version, balance)
    \/ CaptureCheck(c) \/ CaptureCommit(c)
    \/ \E r \in Rids, key \in Keys :
        \E version \in Expectable(reservations[r].version),
           balance \in Expectable(ledger[r[1]].version) :
            ReleaseRead(c, r, key, version, balance)
    \/ ReleaseCheck(c) \/ ReleaseCommit(c)
    \/ Abandon(c)

GatewayNext ==
    \E r \in Rids :
        \/ \E amount \in Amounts, expires \in Expiries : GatewayReserve(r, amount, expires)
        \/ \E charge \in Amounts : GatewayCapture(r, charge)
        \/ GatewayRelease(r)

Next ==
    \/ \E t \in Tenants, key \in Keys : CreateAccount(t, key)
    \/ \E c \in Callers : AccountNext(c) \/ ReservationNext(c)
    \/ GatewayNext
    \/ Tick

Spec == Init /\ [][Next]_vars

\* Concurrent reservation traffic on funded accounts.
ReservationTraffic == (\E c \in Callers : ReservationNext(c)) \/ GatewayNext \/ Tick
ReservationSpec == FundedInit /\ [][ReservationTraffic]_vars

-----------------------------------------------------------------------------
\* Properties

\* The types of the stores and of the calls under way.
TypeOK ==
    /\ account \in [Tenants -> Account]
    /\ ledger \in [Tenants -> [available : Nat, reserved : Nat, version : Nat]]
    /\ posted \in [Rids -> [held : Int, charged : Nat]]
    /\ reservations \in [Rids -> Reservation]
    /\ usage \subseteq UsageEvent
    /\ idem \subseteq Scopes
    /\ calls \in [Callers -> Call]
    /\ now \in Nat

\* What a checked call knows of its snapshot.
Checked(call) ==
    /\ call \in CaptureCall /\ call.stage = "checked" =>
          call.snap.status \in Open /\ call.charge <= Remaining(call.snap)
    /\ call \in ReleaseCall /\ call.stage = "checked" =>
          call.snap.status \in Open /\ Remaining(call.snap) > 0

\* What a call has read is the stored record or an older version of it, and
\* the version the call expects is no newer than what it has read.
Aged(call) ==
    /\ call \in StatusCall =>
          /\ call.snap.status # "closed"
          /\ call.version <= call.snap.version
          /\ call.snap.version <= account[call.t].version
          /\ call.snap.version = account[call.t].version => call.snap = account[call.t]
    /\ call \in CaptureCall \cup ReleaseCall =>
          /\ call.version <= call.snap.version
          /\ call.snap.version <= reservations[call.rid].version
          /\ call.snap.version = reservations[call.rid].version
                => call.snap = reservations[call.rid]

\* Callers hold what they have checked, and no snapshot outlives its version.
SnapshotsHold == \A c \in Callers : Checked(calls[c]) /\ Aged(calls[c])

\* The ledger and the reservations tell the same story: what the entries
\* hold for a reservation is what it has neither captured nor released, and
\* what they charged for it is what it captured, whatever mixture of public
\* and gateway captures and releases raced for it.
LedgerMatchesReservations ==
    \A r \in Rids :
        /\ posted[r].held = Remaining(reservations[r])
        /\ posted[r].charged = reservations[r].captured

\* A settled reservation holds no credit and an open one holds all that it
\* has not captured, so no credit is stranded behind a reservation that
\* nothing can capture or release.
NothingStranded ==
    \A r \in Rids : LET res == reservations[r] IN
        IF res.status \in Open THEN res.released = 0 /\ Remaining(res) > 0
                               ELSE Remaining(res) = 0

\* The sum of f over S, as the number of units that f counts out to S.
Units(f, S) == UNION {{x} \X (1 .. f[x]) : x \in S}
Total(f, S) == Cardinality(Units(f, S))

RidsOf(t) == {r \in Rids : r[1] = t}
UsageOf(r) == {u \in usage : u.rid = r}
heldOf == [r \in Rids |-> Remaining(reservations[r])]
spentOf == [r \in Rids |-> reservations[r].captured]
chargeOf == [u \in usage |-> u.charge]

\* The books balance: a tenant's reserved credit is what its reservations
\* hold, on funded accounts no credit appears or is lost, and the usage events
\* of a reservation add up to what was captured from it.
ReservedIsHeld == \A t \in Tenants : ledger[t].reserved = Total(heldOf, RidsOf(t))
UsageIsCaptured ==
    \A r \in Rids : Total(chargeOf, UsageOf(r)) = reservations[r].captured
Worth(t) == ledger[t].available + ledger[t].reserved + Total(spentOf, RidsOf(t))
BooksBalance == ReservedIsHeld /\ UsageIsCaptured /\ \A t \in Tenants : Worth(t) = Funds

\* A version names one content: a reservation or an account is replaced only
\* by a record one version on, so that a write computed from an older read is
\* always refused.
NoStaleWrite ==
    [][/\ \A r \in Rids : reservations'[r] # reservations[r]
                           => reservations'[r].version = reservations[r].version + 1
       /\ \A t \in Tenants : account'[t] # account[t]
                           => account'[t].version = account[t].version + 1]_vars

\* A closed account stays closed, and a settled reservation stays as it is,
\* although both are checked before the transaction that replaces them.
SettledForGood ==
    [][/\ \A t \in Tenants : account[t].status = "closed" => account'[t] = account[t]
       /\ \A r \in Rids : reservations[r].status \in Settled
                           => reservations'[r] = reservations[r]]_vars

\* Credit moves only under an idempotency record of its own: no operation is
\* applied twice under one key.
MovesOncePerKey ==
    [][\A t \in Tenants : ledger'[t] # ledger[t]
         => \E op \in Operations \ {"account"}, key \in Keys \cup Requests :
              <<op, t, key>> \in idem' \ idem]_vars

\* The service implements the promise of CreditHolds: the reservations are
\* what it sets aside, although credit is kept in the ledger.
PhaseOf(status) ==
    IF status \in Open THEN "open" ELSE IF status \in Settled THEN "settled" ELSE "none"
availableBar == [t \in Tenants |-> ledger[t].available]
holdBar == [r \in Rids |-> [phase |-> PhaseOf(reservations[r].status),
                            set   |-> Remaining(reservations[r]),
                            spent |-> reservations[r].captured]]
Credits == INSTANCE CreditHolds WITH available <- availableBar, hold <- holdBar
ImplementsCreditHolds == Credits!Spec

\* "Captured plus released credit can never exceed the original reservation",
\* counted by the usage the ledger charged for it.
NeverExceedsReservation ==
    \A r \in Rids :
        posted[r].charged + reservations[r].released <= reservations[r].estimated

\* "closed billing accounts cannot be reopened".
ClosedForGood ==
    [][\A t \in Tenants : account[t].status = "closed" => account'[t].status = "closed"]_vars

\* A closed account takes no debit: its available credit does not fall and
\* nothing more is charged to its reservations.
ClosedTakesNoDebit ==
    [][\A t \in Tenants : account[t].status = "closed" =>
         /\ ledger'[t].available >= ledger[t].available
         /\ \A r \in Rids : r[1] = t => posted'[r].charged = posted[r].charged]_vars
=============================================================================
