------------------------------ MODULE AuditChain ------------------------------
(***************************************************************************)
(* The audit service (services/platform_audit): append-only streams, one   *)
(* per tenant, chained by hashes; source events, checkpoints, exports and  *)
(* the retention policy.                                                   *)
(*                                                                         *)
(* append, append_source_event and set_retention are one unit of work and  *)
(* so one step. checkpoint and export read and verify the stream in one    *)
(* unit of work and store their record in another: calls[c] is what caller *)
(* c has read. A refusal, a rollback and a crash change no store.          *)
(*                                                                         *)
(* The stored streams may be damaged from outside (Damage): that is what   *)
(* verification is there to tell.                                          *)
(***************************************************************************)
EXTENDS Integers, Sequences, FiniteSets

CONSTANTS
    Tenants,
    Contents,    \* what an entry says: action, outcome, time, request, attributes
    Sources,     \* source events: records [id, tenant, content]
    Callers,     \* concurrent callers of checkpoint and export
    Policies,    \* retention policies: retain_until and legal_hold
    MaxLength,   \* bound of a stream's length
    MaxVersion,  \* bound of a retention policy's version
    MaxDamage,   \* how many times a stream is damaged
    MaxCheckpoints, MaxExports \* bounds of the stored checkpoints and manifests

ASSUME AuditAssumption ==
    /\ \A s \in Sources : s.tenant \in Tenants /\ s.content \in Contents
    /\ MaxLength \in Nat /\ MaxVersion \in Nat /\ MaxDamage \in Nat
    /\ MaxCheckpoints \in Nat /\ MaxExports \in Nat

VARIABLES
    streams,      \* streams[t]: the stored entries of tenant t
    recorded,     \* source event ids that are known, with event and entry
    checkpoints,  \* the stored AuditCheckpoints
    exports,      \* the stored AuditExportManifests
    retention,    \* retention[t]: the stored policy
    calls,        \* calls[c]: what caller c has read
    damages       \* how many times a stream was damaged

stores == <<streams, recorded, checkpoints, exports, retention>>
auditVars == <<stores, calls, damages>>

-----------------------------------------------------------------------------
\* Hashes. A digest is as good as what it was computed from: the digest of an
\* entry is the list of everything it depends on, from the first entry on.

ZeroHash == <<>>

EventHash(t, n, content, previous) == Append(previous, <<t, n, content>>)

LastHash(entries) ==
    IF entries = <<>> THEN ZeroHash ELSE entries[Len(entries)].current

\* Faulty: every entry starts a chain of its own.
NextEntryUnchained(t, entries, content) ==
    LET n == Len(entries) + 1 IN
    [tenant |-> t, sequence |-> n, content |-> content,
     previous |-> ZeroHash, current |-> EventHash(t, n, content, ZeroHash)]

\* _append_unchecked: the entry that follows the stored ones.
NextEntry(t, entries, content) ==
    LET n == Len(entries) + 1  previous == LastHash(entries) IN
    [tenant |-> t, sequence |-> n, content |-> content,
     previous |-> previous, current |-> EventHash(t, n, content, previous)]

\* One entry of a chain that starts at sequence first after the hash before.
ChainedAt(t, entries, i, first, before) ==
    LET previous == IF i = 1 THEN before ELSE entries[i - 1].current
        e == entries[i]
    IN  /\ e.tenant = t
        /\ e.sequence = first + i - 1
        /\ e.previous = previous
        /\ e.current = EventHash(t, e.sequence, e.content, previous)

\* _verify_events over everything that was read.
Verifies(t, entries) ==
    \A i \in DOMAIN entries : ChainedAt(t, entries, i, 1, ZeroHash)

\* The entries at some positions of a stream, in their order.
InOrder(I) ==
    CHOOSE at \in [1 .. Cardinality(I) -> I] :
        \A j, k \in 1 .. Cardinality(I) : j < k => at[j] < at[k]
Taken(entries, I) == [k \in 1 .. Cardinality(I) |-> entries[InOrder(I)[k]]]

Through(entries, n) == Taken(entries, {i \in DOMAIN entries : entries[i].sequence <= n})

\* _verify_events through a sequence: no entry of them may be missing.
VerifiesThrough(t, entries, n) ==
    /\ Verifies(t, Through(entries, n))
    /\ Len(Through(entries, n)) = n

\* verify_checkpoint: the chain up to the checkpoint is whole, and exactly one
\* entry stands at its sequence and has its hash.
CheckpointHolds(cp) ==
    LET entries == streams[cp.tenant]
        matching == Taken(entries, {i \in DOMAIN entries : entries[i].sequence = cp.through})
    IN  /\ VerifiesThrough(cp.tenant, entries, cp.through)
        /\ Len(matching) = 1
        /\ matching[1].current = cp.hash

\* verify_export, offline: the manifest against the entries handed over.
ExportVerifies(m, entries) ==
    /\ Len(entries) = m.count
    /\ entries = m.digest
    /\ IF entries = <<>>
       THEN m.first = 0 /\ m.last = 0
       ELSE /\ entries[1].sequence = m.first
            /\ entries[Len(entries)].sequence = m.last
            /\ m.last - m.first + 1 = m.count
            /\ \A i \in DOMAIN entries :
                 ChainedAt(m.tenant, entries, i, m.first,
                           IF m.first = 1 THEN ZeroHash ELSE entries[1].previous)

-----------------------------------------------------------------------------
Unbounded == 0   \* first_sequence or last_sequence is None
NoPolicy == [policy |-> "none", version |-> 0]
Idle == [op |-> "none"]

AuditInit ==
    /\ streams = [t \in Tenants |-> <<>>]
    /\ recorded = {}
    /\ checkpoints = {}
    /\ exports = {}
    /\ retention = [t \in Tenants |-> NoPolicy]
    /\ calls = [c \in Callers |-> Idle]
    /\ damages = 0

\* append
AppendEntry(t, content) ==
    /\ Len(streams[t]) < MaxLength
    /\ streams' = [streams EXCEPT ![t] = Append(@, NextEntry(t, @, content))]
    /\ UNCHANGED <<recorded, checkpoints, exports, retention, calls, damages>>

\* Faulty: a source event that is not looked up.
RecordSourceAgain(s) ==
    LET entry == NextEntry(s.tenant, streams[s.tenant], s.content) IN
    /\ Len(streams[s.tenant]) < MaxLength
    /\ streams' = [streams EXCEPT ![s.tenant] = Append(@, entry)]
    /\ recorded' = recorded \cup {[source |-> s, entry |-> entry]}
    /\ UNCHANGED <<checkpoints, exports, retention, calls, damages>>

\* append_source_event of an event whose id is new.
RecordSource(s) ==
    LET entry == NextEntry(s.tenant, streams[s.tenant], s.content) IN
    /\ \A r \in recorded : r.source.id # s.id
    /\ Len(streams[s.tenant]) < MaxLength
    /\ streams' = [streams EXCEPT ![s.tenant] = Append(@, entry)]
    /\ recorded' = recorded \cup {[source |-> s, entry |-> entry]}
    /\ UNCHANGED <<checkpoints, exports, retention, calls, damages>>

\* append_source_event of the same event again answers with its entry; of
\* another event under its id, it is refused.
ReplaySource(s) ==
    /\ \E r \in recorded : r.source = s
    /\ UNCHANGED auditVars

\* set_retention; there is nothing to compare the first policy's version with.
SetRetention(t, policy, expected) ==
    /\ retention[t] = NoPolicy \/ retention[t].version = expected
    /\ retention[t].version < MaxVersion
    /\ retention' = [retention EXCEPT ![t] =
                       [policy |-> policy, version |-> @.version + 1]]
    /\ UNCHANGED <<streams, recorded, checkpoints, exports, calls, damages>>

-----------------------------------------------------------------------------
\* checkpoint

CheckpointRead(c, t) ==
    /\ calls[c] = Idle
    /\ Verifies(t, streams[t])
    /\ streams[t] # <<>>
    /\ calls' = [calls EXCEPT ![c] =
                   [op |-> "checkpoint", tenant |-> t, entries |-> streams[t]]]
    /\ UNCHANGED <<stores, damages>>

\* Faulty: the hash of the stream as it is now, under the sequence that was read.
CheckpointLatest(call) ==
    [tenant |-> call.tenant, through |-> Len(call.entries),
     hash |-> LastHash(streams[call.tenant]), covered |-> call.entries]

\* The checkpoint names the last entry read; covered is not stored, it is what
\* the checkpoint is about.
CheckpointOf(call) ==
    [tenant |-> call.tenant, through |-> call.entries[Len(call.entries)].sequence,
     hash |-> LastHash(call.entries), covered |-> call.entries]

SameCheckpoint(a, b) == a.tenant = b.tenant /\ a.through = b.through /\ a.hash = b.hash

\* A checkpoint with the same tenant, sequence and hash is a duplicate.
CheckpointCreate(c) ==
    LET call == calls[c]  cp == CheckpointOf(call) IN
    /\ call.op = "checkpoint"
    /\ \A other \in checkpoints : ~SameCheckpoint(other, cp)
    /\ Cardinality(checkpoints) < MaxCheckpoints
    /\ checkpoints' = checkpoints \cup {cp}
    /\ calls' = [calls EXCEPT ![c] = Idle]
    /\ UNCHANGED <<streams, recorded, exports, retention, damages>>

-----------------------------------------------------------------------------
\* export

InRange(entries, first, last) ==
    Taken(entries, {i \in DOMAIN entries :
                        /\ first = Unbounded \/ entries[i].sequence >= first
                        /\ last = Unbounded \/ entries[i].sequence <= last})

\* The boundaries that were asked for exist, and nothing is missing between.
RangeComplete(entries, first, last) ==
    /\ first # Unbounded => entries # <<>> /\ entries[1].sequence = first
    /\ last # Unbounded => entries # <<>> /\ entries[Len(entries)].sequence = last
    /\ \A i \in 1 .. Len(entries) - 1 : entries[i + 1].sequence = entries[i].sequence + 1

\* Faulty: only the entries that are handed over are verified.
ExportReadPart(c, t, first, last) ==
    LET entries == InRange(streams[t], first, last) IN
    /\ calls[c] = Idle
    /\ first # Unbounded /\ last # Unbounded => first <= last
    /\ RangeComplete(entries, first, last)
    /\ calls' = [calls EXCEPT ![c] =
                   [op |-> "export", tenant |-> t, entries |-> entries]]
    /\ UNCHANGED <<stores, damages>>

ExportRead(c, t, first, last) ==
    LET entries == InRange(streams[t], first, last) IN
    /\ calls[c] = Idle
    /\ Verifies(t, streams[t])
    /\ first # Unbounded /\ last # Unbounded => first <= last
    /\ RangeComplete(entries, first, last)
    /\ calls' = [calls EXCEPT ![c] =
                   [op |-> "export", tenant |-> t, entries |-> entries]]
    /\ UNCHANGED <<stores, damages>>

ManifestOf(call) ==
    LET es == call.entries IN
    [tenant |-> call.tenant, count |-> Len(es), digest |-> es,
     first |-> IF es = <<>> THEN 0 ELSE es[1].sequence,
     last  |-> IF es = <<>> THEN 0 ELSE es[Len(es)].sequence]

\* The manifest is named by its content, so storing it again changes nothing.
ExportCreate(c) ==
    /\ calls[c].op = "export"
    /\ Cardinality(exports \cup {ManifestOf(calls[c])}) <= MaxExports
    /\ exports' = exports \cup {ManifestOf(calls[c])}
    /\ calls' = [calls EXCEPT ![c] = Idle]
    /\ UNCHANGED <<streams, recorded, checkpoints, retention, damages>>

\* A conflict, a failure of the second unit of work, or a crash.
Abandon(c) ==
    /\ calls[c] # Idle
    /\ calls' = [calls EXCEPT ![c] = Idle]
    /\ UNCHANGED <<stores, damages>>

-----------------------------------------------------------------------------
\* What may befall the stored entries: one is altered, lost or renumbered.

Without(entries, i) == SubSeq(entries, 1, i - 1) \o SubSeq(entries, i + 1, Len(entries))

Damage(t) ==
    /\ damages < MaxDamage
    /\ damages' = damages + 1
    /\ \E i \in DOMAIN streams[t] :
         \/ \E content \in Contents \ {streams[t][i].content} :
              streams' = [streams EXCEPT ![t][i].content = content]
         \/ \E n \in 1 .. MaxLength \ {streams[t][i].sequence} :
              streams' = [streams EXCEPT ![t][i].sequence = n]
         \/ streams' = [streams EXCEPT ![t] = Without(@, i)]
    /\ UNCHANGED <<recorded, checkpoints, exports, retention, calls>>

-----------------------------------------------------------------------------
CallerNext(c) ==
    \/ \E t \in Tenants : CheckpointRead(c, t)
    \/ CheckpointCreate(c)
    \/ \E t \in Tenants, first, last \in 0 .. MaxLength : ExportRead(c, t, first, last)
    \/ ExportCreate(c)
    \/ Abandon(c)

AuditNext ==
    \/ \E t \in Tenants, content \in Contents : AppendEntry(t, content)
    \/ \E s \in Sources : RecordSource(s) \/ ReplaySource(s)
    \/ \E t \in Tenants, policy \in Policies, expected \in 0 .. MaxVersion :
         SetRetention(t, policy, expected)
    \/ \E c \in Callers : CallerNext(c)
    \/ \E t \in Tenants : Damage(t)

AuditSpec == AuditInit /\ [][AuditNext]_auditVars

-----------------------------------------------------------------------------
\* Properties

\* The types of the stores; an entry's hashes are lists of what they cover.
Hash == Seq(Tenants \X Nat \X Contents)
Entry == [tenant : Tenants, sequence : Nat, content : Contents, previous : Hash, current : Hash]
Streams == [Tenants -> Seq(Entry)]
AuditTypeOK ==
    /\ streams \in Streams
    /\ \A r \in recorded : r.source \in Sources /\ r.entry \in Entry
    /\ retention \in [Tenants -> {NoPolicy} \cup [policy : Policies, version : Nat]]
    /\ damages \in Nat

\* As long as nothing was damaged, every stream verifies: the sequences that
\* racing appends take have no gap and every entry is linked to the one before.
StreamsVerify == damages = 0 => \A t \in Tenants : Verifies(t, streams[t])

\* A checkpoint tells the truth at any later time: it verifies exactly when the
\* stream still begins with the entries that it covers, whatever was appended,
\* altered, lost or renumbered since its entries were read.
CheckpointsTell ==
    \A cp \in checkpoints :
        CheckpointHolds(cp) <=> Through(streams[cp.tenant], cp.through) = cp.covered

\* Everyone who was handed an export can verify it, although entries were
\* appended or damaged between the verification of the stream and the manifest,
\* and what it says is what the stream says as long as nothing was damaged.
ExportsVerify ==
    \A m \in exports :
        /\ ExportVerifies(m, m.digest)
        /\ LET entries == streams[m.tenant] IN
           damages = 0 =>
             m.digest = Taken(entries, {i \in DOMAIN entries :
                                          entries[i].sequence \in m.first .. m.last})

\* A source event is recorded once, however often it is delivered, and of two
\* events with one id only the first: a stream has as many entries for an event
\* as there is a record of it, and the record has the entry that is stored.
RecordedOnce ==
    /\ \A r, q \in recorded : r.source.id = q.source.id => r = q
    /\ damages = 0 => \A r, q \in recorded :
         LET stream == streams[r.source.tenant] IN
         /\ r.entry.sequence \in DOMAIN stream
         /\ stream[r.entry.sequence] = r.entry
         /\ r.entry.content = r.source.content
         /\ r.entry = q.entry => r = q
=============================================================================
