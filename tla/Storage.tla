------------------------------- MODULE Storage -------------------------------
(***************************************************************************)
(* The storage service (services/platform_storage): upload sessions,       *)
(* objects and their immutable versions, retention and legal holds,        *)
(* malware scans, and download authorizations, for one tenant.             *)
(*                                                                         *)
(* Every mutation reads and writes in one unit of work under the store's   *)
(* lock and is one step (what some read just before it are the clock and   *)
(* an object's classification, which never changes); the version its       *)
(* caller expects, and the replay of its idempotency key, can only refuse  *)
(* it. A storage key is an upload's own. authorize_download reads the      *)
(* object, its version and policies, its scans and the staged blob in      *)
(* transactions of their own: downloads[d] is the call of client d, and    *)
(* everything else may change between its reads.                           *)
(***************************************************************************)
EXTENDS Integers, FiniteSets

CONSTANTS
    Objects,
    Uploads, ObjectOf,   \* upload sessions, and the object each is for
    Sources, RankOf,     \* scanner source ids, and the order of the ids of
                         \* their results
    Clients,             \* callers of authorize_download
    UploadTicks,         \* the lifetime of a session
    Deadlines,           \* the values of retain_until
    Verdicts,            \* bound: the results that scanners report
    MaxNow               \* bound of the clock

ScanStatus == {"pending", "clean", "infected", "error"}

ASSUME StorageAssumption ==
    /\ ObjectOf \in [Uploads -> Objects]
    /\ RankOf \in [Sources -> Nat]
    /\ \A a, b \in Sources : RankOf[a] = RankOf[b] => a = b
    /\ UploadTicks \in Nat \ {0} /\ MaxNow \in Nat
    /\ Deadlines \subseteq Nat \ {0}
    /\ Verdicts \subseteq ScanStatus

VARIABLES
    uploads,     \* uploads[u]: [status, governed, retain, expires]
    blobs,       \* blobs[u]: what is staged under the storage key of u
    objects,     \* objects[o]: [status, governed, number]
    versions,    \* the stored ObjectVersions: [o, number, upload]
    retention,   \* retention[o]: retain_until, or 0
    overridden,  \* objects whose retention an administrator has shortened
    holds,       \* holds[o]: the legal hold
    scans,       \* the stored MalwareScanResults
    outbox,      \* the events in the outbox
    downloads,   \* downloads[d]: the call of client d
    granted,     \* the authorized downloads: [o, number]
    now          \* the clock

records == <<uploads, objects, versions, outbox>>
policies == <<retention, overridden, holds>>
reads == <<downloads, granted>>
vars == <<records, blobs, policies, scans, reads, now>>

NoUpload == [status |-> "none", governed |-> FALSE, retain |-> 0, expires |-> 0]
UploadSession ==
    [status : {"none", "initiated", "finalized", "aborted"}, governed : BOOLEAN,
     retain : {0} \cup Deadlines, expires : Nat]
NoObject == [status |-> "none", governed |-> FALSE, number |-> 0]
StoredObject ==
    {NoObject} \cup [status : {"active", "deleted"}, governed : BOOLEAN, number : Nat \ {0}]
ObjectVersion == [o : Objects, number : Nat \ {0}, upload : Uploads]
Scan == [o : Objects, number : Nat, source : Sources, status : ScanStatus, at : Nat]
HoldStatus == {"none", "active", "lifted"}
NoDownload == [stage |-> "none"]
Download == [stage : {"object", "policies", "scanned"}, o : Objects, number : Nat]

Init ==
    /\ uploads = [u \in Uploads |-> NoUpload]
    /\ blobs = [u \in Uploads |-> "none"]
    /\ objects = [o \in Objects |-> NoObject]
    /\ versions = {}
    /\ retention = [o \in Objects |-> 0]
    /\ overridden = {}
    /\ holds = [o \in Objects |-> "none"]
    /\ scans = {}
    /\ outbox = {}
    /\ downloads = [d \in Clients |-> NoDownload]
    /\ granted = {}
    /\ now = 1

-----------------------------------------------------------------------------
\* Uploads

\* Faulty: the new session's retention replaces an older policy.
InitiateReplacing(u, governed, retain) ==
    /\ uploads[u] = NoUpload
    /\ governed => retain > now
    /\ retention' = [retention EXCEPT ![ObjectOf[u]] = IF retain = 0 THEN @ ELSE retain]
    /\ uploads' = [uploads EXCEPT ![u] =
                     [status |-> "initiated", governed |-> governed, retain |-> retain,
                      expires |-> now + UploadTicks]]
    /\ outbox' = outbox \cup {<<"initiated", u>>}
    /\ UNCHANGED <<blobs, objects, versions, overridden, holds, scans, reads, now>>

\* governed: the classification is restricted or regulated, and then the
\* session must carry a future retention. The policy must be the object's
\* first, so one session of an object can carry a retention at most.
Initiate(u, governed, retain) ==
    /\ uploads[u] = NoUpload
    /\ governed => retain > now
    /\ retain # 0 => retention[ObjectOf[u]] = 0
    /\ retention' = [retention EXCEPT ![ObjectOf[u]] = IF retain = 0 THEN @ ELSE retain]
    /\ uploads' = [uploads EXCEPT ![u] =
                     [status |-> "initiated", governed |-> governed, retain |-> retain,
                      expires |-> now + UploadTicks]]
    /\ outbox' = outbox \cup {<<"initiated", u>>}
    /\ UNCHANGED <<blobs, objects, versions, overridden, holds, scans, reads, now>>

\* The blob provider takes what the client uploads, when it likes: content
\* that has the declared length and digest, or not.
Stage(u, content) ==
    /\ uploads[u] # NoUpload
    /\ blobs' = [blobs EXCEPT ![u] = content]
    /\ UNCHANGED <<records, policies, scans, reads, now>>

\* Faulty: a session that was finalized is finalized again.
FinalizableTwice(u) ==
    uploads[u].status \in {"initiated", "finalized"} /\ uploads[u].expires > now

Finalizable(u) == uploads[u].status = "initiated" /\ uploads[u].expires > now

\* The first version creates the object; the classification stays as it is.
Finalize(u) ==
    LET o == ObjectOf[u]  next == objects[o].number + 1 IN
    /\ Finalizable(u)
    /\ blobs[u] = "good"
    /\ objects[o].status # "deleted"
    /\ objects' = [objects EXCEPT ![o] =
                     [status |-> "active", number |-> next,
                      governed |-> IF objects[o] = NoObject THEN uploads[u].governed
                                                            ELSE objects[o].governed]]
    /\ versions' = versions \cup {[o |-> o, number |-> next, upload |-> u]}
    /\ uploads' = [uploads EXCEPT ![u].status = "finalized"]
    /\ outbox' = outbox \cup {<<"finalized", o, next>>}
    /\ UNCHANGED <<blobs, policies, scans, reads, now>>

Abort(u) ==
    /\ uploads[u].status = "initiated"
    /\ uploads' = [uploads EXCEPT ![u].status = "aborted"]
    /\ UNCHANGED <<blobs, objects, versions, outbox, policies, scans, reads, now>>

-----------------------------------------------------------------------------
\* Objects and policies

MarkDeleted(o) ==
    /\ objects[o] # NoObject
    /\ holds[o] # "active"
    /\ retention[o] <= now
    /\ objects' = [objects EXCEPT ![o].status = "deleted"]
    /\ UNCHANGED <<uploads, versions, outbox, blobs, policies, scans, reads, now>>

Restore(o) ==
    /\ objects[o] # NoObject
    /\ objects' = [objects EXCEPT ![o].status = "active"]
    /\ UNCHANGED <<uploads, versions, outbox, blobs, policies, scans, reads, now>>

\* Only a platform administrator who gives a reason shortens a retention.
ApplyRetention(o, until, override) ==
    /\ objects[o] # NoObject
    /\ objects[o].governed => until > now
    /\ until < retention[o] => override
    /\ retention' = [retention EXCEPT ![o] = until]
    /\ overridden' = IF until < retention[o] THEN overridden \cup {o} ELSE overridden
    /\ UNCHANGED <<records, blobs, holds, scans, reads, now>>

SetLegalHold(o, active) ==
    /\ objects[o] # NoObject
    /\ holds' = [holds EXCEPT ![o] = IF active THEN "active" ELSE "lifted"]
    /\ UNCHANGED <<records, blobs, retention, overridden, scans, reads, now>>

-----------------------------------------------------------------------------
\* Malware scans

ScansOf(o, number) == {s \in scans : s.o = o /\ s.number = number}

\* Results are ordered by time, and those of one clock reading by their ids.
Later(a, b) == a.at > b.at \/ (a.at = b.at /\ RankOf[a.source] > RankOf[b.source])

\* current_scan_status: the last of the history.
CurrentScan(o, number) ==
    LET mine == ScansOf(o, number) IN
    IF mine = {} THEN "pending"
    ELSE (CHOOSE a \in mine : \A b \in mine \ {a} : Later(a, b)).status

\* A source reports once: its id is an idempotency key in a global scope.
Unreported(source, v) == ~\E s \in scans : s.source = source

RecordMalwareScan(v, status, source) ==
    /\ v \in versions
    /\ Unreported(source, v)
    /\ scans' = scans \cup {[o |-> v.o, number |-> v.number, source |-> source,
                             status |-> status, at |-> now]}
    /\ outbox' = IF status = "infected" THEN outbox \cup {<<"infected", source>>} ELSE outbox
    /\ UNCHANGED <<uploads, objects, versions, blobs, policies, reads, now>>

-----------------------------------------------------------------------------
\* authorize_download

DownloadObject(d, o) ==
    /\ downloads[d] = NoDownload
    /\ objects[o].status = "active"
    /\ downloads' = [downloads EXCEPT ![d] =
                       [stage |-> "object", o |-> o, number |-> objects[o].number]]
    /\ UNCHANGED <<records, blobs, policies, scans, granted, now>>

\* Governed objects must have both policies. The classification read with the
\* object never changes.
DownloadPolicies(d) ==
    LET o == downloads[d].o IN
    /\ downloads[d].stage = "object"
    /\ \E v \in versions : v.o = o /\ v.number = downloads[d].number
    /\ objects[o].governed => retention[o] # 0 /\ holds[o] # "none"
    /\ downloads' = [downloads EXCEPT ![d].stage = "policies"]
    /\ UNCHANGED <<records, blobs, policies, scans, granted, now>>

\* Faulty: the newest version is looked up again for its scans.
DownloadScansNewest(d) ==
    /\ downloads[d].stage = "policies"
    /\ CurrentScan(downloads[d].o, objects[downloads[d].o].number) = "clean"
    /\ downloads' = [downloads EXCEPT ![d].stage = "scanned"]
    /\ UNCHANGED <<records, blobs, policies, scans, granted, now>>

DownloadScans(d) ==
    /\ downloads[d].stage = "policies"
    /\ CurrentScan(downloads[d].o, downloads[d].number) = "clean"
    /\ downloads' = [downloads EXCEPT ![d].stage = "scanned"]
    /\ UNCHANGED <<records, blobs, policies, scans, granted, now>>

DownloadGrant(d) ==
    /\ downloads[d].stage = "scanned"
    /\ \E v \in versions : /\ v.o = downloads[d].o /\ v.number = downloads[d].number
                           /\ blobs[v.upload] = "good"
    /\ granted' = granted \cup {[o |-> downloads[d].o, number |-> downloads[d].number]}
    /\ downloads' = [downloads EXCEPT ![d] = NoDownload]
    /\ UNCHANGED <<records, blobs, policies, scans, now>>

\* Any check fails, or the client goes away.
DownloadDenied(d) ==
    /\ downloads[d] # NoDownload
    /\ downloads' = [downloads EXCEPT ![d] = NoDownload]
    /\ UNCHANGED <<records, blobs, policies, scans, granted, now>>

-----------------------------------------------------------------------------
Tick ==
    /\ now < MaxNow
    /\ now' = now + 1
    /\ UNCHANGED <<records, blobs, policies, scans, reads>>

UploadNext ==
    \E u \in Uploads :
        \/ \E governed \in BOOLEAN, retain \in {0} \cup Deadlines : Initiate(u, governed, retain)
        \/ \E content \in {"good", "bad"} : Stage(u, content)
        \/ Finalize(u) \/ Abort(u)

ObjectNext ==
    \/ \E o \in Objects :
        \/ MarkDeleted(o) \/ Restore(o)
        \/ \E until \in Deadlines, override \in BOOLEAN : ApplyRetention(o, until, override)
        \/ \E active \in BOOLEAN : SetLegalHold(o, active)
    \/ \E v \in versions, status \in Verdicts, source \in Sources :
         RecordMalwareScan(v, status, source)

DownloadNext ==
    \E d \in Clients :
        \/ \E o \in Objects : DownloadObject(d, o)
        \/ DownloadPolicies(d) \/ DownloadScans(d) \/ DownloadGrant(d) \/ DownloadDenied(d)

Next == UploadNext \/ ObjectNext \/ DownloadNext \/ Tick

Spec == Init /\ [][Next]_vars

-----------------------------------------------------------------------------
\* The types of the stores and of the downloads under way.
TypeOK ==
    /\ uploads \in [Uploads -> UploadSession]
    /\ blobs \in [Uploads -> {"none", "good", "bad"}]
    /\ objects \in [Objects -> StoredObject]
    /\ versions \subseteq ObjectVersion
    /\ retention \in [Objects -> {0} \cup Deadlines]
    /\ overridden \subseteq Objects
    /\ holds \in [Objects -> HoldStatus]
    /\ scans \subseteq Scan
    /\ downloads \in [Clients -> {NoDownload} \cup Download]
    /\ granted \subseteq [o : Objects, number : Nat]
    /\ now \in Nat

\* Every finalized upload is one version of its object and every version comes
\* from one, the versions are numbered without a gap up to the current one,
\* and each has one event. A scanner source has reported once, on one version,
\* and exactly the infected results are announced.
HistoryAddsUp ==
    /\ \A o \in Objects :
        LET mine == {v \in versions : v.o = o}
            done == {u \in Uploads : ObjectOf[u] = o /\ uploads[u].status = "finalized"}
        IN
        /\ {v.number : v \in mine} = 1 .. objects[o].number
        /\ {v.upload : v \in mine} = done
        /\ Cardinality(mine) = Cardinality(done)
        /\ {e \in outbox : e[1] = "finalized" /\ e[2] = o} =
             {<<"finalized", o, v.number>> : v \in mine}
    /\ \A a, b \in scans : a.source = b.source => a = b
    /\ {e \in outbox : e[1] = "infected"} =
         {<<"infected", s.source>> : s \in {s \in scans : s.status = "infected"}}

\* A download is authorized for a version that was found clean at some time,
\* and a governed object has both policies, although each was read in another
\* transaction and a new version may be finalized in between.
GrantsAreJustified ==
    \A g \in granted :
        /\ \E v \in versions : v.o = g.o /\ v.number = g.number
        /\ \E s \in ScansOf(g.o, g.number) : s.status = "clean"
        /\ objects[g.o].governed => retention[g.o] # 0 /\ holds[g.o] # "none"

\* An object is deleted no sooner than any session that made a version of it
\* has asked, unless an administrator has shortened the retention.
KeptAsPromised ==
    [][\A o \in Objects :
         objects[o].status = "active" /\ objects'[o].status = "deleted" =>
            \/ o \in overridden
            \/ \A v \in versions : v.o = o => uploads[v.upload].retain <= now]_vars
=============================================================================
