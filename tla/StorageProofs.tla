---------------------------- MODULE StorageProofs ----------------------------
(***************************************************************************)
(* Proofs about Storage, for any objects, uploads, scanners, clients and   *)
(* deadlines, and for an unbounded clock.                                  *)
(***************************************************************************)
EXTENDS Storage, FiniteSetTheorems, TLAPS

\* A version is its upload's, and each number of an object has one.
VersionsOwn ==
    /\ IsFiniteSet(versions)
    /\ \A v \in versions : /\ ObjectOf[v.upload] = v.o
                           /\ uploads[v.upload].status = "finalized"
                           /\ v.number \in 1 .. objects[v.o].number
    /\ \A v, w \in versions : v.upload = w.upload => v = w
    /\ \A u \in Uploads : uploads[u].status = "finalized" => \E v \in versions : v.upload = u
    /\ \A o \in Objects : \A n \in 1 .. objects[o].number :
         \E v \in versions : v.o = o /\ v.number = n

EventsTell ==
    /\ \A e \in outbox : e[1] = "finalized" =>
         \E v \in versions : e = <<"finalized", v.o, v.number>>
    /\ \A v \in versions : <<"finalized", v.o, v.number>> \in outbox
    /\ \A e \in outbox : e[1] = "infected" =>
         \E s \in scans : s.status = "infected" /\ e = <<"infected", s.source>>
    /\ \A s \in scans : s.status = "infected" => <<"infected", s.source>> \in outbox

\* Of the scans of a version one is the last.
Last(a, mine) == a \in mine /\ \A b \in mine \ {a} : Later(a, b)
ScansOrdered ==
    /\ \A a, b \in scans : a.source = b.source => a = b
    /\ \A s \in scans : s.at <= now
    /\ \A o \in Objects, n \in Nat : ScansOf(o, n) = {} \/ \E a \in scans : Last(a, ScansOf(o, n))

\* A policy is no weaker than any session of its object has asked.
Promised ==
    \A u \in Uploads : ObjectOf[u] \notin overridden =>
        uploads[u].retain <= retention[ObjectOf[u]]

Known(o, n) == \E v \in versions : v.o = o /\ v.number = n
Governed(o) == objects[o].governed => retention[o] # 0 /\ holds[o] # "none"
Cleared(o, n) == \E s \in ScansOf(o, n) : s.status = "clean"
\* What a download under way has found, and what a granted one had found.
Found(call) ==
    /\ call.stage \in {"policies", "scanned"} => Known(call.o, call.number) /\ Governed(call.o)
    /\ call.stage = "scanned" => Cleared(call.o, call.number)
Justified(g) == Known(g.o, g.number) /\ Governed(g.o) /\ Cleared(g.o, g.number)
ReadsHold == (\A d \in Clients : Found(downloads[d])) /\ \A g \in granted : Justified(g)

IInv == TypeOK /\ VersionsOwn /\ EventsTell /\ ScansOrdered /\ Promised /\ ReadsHold

LEMMA Initially == Init => IInv
<1> SUFFICES ASSUME Init PROVE IInv
  OBVIOUS
<1>1. TypeOK
  BY StorageAssumption
     DEF Init, TypeOK, NoUpload, UploadSession, NoObject, StoredObject, HoldStatus, NoDownload
<1>2. VersionsOwn
  BY FS_EmptySet DEF Init, VersionsOwn, NoUpload, NoObject
<1>3. EventsTell /\ ScansOrdered /\ ReadsHold
  BY DEF Init, EventsTell, ScansOrdered, ScansOf, ReadsHold, Found, NoDownload
<1>4. Promised
  BY StorageAssumption DEF Init, Promised, NoUpload
<1> QED BY <1>1, <1>2, <1>3, <1>4 DEF IInv

-----------------------------------------------------------------------------
\* Types

LEMMA TypeStep == TypeOK /\ [Next]_vars => TypeOK'
<1> SUFFICES ASSUME TypeOK, [Next]_vars PROVE TypeOK'
  OBVIOUS
<1> USE StorageAssumption DEF TypeOK, records, policies, reads
<1>1. ASSUME NEW u \in Uploads, NEW governed \in BOOLEAN, NEW retain \in {0} \cup Deadlines,
             Initiate(u, governed, retain)
      PROVE  TypeOK'
  <2>1. now + UploadTicks \in Nat /\ ObjectOf[u] \in Objects
    OBVIOUS
  <2>2. [status |-> "initiated", governed |-> governed, retain |-> retain,
         expires |-> now + UploadTicks] \in UploadSession
    BY <2>1 DEF UploadSession
  <2>3. uploads' \in [Uploads -> UploadSession] /\ retention' \in [Objects -> {0} \cup Deadlines]
    BY <1>1, <2>1, <2>2 DEF Initiate
  <2> QED BY <1>1, <2>3 DEF Initiate
<1>2. ASSUME NEW u \in Uploads, NEW content \in {"good", "bad"}, Stage(u, content)
      PROVE  TypeOK'
  BY <1>2 DEF Stage
<1>3. ASSUME NEW u \in Uploads, Finalize(u) PROVE TypeOK'
  <2> DEFINE o == ObjectOf[u]  next == objects[o].number + 1
  <2>1. o \in Objects /\ objects[o].number \in Nat /\ next \in Nat \ {0}
    BY DEF StoredObject, NoObject
  <2>2. objects[o].governed \in BOOLEAN /\ uploads[u].governed \in BOOLEAN
    <3>0. objects \in [Objects -> StoredObject] /\ uploads \in [Uploads -> UploadSession]
      OBVIOUS
    <3> HIDE DEF TypeOK, o
    <3>1. objects[o] \in StoredObject /\ uploads[u] \in UploadSession
      BY <2>1, <3>0
    <3>2. objects[o].governed \in BOOLEAN
      <4>1. CASE objects[o] = NoObject
        BY <4>1 DEF NoObject
      <4>2. CASE objects[o] \in [status : {"active", "deleted"}, governed : BOOLEAN,
                                number : Nat \ {0}]
        BY <4>2
      <4> QED BY <3>1, <4>1, <4>2 DEF StoredObject
    <3> QED BY <3>1, <3>2 DEF UploadSession
  <2>3. [status |-> "active", number |-> next,
         governed |-> IF objects[o] = NoObject THEN uploads[u].governed
                                               ELSE objects[o].governed] \in StoredObject
    <3>1. \A governed \in BOOLEAN, n \in Nat \ {0} :
            [status |-> "active", number |-> n, governed |-> governed] \in StoredObject
      BY DEF StoredObject
    <3>2. (IF objects[o] = NoObject THEN uploads[u].governed ELSE objects[o].governed) \in BOOLEAN
      BY <2>2
    <3> QED BY <2>1, <3>1, <3>2
  <2>4. objects' \in [Objects -> StoredObject]
    BY <1>3, <2>1, <2>3 DEF Finalize
  <2>5. versions' \subseteq ObjectVersion
    BY <1>3, <2>1 DEF Finalize, ObjectVersion
  <2>6. uploads' \in [Uploads -> UploadSession]
    <3>1. [uploads[u] EXCEPT !.status = "finalized"] \in UploadSession
      BY DEF UploadSession
    <3> QED BY <1>3, <3>1 DEF Finalize
  <2> QED BY <1>3, <2>4, <2>5, <2>6 DEF Finalize
<1>4. ASSUME NEW u \in Uploads, Abort(u) PROVE TypeOK'
  <2>1. [uploads[u] EXCEPT !.status = "aborted"] \in UploadSession
    BY <1>4 DEF Abort, UploadSession
  <2> QED BY <1>4, <2>1 DEF Abort
<1>5. ASSUME NEW o \in Objects, MarkDeleted(o) \/ Restore(o) PROVE TypeOK'
  BY <1>5 DEF MarkDeleted, Restore, StoredObject
<1>6. ASSUME NEW o \in Objects, NEW until \in Deadlines, NEW override \in BOOLEAN,
             ApplyRetention(o, until, override)
      PROVE  TypeOK'
  BY <1>6 DEF ApplyRetention
<1>7. ASSUME NEW o \in Objects, NEW active \in BOOLEAN, SetLegalHold(o, active) PROVE TypeOK'
  BY <1>7 DEF SetLegalHold, HoldStatus
<1>8. ASSUME NEW v \in versions, NEW status \in Verdicts, NEW source \in Sources,
             RecordMalwareScan(v, status, source)
      PROVE  TypeOK'
  BY <1>8 DEF RecordMalwareScan, Scan, ObjectVersion
<1>9. ASSUME NEW d \in Clients, NEW o \in Objects, DownloadObject(d, o) PROVE TypeOK'
  <2>1. objects[o].number \in Nat
    BY DEF StoredObject, NoObject
  <2> QED BY <1>9, <2>1 DEF DownloadObject, Download
<1>10. ASSUME NEW d \in Clients, DownloadPolicies(d) \/ DownloadScans(d) PROVE TypeOK'
  <2>1. downloads[d] \in Download
    BY <1>10 DEF DownloadPolicies, DownloadScans, NoDownload
  <2> QED BY <1>10, <2>1 DEF DownloadPolicies, DownloadScans, Download
<1>11. ASSUME NEW d \in Clients, DownloadGrant(d) PROVE TypeOK'
  <2>1. downloads[d] \in Download
    BY <1>11 DEF DownloadGrant, NoDownload
  <2> QED BY <1>11, <2>1 DEF DownloadGrant, Download
<1>12. ASSUME NEW d \in Clients, DownloadDenied(d) PROVE TypeOK'
  BY <1>12 DEF DownloadDenied
<1>13. ASSUME Tick PROVE TypeOK'
  BY <1>13 DEF Tick
<1>14. ASSUME UNCHANGED vars PROVE TypeOK'
  BY <1>14 DEF vars
<1> QED BY <1>1, <1>2, <1>3, <1>4, <1>5, <1>6, <1>7, <1>8, <1>9, <1>10, <1>11, <1>12, <1>13, <1>14
        DEF Next, UploadNext, ObjectNext, DownloadNext

-----------------------------------------------------------------------------
\* What a step can do to the version history.

\* The steps that leave versions, numbers and finished uploads alone.
LEMMA VersionsKept ==
  ASSUME TypeOK, VersionsOwn, UNCHANGED versions,
         \A o \in Objects : objects'[o].number = objects[o].number,
         \A u \in Uploads : uploads'[u].status = "finalized" <=> uploads[u].status = "finalized"
  PROVE  VersionsOwn'
<1>1. \A v \in versions : v.o \in Objects /\ v.upload \in Uploads
  BY DEF TypeOK, ObjectVersion
<1> QED BY <1>1 DEF VersionsOwn

LEMMA FinalizeVersions ==
  ASSUME TypeOK, VersionsOwn, NEW u \in Uploads, Finalize(u)
  PROVE  VersionsOwn'
<1> DEFINE o == ObjectOf[u]  next == objects[o].number + 1
           version == [o |-> o, number |-> next, upload |-> u]
<1>1. /\ o \in Objects /\ objects[o].number \in Nat
      /\ \A p \in Objects : objects[p].number \in Nat
  BY StorageAssumption DEF TypeOK, StoredObject, NoObject
<1>2. /\ uploads[u].status = "initiated"
      /\ versions' = versions \cup {version}
      /\ \A p \in Objects : objects'[p].number = IF p = o THEN next ELSE objects[p].number
      /\ \A w \in Uploads : uploads'[w].status = "finalized" <=>
                              w = u \/ uploads[w].status = "finalized"
  BY <1>1 DEF Finalize, Finalizable, TypeOK, UploadSession
<1>3. \A v \in versions : v.upload # u /\ v.o \in Objects /\ v.upload \in Uploads /\ v.number \in Nat
  BY <1>2 DEF VersionsOwn, TypeOK, ObjectVersion
<1>4. version.o = o /\ version.number = next /\ version.upload = u /\ version \in versions'
  BY <1>2
<1> HIDE DEF version
<1>5. IsFiniteSet(versions')
  BY <1>2, FS_AddElement DEF VersionsOwn
<1>6. \A v \in versions' : /\ ObjectOf[v.upload] = v.o
                           /\ uploads'[v.upload].status = "finalized"
                           /\ v.number \in 1 .. objects'[v.o].number
  <2>1. \A v \in versions : /\ ObjectOf[v.upload] = v.o
                            /\ uploads'[v.upload].status = "finalized"
                            /\ v.number \in 1 .. objects'[v.o].number
    BY <1>1, <1>2, <1>3 DEF VersionsOwn
  <2>2. next \in 1 .. objects'[o].number
    BY <1>1, <1>2
  <2> QED BY <1>2, <1>4, <2>1, <2>2
<1>7. \A v, w \in versions' : v.upload = w.upload => v = w
  BY <1>2, <1>3, <1>4 DEF VersionsOwn
<1>8. \A w \in Uploads : uploads'[w].status = "finalized" => \E v \in versions' : v.upload = w
  BY <1>2, <1>4 DEF VersionsOwn
<1>9. ASSUME NEW p \in Objects, NEW n \in 1 .. objects'[p].number
      PROVE  \E v \in versions' : v.o = p /\ v.number = n
  <2>1. CASE p = o /\ n = next
    BY <1>4, <2>1
  <2>2. CASE ~(p = o /\ n = next)
    <3>1. n \in 1 .. objects[p].number
      BY <1>1, <1>2, <2>2
    <3> QED BY <1>2, <3>1 DEF VersionsOwn
  <2> QED BY <2>1, <2>2
<1> QED BY <1>5, <1>6, <1>7, <1>8, <1>9 DEF VersionsOwn

LEMMA VersionsStep == TypeOK /\ VersionsOwn /\ [Next]_vars => VersionsOwn'
<1> SUFFICES ASSUME TypeOK, VersionsOwn, [Next]_vars PROVE VersionsOwn'
  OBVIOUS
<1> USE DEF records, reads
<1>1. ASSUME NEW u \in Uploads, NEW governed \in BOOLEAN, NEW retain \in {0} \cup Deadlines,
             Initiate(u, governed, retain)
      PROVE  VersionsOwn'
  BY <1>1, VersionsKept DEF Initiate, TypeOK, NoUpload
<1>2. ASSUME NEW u \in Uploads, Abort(u) PROVE VersionsOwn'
  BY <1>2, VersionsKept DEF Abort, TypeOK, UploadSession
<1>3. ASSUME NEW o \in Objects, MarkDeleted(o) \/ Restore(o) PROVE VersionsOwn'
  BY <1>3, VersionsKept DEF MarkDeleted, Restore, TypeOK, StoredObject
<1>4. ASSUME UNCHANGED <<uploads, objects, versions>> PROVE VersionsOwn'
  BY <1>4, VersionsKept
<1>5. ASSUME NEW u \in Uploads, NEW content \in {"good", "bad"}, Stage(u, content)
      PROVE  UNCHANGED <<uploads, objects, versions>>
  BY <1>5 DEF Stage
<1>6. ASSUME NEW o \in Objects, NEW until \in Deadlines, NEW override \in BOOLEAN,
             ApplyRetention(o, until, override)
      PROVE  UNCHANGED <<uploads, objects, versions>>
  BY <1>6 DEF ApplyRetention
<1>7. ASSUME NEW o \in Objects, NEW active \in BOOLEAN, SetLegalHold(o, active)
      PROVE  UNCHANGED <<uploads, objects, versions>>
  BY <1>7 DEF SetLegalHold
<1>8. ASSUME NEW v \in versions, NEW status \in Verdicts, NEW source \in Sources,
             RecordMalwareScan(v, status, source)
      PROVE  UNCHANGED <<uploads, objects, versions>>
  BY <1>8 DEF RecordMalwareScan
<1>9. ASSUME DownloadNext PROVE UNCHANGED <<uploads, objects, versions>>
  BY <1>9 DEF DownloadNext, DownloadObject, DownloadPolicies, DownloadScans, DownloadGrant,
              DownloadDenied
<1>10. ASSUME Tick \/ UNCHANGED vars PROVE UNCHANGED <<uploads, objects, versions>>
  BY <1>10 DEF Tick, vars
<1> QED BY <1>1, <1>2, <1>3, <1>4, <1>5, <1>6, <1>7, <1>8, <1>9, <1>10, FinalizeVersions
        DEF Next, UploadNext, ObjectNext

-----------------------------------------------------------------------------
\* The outbox, the scans, the retention and the downloads.

LEMMA EventsStep == TypeOK /\ EventsTell /\ [Next]_vars => EventsTell'
<1> SUFFICES ASSUME TypeOK, EventsTell, [Next]_vars PROVE EventsTell'
  OBVIOUS
<1> USE DEF records, reads
<1>1. ASSUME NEW u \in Uploads, NEW governed \in BOOLEAN, NEW retain \in {0} \cup Deadlines,
             Initiate(u, governed, retain)
      PROVE  EventsTell'
  <2>1. outbox' = outbox \cup {<<"initiated", u>>} /\ UNCHANGED <<versions, scans>>
    BY <1>1 DEF Initiate
  <2>2. <<"initiated", u>>[1] = "initiated"
    OBVIOUS
  <2> QED BY <2>1, <2>2 DEF EventsTell
<1>2. ASSUME NEW u \in Uploads, Finalize(u) PROVE EventsTell'
  <2> DEFINE o == ObjectOf[u]  next == objects[o].number + 1
             version == [o |-> o, number |-> next, upload |-> u]
  <2>1. /\ outbox' = outbox \cup {<<"finalized", o, next>>}
        /\ versions' = versions \cup {version} /\ UNCHANGED scans
    BY <1>2 DEF Finalize
  <2>2. version.o = o /\ version.number = next /\ <<"finalized", o, next>>[1] = "finalized"
    OBVIOUS
  <2> HIDE DEF version, next, o
  <2> QED BY <2>1, <2>2 DEF EventsTell
<1>3. ASSUME NEW v \in versions, NEW status \in Verdicts, NEW source \in Sources,
             RecordMalwareScan(v, status, source)
      PROVE  EventsTell'
  <2> DEFINE scan == [o |-> v.o, number |-> v.number, source |-> source,
                      status |-> status, at |-> now]
  <2>1. /\ scans' = scans \cup {scan} /\ UNCHANGED versions
        /\ outbox' = IF status = "infected" THEN outbox \cup {<<"infected", source>>} ELSE outbox
    BY <1>3 DEF RecordMalwareScan
  <2>2. scan.status = status /\ scan.source = source /\ <<"infected", source>>[1] = "infected"
    OBVIOUS
  <2> HIDE DEF scan
  <2> QED BY <2>1, <2>2 DEF EventsTell
<1>4. ASSUME UNCHANGED <<outbox, versions, scans>> PROVE EventsTell'
  BY <1>4 DEF EventsTell
<1>5. ASSUME NEW u \in Uploads, NEW content \in {"good", "bad"}, Stage(u, content) \/ Abort(u)
      PROVE  UNCHANGED <<outbox, versions, scans>>
  BY <1>5 DEF Stage, Abort
<1>6. ASSUME NEW o \in Objects, NEW until \in Deadlines, NEW override \in BOOLEAN,
             ApplyRetention(o, until, override)
      PROVE  UNCHANGED <<outbox, versions, scans>>
  BY <1>6 DEF ApplyRetention
<1>7. ASSUME NEW o \in Objects, NEW active \in BOOLEAN,
             SetLegalHold(o, active) \/ MarkDeleted(o) \/ Restore(o)
      PROVE  UNCHANGED <<outbox, versions, scans>>
  BY <1>7 DEF SetLegalHold, MarkDeleted, Restore
<1>8. ASSUME DownloadNext PROVE UNCHANGED <<outbox, versions, scans>>
  BY <1>8 DEF DownloadNext, DownloadObject, DownloadPolicies, DownloadScans, DownloadGrant,
              DownloadDenied
<1>9. ASSUME Tick \/ UNCHANGED vars PROVE UNCHANGED <<outbox, versions, scans>>
  BY <1>9 DEF Tick, vars
<1> QED BY <1>1, <1>2, <1>3, <1>4, <1>5, <1>6, <1>7, <1>8, <1>9
        DEF Next, UploadNext, ObjectNext

\* What the other steps do to the scans, the policies and the objects.
LEMMA Others ==
  ASSUME TypeOK, [Next]_vars
  PROVE  /\ \/ UNCHANGED scans /\ now' \in Nat /\ now <= now'
            \/ \E v \in versions, status \in Verdicts, source \in Sources :
                 RecordMalwareScan(v, status, source)
         /\ \A o \in Objects : objects[o] # NoObject =>
              objects'[o] # NoObject /\ objects'[o].governed = objects[o].governed
         /\ \A o \in Objects : retention[o] # 0 => retention'[o] # 0
         /\ \A o \in Objects : holds[o] # "none" => holds'[o] # "none"
         /\ versions \subseteq versions' /\ scans \subseteq scans'
<1> DEFINE Scanned == \E v \in versions, status \in Verdicts, source \in Sources :
                        RecordMalwareScan(v, status, source)
           Grown == /\ \A o \in Objects : objects[o] # NoObject =>
                         objects'[o] # NoObject /\ objects'[o].governed = objects[o].governed
                    /\ \A o \in Objects : retention[o] # 0 => retention'[o] # 0
                    /\ \A o \in Objects : holds[o] # "none" => holds'[o] # "none"
                    /\ versions \subseteq versions' /\ scans \subseteq scans'
           Steady == UNCHANGED scans /\ now' \in Nat /\ now <= now'
<1> USE StorageAssumption DEF records, policies, reads
<1>1. now \in Nat /\ \A o \in Objects : objects[o] # NoObject => objects[o].status # "none"
  BY DEF TypeOK, StoredObject
<1>2. ASSUME NEW u \in Uploads, NEW governed \in BOOLEAN, NEW retain \in {0} \cup Deadlines,
             Initiate(u, governed, retain)
      PROVE  Steady /\ Grown
  BY <1>1, <1>2 DEF Initiate, TypeOK
<1>3. ASSUME NEW u \in Uploads, NEW content \in {"good", "bad"}, Stage(u, content) \/ Abort(u)
      PROVE  Steady /\ Grown
  BY <1>1, <1>3 DEF Stage, Abort
<1>4. ASSUME NEW u \in Uploads, Finalize(u) PROVE Steady /\ Grown
  <2>1. \A o \in Objects : objects[o] # NoObject =>
          objects'[o] # NoObject /\ objects'[o].governed = objects[o].governed
    BY <1>1, <1>4 DEF Finalize, TypeOK, NoObject
  <2> QED BY <1>1, <1>4, <2>1 DEF Finalize
<1>5. ASSUME NEW o \in Objects, MarkDeleted(o) \/ Restore(o) PROVE Steady /\ Grown
  <2>1. \A p \in Objects : objects[p] # NoObject =>
          objects'[p] # NoObject /\ objects'[p].governed = objects[p].governed
    BY <1>1, <1>5 DEF MarkDeleted, Restore, TypeOK, StoredObject, NoObject
  <2> QED BY <1>1, <1>5, <2>1 DEF MarkDeleted, Restore
<1>6. ASSUME NEW o \in Objects, NEW until \in Deadlines, NEW override \in BOOLEAN,
             ApplyRetention(o, until, override)
      PROVE  Steady /\ Grown
  BY <1>1, <1>6 DEF ApplyRetention, TypeOK
<1>7. ASSUME NEW o \in Objects, NEW active \in BOOLEAN, SetLegalHold(o, active)
      PROVE  Steady /\ Grown
  BY <1>1, <1>7 DEF SetLegalHold, TypeOK
<1>8. ASSUME Scanned PROVE Grown
  BY <1>8 DEF RecordMalwareScan
<1>9. ASSUME DownloadNext PROVE Steady /\ Grown
  BY <1>1, <1>9 DEF DownloadNext, DownloadObject, DownloadPolicies, DownloadScans, DownloadGrant,
                    DownloadDenied
<1>10. ASSUME Tick \/ UNCHANGED vars PROVE Steady /\ Grown
  BY <1>1, <1>10 DEF Tick, vars
<1> HIDE DEF Steady, Grown
<1>11. (Steady \/ Scanned) /\ Grown
  BY <1>2, <1>3, <1>4, <1>5, <1>6, <1>7, <1>8, <1>9, <1>10 DEF Next, UploadNext, ObjectNext
<1> QED BY <1>11 DEF Steady, Grown

\* Later is an order of the results of different sources.
LEMMA LaterOrders ==
  ASSUME NEW a \in Scan, NEW b \in Scan, NEW c \in Scan
  PROVE  /\ a.source # b.source => Later(a, b) \/ Later(b, a)
         /\ Later(a, b) /\ Later(b, c) => Later(a, c)
BY StorageAssumption DEF Later, Scan

LEMMA ScansStep == TypeOK /\ ScansOrdered /\ [Next]_vars => ScansOrdered'
<1> SUFFICES ASSUME TypeOK, ScansOrdered, [Next]_vars PROVE ScansOrdered'
  OBVIOUS
<1>1. ASSUME UNCHANGED scans, now' \in Nat, now <= now' PROVE ScansOrdered'
  <2>1. \A s \in scans : s.at \in Nat /\ s.at <= now
    BY DEF TypeOK, Scan, ScansOrdered
  <2>2. \A s \in scans : s.at <= now'
    BY <1>1, <2>1 DEF TypeOK
  <2> QED BY <1>1, <2>2 DEF ScansOrdered, ScansOf
<1>2. ASSUME NEW v \in versions, NEW status \in Verdicts, NEW source \in Sources,
             RecordMalwareScan(v, status, source)
      PROVE  ScansOrdered'
  <2> DEFINE scan == [o |-> v.o, number |-> v.number, source |-> source,
                      status |-> status, at |-> now]
  <2>1. /\ scans' = scans \cup {scan} /\ UNCHANGED now
        /\ \A s \in scans : s.source # source
    BY <1>2 DEF RecordMalwareScan, Unreported
  <2>2. scan \in Scan /\ scan.at = now /\ scan.source = source
        /\ now \in Nat /\ scans \subseteq Scan
    BY StorageAssumption DEF Scan, TypeOK, ObjectVersion
  <2> HIDE DEF scan
  <2>3. /\ \A a, b \in scans' : a.source = b.source => a = b
        /\ \A s \in scans' : s.at <= now'
    BY <2>1, <2>2 DEF ScansOrdered
  <2>4. ASSUME NEW o \in Objects, NEW n \in Nat
        PROVE  ScansOf(o, n)' = {} \/ \E a \in scans' : Last(a, ScansOf(o, n)')
    <3> DEFINE old == ScansOf(o, n)  new == ScansOf(o, n)'
    <3>1. new = IF scan.o = o /\ scan.number = n THEN old \cup {scan} ELSE old
      BY <2>1 DEF ScansOf
    <3>2. old \subseteq scans
      BY DEF ScansOf
    <3>3. CASE ~(scan.o = o /\ scan.number = n)
      BY <2>1, <3>1, <3>3 DEF ScansOrdered
    <3>4. CASE scan.o = o /\ scan.number = n /\ old = {}
      BY <2>1, <3>1, <3>4 DEF Last
    <3>5. CASE scan.o = o /\ scan.number = n /\ old # {}
      <4>1. PICK a \in scans : Last(a, old)
        BY <3>5 DEF ScansOrdered
      <4>2. Later(scan, a) \/ Later(a, scan)
        BY <2>1, <2>2, LaterOrders
      <4>3. CASE Later(a, scan)
        BY <2>1, <3>1, <4>1, <4>3 DEF Last
      <4>4. CASE Later(scan, a)
        <5>1. \A b \in old : Later(scan, b)
          BY <2>2, <3>2, <4>1, <4>4, LaterOrders DEF Last
        <5> QED BY <2>1, <3>1, <3>5, <5>1 DEF Last
      <4> QED BY <4>2, <4>3, <4>4
    <3> QED BY <3>3, <3>4, <3>5
  <2> QED BY <2>3, <2>4 DEF ScansOrdered, Last, Later
<1> QED BY <1>1, <1>2, Others

\* The verdict of a version's history is one of its results.
LEMMA CurrentIsStored ==
  ASSUME ScansOrdered, NEW o \in Objects, NEW n \in Nat, CurrentScan(o, n) = "clean"
  PROVE  Cleared(o, n)
<1> DEFINE mine == ScansOf(o, n)
<1>1. mine # {}
  BY DEF CurrentScan
<1>2. \E a \in mine : \A b \in mine \ {a} : Later(a, b)
  BY <1>1 DEF ScansOrdered, Last
<1> DEFINE last == CHOOSE a \in mine : \A b \in mine \ {a} : Later(a, b)
<1>3. last \in mine
  BY <1>2
<1>4. CurrentScan(o, n) = last.status
  BY <1>1 DEF CurrentScan
<1> HIDE DEF last
<1> QED BY <1>3, <1>4 DEF Cleared

LEMMA PromisedStep == TypeOK /\ Promised /\ [Next]_vars => Promised'
<1> SUFFICES ASSUME TypeOK, Promised, [Next]_vars PROVE Promised'
  OBVIOUS
<1> USE StorageAssumption DEF records, policies, reads
<1>1. /\ \A o \in Objects : retention[o] \in Nat
      /\ \A u \in Uploads : uploads[u].retain \in Nat /\ ObjectOf[u] \in Objects
  <2>1. {0} \cup Deadlines \subseteq Nat
    OBVIOUS
  <2>2. /\ retention \in [Objects -> {0} \cup Deadlines]
        /\ uploads \in [Uploads -> UploadSession] /\ ObjectOf \in [Uploads -> Objects]
    BY DEF TypeOK
  <2> QED BY <2>1, <2>2 DEF UploadSession
<1>2. ASSUME NEW u \in Uploads, NEW governed \in BOOLEAN, NEW retain \in {0} \cup Deadlines,
             Initiate(u, governed, retain)
      PROVE  Promised'
  <2> DEFINE o == ObjectOf[u]
  <2>1. /\ retain \in Nat /\ (retain # 0 => retention[o] = 0)
        /\ \A p \in Objects : retention'[p] = IF p = o /\ retain # 0 THEN retain ELSE retention[p]
        /\ \A w \in Uploads : uploads'[w].retain = IF w = u THEN retain ELSE uploads[w].retain
        /\ UNCHANGED overridden
    BY <1>2 DEF Initiate, TypeOK
  <2> QED BY <1>1, <2>1 DEF Promised
<1>3. ASSUME NEW o \in Objects, NEW until \in Deadlines, NEW override \in BOOLEAN,
             ApplyRetention(o, until, override)
      PROVE  Promised'
  <2>1. /\ until \in Nat /\ UNCHANGED uploads
        /\ \A p \in Objects : retention'[p] = IF p = o THEN until ELSE retention[p]
        /\ overridden' = IF until < retention[o] THEN overridden \cup {o} ELSE overridden
    BY <1>3 DEF ApplyRetention, TypeOK
  <2> QED BY <1>1, <2>1 DEF Promised
<1>4. ASSUME UNCHANGED policies, \A u \in Uploads : uploads'[u].retain = uploads[u].retain
      PROVE  Promised'
  BY <1>4 DEF Promised
<1>5. ASSUME NEW u \in Uploads, NEW content \in {"good", "bad"},
             Stage(u, content) \/ Finalize(u) \/ Abort(u)
      PROVE  Promised'
  <2>0. uploads \in [Uploads -> UploadSession]
    BY DEF TypeOK
  <2>1. UNCHANGED policies /\ \A w \in Uploads : uploads'[w].retain = uploads[w].retain
    BY <1>5, <2>0 DEF Stage, Finalize, Abort, UploadSession
  <2> QED BY <1>4, <2>1
<1>6. ASSUME NEW o \in Objects, NEW active \in BOOLEAN,
             MarkDeleted(o) \/ Restore(o) \/ SetLegalHold(o, active)
      PROVE  Promised'
  BY <1>6 DEF MarkDeleted, Restore, SetLegalHold, Promised
<1>7. ASSUME NEW v \in versions, NEW status \in Verdicts, NEW source \in Sources,
             RecordMalwareScan(v, status, source)
      PROVE  Promised'
  BY <1>7 DEF RecordMalwareScan, Promised
<1>8. ASSUME DownloadNext PROVE Promised'
  BY <1>8 DEF DownloadNext, DownloadObject, DownloadPolicies, DownloadScans, DownloadGrant,
              DownloadDenied, Promised
<1>9. ASSUME Tick \/ UNCHANGED vars PROVE Promised'
  BY <1>9 DEF Tick, vars, Promised
<1> QED BY <1>2, <1>3, <1>5, <1>6, <1>7, <1>8, <1>9 DEF Next, UploadNext, ObjectNext

\* What was true of a version when it was read remains true.
LEMMA FactsStay ==
  ASSUME IInv, [Next]_vars, NEW o \in Objects, NEW n \in Nat
  PROVE  /\ Known(o, n) => Known(o, n)'
         /\ Known(o, n) /\ Governed(o) => Governed(o)'
         /\ Cleared(o, n) => Cleared(o, n)'
<1>1. TypeOK /\ VersionsOwn
  BY DEF IInv
<1>2. Known(o, n) => Known(o, n)'
  BY <1>1, Others DEF Known
<1>3. Known(o, n) => objects[o] # NoObject
  <2>1. Known(o, n) => objects[o].number # 0
    BY <1>1 DEF Known, VersionsOwn, TypeOK, ObjectVersion, StoredObject, NoObject
  <2> QED BY <2>1 DEF NoObject
<1>4. objects[o] # NoObject /\ Governed(o) => Governed(o)'
  BY <1>1, Others DEF Governed
<1>5. Cleared(o, n) => Cleared(o, n)'
  BY <1>1, Others DEF Cleared, ScansOf
<1> QED BY <1>2, <1>3, <1>4, <1>5

LEMMA CallsAreTyped ==
  ASSUME TypeOK
  PROVE  /\ \A d \in Clients : downloads[d].stage # "none" => downloads[d] \in Download
         /\ \A g \in granted : g.o \in Objects /\ g.number \in Nat
BY DEF TypeOK, NoDownload, Download

LEMMA FoundStays ==
  ASSUME IInv, [Next]_vars
  PROVE  /\ \A call \in Download : Found(call) => Found(call)'
         /\ \A g \in granted : Justified(g)'
<1>1. ASSUME NEW call \in Download, Found(call) PROVE Found(call)'
  <2>1. call.o \in Objects /\ call.number \in Nat
    BY DEF Download
  <2> QED BY <1>1, <2>1, FactsStay DEF Found
<1>2. ASSUME NEW g \in granted PROVE Justified(g)'
  <2>1. g.o \in Objects /\ g.number \in Nat /\ Justified(g)
    BY CallsAreTyped DEF IInv, ReadsHold
  <2> QED BY <2>1, FactsStay DEF Justified
<1> QED BY <1>1, <1>2

\* A step that grants nothing, and moves a download only to what it has found.
LEMMA ReadsKept ==
  ASSUME IInv, [Next]_vars, granted' = granted,
         \A d \in Clients : downloads'[d] = downloads[d] \/ Found(downloads[d])'
  PROVE  ReadsHold'
<1>1. ASSUME NEW d \in Clients, downloads'[d] = downloads[d] PROVE Found(downloads[d])'
  <2>1. CASE downloads[d].stage = "none"
    BY <1>1, <2>1 DEF Found
  <2>2. CASE downloads[d].stage # "none"
    <3>1. downloads[d] \in Download /\ Found(downloads[d])
      BY <2>2, CallsAreTyped DEF IInv, ReadsHold
    <3>2. PICK call \in Download : call = downloads[d]
      BY <3>1
    <3>3. Found(call)'
      BY <3>1, <3>2, FoundStays
    <3> QED BY <1>1, <3>2, <3>3 DEF Found
  <2> QED BY <2>1, <2>2
<1>2. \A d \in Clients : Found(downloads[d])'
  BY <1>1
<1>3. \A g \in granted' : Justified(g)'
  BY FoundStays
<1> QED BY <1>2, <1>3 DEF ReadsHold

LEMMA ReadsStep == IInv /\ [Next]_vars => ReadsHold'
<1> SUFFICES ASSUME IInv, [Next]_vars PROVE ReadsHold'
  OBVIOUS
<1> USE DEF records, policies, reads
<1>0. TypeOK /\ ScansOrdered /\ downloads \in [Clients -> {NoDownload} \cup Download]
  BY DEF IInv, TypeOK
<1>1. ASSUME UNCHANGED reads PROVE ReadsHold'
  BY <1>1, ReadsKept
<1>2. ASSUME NEW d \in Clients, NEW o \in Objects, DownloadObject(d, o) PROVE ReadsHold'
  <2>1. /\ downloads' = [downloads EXCEPT ![d] =
                           [stage |-> "object", o |-> o, number |-> objects[o].number]]
        /\ UNCHANGED granted
    BY <1>2 DEF DownloadObject
  <2>2. Found(downloads[d])'
    BY <1>0, <2>1 DEF Found
  <2> QED BY <1>0, <2>1, <2>2, ReadsKept
<1>3. ASSUME NEW d \in Clients, DownloadPolicies(d) PROVE ReadsHold'
  <2> DEFINE call == downloads[d]
  <2>1. /\ call.stage = "object" /\ downloads' = [downloads EXCEPT ![d].stage = "policies"]
        /\ UNCHANGED <<versions, objects, retention, holds, granted>>
        /\ \E v \in versions : v.o = call.o /\ v.number = call.number
        /\ objects[call.o].governed => retention[call.o] # 0 /\ holds[call.o] # "none"
    BY <1>3 DEF DownloadPolicies
  <2>2. call \in Download
    BY <1>0, <2>1, CallsAreTyped
  <2>3. downloads'[d] = [call EXCEPT !.stage = "policies"]
    BY <1>0, <2>1
  <2>4. /\ downloads'[d].stage = "policies" /\ downloads'[d].o = call.o
        /\ downloads'[d].number = call.number
    BY <2>2, <2>3 DEF Download
  <2>5. Found(downloads[d])'
    BY <2>1, <2>4 DEF Found, Known, Governed
  <2> QED BY <1>0, <2>1, <2>5, ReadsKept
<1>4. ASSUME NEW d \in Clients, DownloadScans(d) PROVE ReadsHold'
  <2> DEFINE call == downloads[d]
  <2>1. /\ call.stage = "policies" /\ downloads' = [downloads EXCEPT ![d].stage = "scanned"]
        /\ UNCHANGED <<versions, objects, retention, holds, scans, granted>>
        /\ CurrentScan(call.o, call.number) = "clean"
    BY <1>4 DEF DownloadScans
  <2>2. call \in Download /\ Found(call)
    BY <1>0, <2>1, CallsAreTyped DEF IInv, ReadsHold
  <2>3. Known(call.o, call.number) /\ Governed(call.o) /\ Cleared(call.o, call.number)
    BY <1>0, <2>1, <2>2, CurrentIsStored DEF Found, Download
  <2>4. downloads'[d] = [call EXCEPT !.stage = "scanned"]
    BY <1>0, <2>1
  <2>5. /\ downloads'[d].stage = "scanned" /\ downloads'[d].o = call.o
        /\ downloads'[d].number = call.number
    BY <2>2, <2>4 DEF Download
  <2>6. Found(downloads[d])'
    BY <2>1, <2>3, <2>5 DEF Found, Known, Governed, Cleared, ScansOf
  <2> QED BY <1>0, <2>1, <2>6, ReadsKept
<1>5. ASSUME NEW d \in Clients, DownloadGrant(d) PROVE ReadsHold'
  <2>0. PICK call : call = downloads[d]
    OBVIOUS
  <2> DEFINE grant == [o |-> call.o, number |-> call.number]
  <2>1. /\ call.stage = "scanned" /\ downloads' = [downloads EXCEPT ![d] = NoDownload]
        /\ granted' = granted \cup {grant}
        /\ UNCHANGED <<versions, objects, retention, holds, scans>>
    BY <1>5, <2>0 DEF DownloadGrant
  <2>2. Found(call)
    BY <2>0 DEF IInv, ReadsHold
  <2>3. Justified(grant)'
    <3>1. Known(call.o, call.number) /\ Governed(call.o) /\ Cleared(call.o, call.number)
      BY <2>1, <2>2 DEF Found
    <3> QED BY <2>1, <3>1 DEF Justified, Known, Governed, Cleared, ScansOf
  <2>4. ASSUME NEW e \in Clients PROVE Found(downloads[e])'
    <3>1. CASE e = d
      BY <1>0, <2>1, <3>1 DEF Found, NoDownload
    <3>2. CASE e # d
      <4>1. Found(downloads[e]) /\ downloads'[e] = downloads[e]
        BY <2>1, <3>2 DEF IInv, ReadsHold
      <4> QED BY <2>1, <4>1 DEF Found, Known, Governed, Cleared, ScansOf
    <3> QED BY <3>1, <3>2
  <2>5. \A g \in granted : Justified(g)'
    BY FoundStays
  <2> HIDE DEF grant
  <2>6. \A g \in granted' : Justified(g)'
    BY <2>1, <2>3, <2>5
  <2> QED BY <2>4, <2>6 DEF ReadsHold
<1>6. ASSUME NEW d \in Clients, DownloadDenied(d) PROVE ReadsHold'
  <2>1. downloads' = [downloads EXCEPT ![d] = NoDownload] /\ UNCHANGED granted
    BY <1>6 DEF DownloadDenied
  <2>2. Found(downloads[d])'
    BY <1>0, <2>1 DEF Found, NoDownload
  <2> QED BY <1>0, <2>1, <2>2, ReadsKept
<1>7. ASSUME UploadNext PROVE UNCHANGED reads
  BY <1>7 DEF UploadNext, Initiate, Stage, Finalize, Abort
<1>8. ASSUME ObjectNext PROVE UNCHANGED reads
  BY <1>8 DEF ObjectNext, MarkDeleted, Restore, ApplyRetention, SetLegalHold, RecordMalwareScan
<1>9. ASSUME Tick \/ UNCHANGED vars PROVE UNCHANGED reads
  BY <1>9 DEF Tick, vars
<1> QED BY <1>1, <1>2, <1>3, <1>4, <1>5, <1>6, <1>7, <1>8, <1>9 DEF Next, DownloadNext

LEMMA Inductive == IInv /\ [Next]_vars => IInv'
BY TypeStep, VersionsStep, EventsStep, ScansStep, PromisedStep, ReadsStep DEF IInv

LEMMA Invariance == Spec => []IInv
BY Initially, Inductive, PTL DEF Spec

-----------------------------------------------------------------------------
\* Type correctness of the stores and of the downloads under way.
THEOREM TypeCorrect == Spec => []TypeOK
<1>1. IInv => TypeOK
  BY DEF IInv
<1> QED BY <1>1, Invariance, PTL

\* The versions of an object correspond to its finalized uploads.
LEMMA AsManyVersions ==
  ASSUME TypeOK, VersionsOwn, NEW o \in Objects
  PROVE  LET mine == {v \in versions : v.o = o}
             done == {u \in Uploads : ObjectOf[u] = o /\ uploads[u].status = "finalized"}
         IN  {v.upload : v \in mine} = done /\ Cardinality(mine) = Cardinality(done)
<1> DEFINE mine == {v \in versions : v.o = o}
           done == {u \in Uploads : ObjectOf[u] = o /\ uploads[u].status = "finalized"}
           f == [v \in mine |-> v.upload]
<1>1. \A v \in mine : v.upload \in done
  BY DEF TypeOK, VersionsOwn, ObjectVersion
<1>2. \A u \in done : \E v \in mine : v.upload = u
  BY DEF VersionsOwn
<1>3. {v.upload : v \in mine} = done
  BY <1>1, <1>2
<1>4. IsFiniteSet(mine)
  BY FS_Subset DEF VersionsOwn
<1>5. f \in Bijection(mine, done)
  <2>1. f \in [mine -> done] /\ \A v \in mine : f[v] = v.upload
    BY <1>1
  <2>2. \A v, w \in mine : f[v] = f[w] => v = w
    BY <2>1 DEF VersionsOwn
  <2>3. \A u \in done : \E v \in mine : f[v] = u
    BY <1>2, <2>1
  <2> HIDE DEF mine, done, f
  <2> QED BY <2>1, <2>2, <2>3 DEF Bijection, Injection, Surjection, IsInjective
<1>6. Cardinality(done) = Cardinality(mine)
  <2> HIDE DEF mine, done, f
  <2> QED BY <1>4, <1>5, FS_Bijection DEF ExistsBijection
<1> QED BY <1>3, <1>6

\* The version history, the events and the scans agree, for any number of
\* uploads and scanners.
THEOREM HistoriesAddUp == Spec => []HistoryAddsUp
<1>1. ASSUME IInv PROVE HistoryAddsUp
  <2>0. TypeOK /\ VersionsOwn /\ EventsTell /\ ScansOrdered
    BY <1>1 DEF IInv
  <2>1. ASSUME NEW o \in Objects
        PROVE  LET mine == {v \in versions : v.o = o}
                   done == {u \in Uploads : ObjectOf[u] = o /\ uploads[u].status = "finalized"}
               IN
               /\ {v.number : v \in mine} = 1 .. objects[o].number
               /\ {v.upload : v \in mine} = done
               /\ Cardinality(mine) = Cardinality(done)
               /\ {e \in outbox : e[1] = "finalized" /\ e[2] = o} =
                    {<<"finalized", o, v.number>> : v \in mine}
    <3> DEFINE mine == {v \in versions : v.o = o}
    <3>1. {v.number : v \in mine} = 1 .. objects[o].number
      BY <2>0 DEF VersionsOwn
    <3>2. {e \in outbox : e[1] = "finalized" /\ e[2] = o} =
            {<<"finalized", o, v.number>> : v \in mine}
      BY <2>0 DEF EventsTell
    <3> QED BY <2>0, <3>1, <3>2, AsManyVersions
  <2>2. \A a, b \in scans : a.source = b.source => a = b
    BY <2>0 DEF ScansOrdered
  <2>3. {e \in outbox : e[1] = "infected"} =
          {<<"infected", s.source>> : s \in {s \in scans : s.status = "infected"}}
    BY <2>0 DEF EventsTell
  <2> QED BY <2>1, <2>2, <2>3 DEF HistoryAddsUp
<1> QED BY <1>1, Invariance, PTL

\* A download is granted only for a version that was found clean, and a
\* governed object has its policies, whatever happens between the reads.
THEOREM GrantsStayJustified == Spec => []GrantsAreJustified
<1>1. IInv => GrantsAreJustified
  BY DEF IInv, ReadsHold, Justified, Known, Governed, Cleared, GrantsAreJustified
<1> QED BY <1>1, Invariance, PTL

\* No object is deleted sooner than any of its sessions has asked, unless its
\* retention was shortened by an administrator.
THEOREM PromisesKept == Spec => KeptAsPromised
<1>1. ASSUME IInv, [Next]_vars, NEW o \in Objects,
             objects[o].status = "active", objects'[o].status = "deleted"
      PROVE  o \in overridden \/ \A v \in versions : v.o = o => uploads[v.upload].retain <= now
  <2>1. objects' # objects /\ objects \in [Objects -> StoredObject]
    BY <1>1 DEF IInv, TypeOK
  <2>2. ASSUME NEW u \in Uploads, Finalize(u) PROVE FALSE
    BY <1>1, <2>1, <2>2 DEF Finalize
  <2>3. ASSUME NEW p \in Objects, Restore(p) PROVE FALSE
    BY <1>1, <2>1, <2>3 DEF Restore, StoredObject, NoObject
  <2>4. PICK p \in Objects : MarkDeleted(p)
    BY <1>1, <2>1, <2>2, <2>3
       DEF Next, UploadNext, ObjectNext, DownloadNext, Initiate, Stage, Abort, ApplyRetention,
           SetLegalHold, RecordMalwareScan, DownloadObject, DownloadPolicies, DownloadScans,
           DownloadGrant, DownloadDenied, Tick, records, vars
  <2>5. p = o /\ retention[o] <= now
    BY <1>1, <2>1, <2>4 DEF MarkDeleted
  <2>6. ASSUME o \notin overridden, NEW v \in versions, v.o = o
        PROVE  uploads[v.upload].retain <= now
    <3>1. v.upload \in Uploads /\ ObjectOf[v.upload] = o
      BY <1>1, <2>6 DEF IInv, TypeOK, VersionsOwn, ObjectVersion
    <3>2. uploads[v.upload].retain <= retention[o]
      BY <1>1, <2>6, <3>1 DEF IInv, Promised
    <3>3. uploads[v.upload].retain \in Nat /\ retention[o] \in Nat /\ now \in Nat
      <4>1. {0} \cup Deadlines \subseteq Nat
        BY StorageAssumption
      <4>2. /\ uploads \in [Uploads -> UploadSession] /\ now \in Nat
            /\ retention \in [Objects -> {0} \cup Deadlines]
        BY <1>1 DEF IInv, TypeOK
      <4> QED BY <3>1, <4>1, <4>2 DEF UploadSession
    <3> QED BY <2>5, <3>2, <3>3
  <2> QED BY <2>6
<1>2. IInv /\ [Next]_vars =>
        [\A o \in Objects :
           objects[o].status = "active" /\ objects'[o].status = "deleted" =>
              \/ o \in overridden
              \/ \A v \in versions : v.o = o => uploads[v.upload].retain <= now]_vars
  BY <1>1
<1> QED BY <1>2, Invariance, PTL DEF Spec, KeptAsPromised
=============================================================================
