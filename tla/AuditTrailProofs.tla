-------------------------- MODULE AuditTrailProofs --------------------------
(***************************************************************************)
(* Safety of the outbox under any number of records and workers, and of    *)
(* refused units of work that put a copy of it back: whatever is claimed   *)
(* of the records must hold of the copy as well (CopiesSound). Until a     *)
(* copy is put back, versions only grow, and a claim takes a version that  *)
(* no dispatch under way has (DispatchesAge); so at most one dispatch can  *)
(* still finish a claim.                                                   *)
(* Then the audit service: its chains, and the checkpoints and exports     *)
(* made of them. Last, the outbox that publishes to the audit service.     *)
(***************************************************************************)
EXTENDS AuditTrail, FiniteSetTheorems, SequenceTheorems, TLAPS

\* A resolved record waits for nothing.
Rested(rec) == rec.status \in TerminalRecord => rec.wait = 0 /\ rec.lease = 0

\* The copy of a unit of work holds no more than the downstream has accepted.
CopiesSound ==
    \A s \in snapshots : \A i \in Records :
        Rested(s[i]) /\ (s[i].status = "accepted" => i \in published)

IInv ==
    /\ TypeOK /\ DispatchesAge /\ AcceptedWasPublished /\ CopiesSound
    /\ \A i \in Records : Rested(records[i])

\* A claim keeps a record a record and moves its version on.
LEMMA ClaimStep ==
  ASSUME NEW rec \in OutboxRecord, NEW owner \in Owners
  PROVE  /\ AfterClaim(rec, owner) \in OutboxRecord
         /\ AfterClaim(rec, owner).version = rec.version + 1
         /\ AfterClaim(rec, owner).status = "claimed"
<1> DEFINE new == AfterClaim(rec, owner)
<1>1. PICK attempts \in Nat : attempts = rec.attempts + 1
  BY DEF OutboxRecord
<1>2. PICK version \in Nat : version = rec.version + 1
  BY DEF OutboxRecord
<1>3. LeaseTicks \in Nat /\ "claimed" \in OutboxStatus
  BY OutboxAssumption DEF OutboxStatus
<1>4. new = [rec EXCEPT !.status = "claimed", !.attempts = attempts, !.wait = 0,
                        !.owner = owner, !.lease = LeaseTicks, !.version = version]
  BY <1>1, <1>2, Zenon DEF AfterClaim
<1>5. attempts \in Nat /\ version \in Nat
  BY <1>1, <1>2
<1> HIDE DEF new
<1>6. new \in OutboxRecord /\ new.version = version /\ new.status = "claimed"
  BY <1>3, <1>4, <1>5 DEF OutboxRecord
<1>7. new \in OutboxRecord /\ new.version = rec.version + 1 /\ new.status = "claimed"
  BY <1>2, <1>6
<1> QED BY <1>7 DEF new

\* So does everything that gives a claim up.
LEMMA UnleaseStep ==
  ASSUME NEW rec \in OutboxRecord, NEW status \in TerminalRecord \cup {"pending"},
         NEW n \in Nat, status = "pending" \/ n = 0
  PROVE  /\ Unleased(rec, status, n) \in OutboxRecord
         /\ Unleased(rec, status, n).version = rec.version + 1
         /\ Unleased(rec, status, n).status = status
         /\ Rested(Unleased(rec, status, n))
<1>1. status \in OutboxStatus /\ (status = "pending" => status \notin TerminalRecord)
  BY DEF OutboxStatus, TerminalRecord
<1> DEFINE new == Unleased(rec, status, n)
<1>2. PICK version \in Nat : version = rec.version + 1
  BY DEF OutboxRecord
<1>3. new = [rec EXCEPT !.status = status, !.wait = n, !.owner = Nobody, !.lease = 0,
                        !.version = version]
  BY <1>2, Zenon DEF Unleased
<1>4. version \in Nat
  BY <1>2
<1> HIDE DEF new
<1>5. /\ new \in OutboxRecord /\ new.version = version /\ new.status = status
      /\ new.wait = n /\ new.lease = 0
  BY <1>1, <1>3, <1>4 DEF OutboxRecord
<1>6. /\ new \in OutboxRecord /\ new.version = rec.version + 1 /\ new.status = status
      /\ Rested(new)
  BY <1>1, <1>2, <1>5 DEF Rested
<1> QED BY <1>6 DEF new

\* An acknowledged record is accepted.
LEMMA AcknowledgeStep ==
  ASSUME NEW rec \in OutboxRecord
  PROVE  /\ AfterAcknowledge(rec) \in OutboxRecord
         /\ AfterAcknowledge(rec).version = rec.version + 1
         /\ AfterAcknowledge(rec).status # "none"
         /\ Rested(AfterAcknowledge(rec))
  BY UnleaseStep DEF AfterAcknowledge, TerminalRecord

\* A retried record is not.
LEMMA RetryStep ==
  ASSUME NEW rec \in OutboxRecord, NEW wait \in Nat
  PROVE  /\ AfterRetry(rec, wait) \in OutboxRecord
         /\ AfterRetry(rec, wait).version = rec.version + 1
         /\ AfterRetry(rec, wait).status \notin {"accepted", "none"}
         /\ Rested(AfterRetry(rec, wait))
<1>1. CASE Exhausted(rec)
  BY <1>1, UnleaseStep DEF AfterRetry, TerminalRecord
<1>2. CASE ~Exhausted(rec)
  BY <1>2, UnleaseStep DEF AfterRetry
<1> QED BY <1>1, <1>2

\* Time changes neither version nor status, and a resolved record not at all.
LEMMA TickStep ==
  ASSUME NEW rec \in OutboxRecord
  PROVE  /\ AfterTick(rec) \in OutboxRecord
         /\ AfterTick(rec).version = rec.version
         /\ AfterTick(rec).status = rec.status
         /\ Rested(rec) => Rested(AfterTick(rec))
         /\ Rested(rec) /\ rec.status \in TerminalRecord => AfterTick(rec) = rec
<1> DEFINE down(n) == IF n > 0 THEN n - 1 ELSE 0
<1>1. rec.wait \in Nat /\ rec.lease \in Nat
  BY DEF OutboxRecord
<1>2. down(rec.wait) \in Nat /\ down(rec.lease) \in Nat /\ down(0) = 0
  BY <1>1
<1>3. AfterTick(rec) = [rec EXCEPT !.wait = down(rec.wait), !.lease = down(rec.lease)]
  BY DEF AfterTick
<1> HIDE DEF down
<1> QED BY <1>2, <1>3 DEF OutboxRecord, Rested

\* No record is stored and nothing is under way at the start.
LEMMA InitInv == Init => IInv
<1> SUFFICES ASSUME Init PROVE IInv
  OBVIOUS
<1>1. NoRecord \in OutboxRecord /\ NoRecord.status = "none" /\ Rested(NoRecord)
  BY DEF NoRecord, OutboxRecord, OutboxStatus, TerminalRecord, Nobody, Rested
<1>2. \A i \in Records : records[i] = NoRecord
  BY DEF Init
<1> QED BY <1>1, <1>2 DEF Init, IInv, TypeOK, DispatchesAge, AcceptedWasPublished,
                           CopiesSound

\* Every step keeps the invariant: one case per action.
LEMMA NextInv == IInv /\ [Next]_vars => IInv'
<1> SUFFICES ASSUME IInv, [Next]_vars PROVE IInv'
  OBVIOUS
<1> USE DispatcherAssumption, OutboxAssumption DEF IInv
<1>0. ASSUME UNCHANGED units, published \subseteq published' PROVE CopiesSound'
  BY <1>0 DEF units, CopiesSound
<1>1. ASSUME NEW i \in Records, Enqueue(i) PROVE IInv'
  <2> DEFINE rec == NewRecord(MaxAttempts)
  <2>1. rec \in OutboxRecord /\ rec.status = "pending" /\ rec.version = 1 /\ Rested(rec)
    BY DEF NewRecord, NoRecord, OutboxRecord, OutboxStatus, TerminalRecord, Nobody, Rested
  <2>2. records[i].version = 0
    BY <1>1 DEF Enqueue, NoRecord
  <2>3. /\ records' = [records EXCEPT ![i] = rec]
        /\ UNCHANGED <<workers, published, tries, snapshots, refusals>>
    BY <1>1 DEF Enqueue, units
  <2> HIDE DEF rec
  <2>4. CopiesSound'
    BY <1>0, <2>3 DEF units
  <2> QED BY <2>1, <2>2, <2>3, <2>4
          DEF TypeOK, DispatchesAge, AcceptedWasPublished, Dispatch, Rested
<1>2. ASSUME NEW w \in Workers, NEW i \in Records, Claim(w, i) PROVE IInv'
  <2> DEFINE rec == AfterClaim(records[i], OwnerOf[w])
             dispatch == [stage |-> "claimed", id |-> i, version |-> records[i].version + 1]
  <2>1. rec \in OutboxRecord /\ rec.version = records[i].version + 1 /\ rec.status = "claimed"
        /\ records[i].version \in Nat
    BY ClaimStep DEF TypeOK, OutboxRecord
  <2>2. records' = [records EXCEPT ![i] = rec] /\ workers' = [workers EXCEPT ![w] = dispatch]
        /\ UNCHANGED <<published, tries, snapshots, refusals>>
    BY <1>2 DEF Claim, units
  <2>3. dispatch \in Dispatch
    BY <2>1 DEF Dispatch
  <2> HIDE DEF rec
  <2>4. TypeOK'
    BY <2>1, <2>2, <2>3 DEF TypeOK
  <2>5. DispatchesAge'
    BY <2>1, <2>2 DEF TypeOK, DispatchesAge, Dispatch
  <2>6. AcceptedWasPublished' /\ \A j \in Records : Rested(records'[j])
    BY <2>1, <2>2 DEF TypeOK, AcceptedWasPublished, Rested, TerminalRecord
  <2>7. CopiesSound'
    BY <1>0, <2>2 DEF units
  <2> QED BY <2>4, <2>5, <2>6, <2>7 DEF Rested
<1>3. ASSUME NEW w \in Workers, Publish(w) PROVE IInv'
  <2>1. workers[w] \in Dispatch
    BY <1>3 DEF Publish, TypeOK, Resting
  <2>2. UNCHANGED <<records, snapshots, refusals>> /\ published \subseteq published'
    BY <1>3 DEF Publish, units
  <2>3. CopiesSound'
    BY <1>0, <2>2 DEF units
  <2> QED BY <1>3, <2>1, <2>2, <2>3
          DEF Publish, TypeOK, DispatchesAge, AcceptedWasPublished, Dispatch, Resting, Rested
<1>4. ASSUME NEW w \in Workers, Acknowledge(w) PROVE IInv'
  <2> DEFINE i == workers[w].id  rec == AfterAcknowledge(records[i])
  <2>1. i \in Records /\ i \in published
    BY <1>4 DEF Acknowledge, TypeOK, Resting, Dispatch, DispatchesAge
  <2>2. rec \in OutboxRecord /\ rec.version = records[i].version + 1 /\ records[i].version \in Nat
        /\ Rested(rec)
    BY <2>1, AcknowledgeStep DEF TypeOK, OutboxRecord
  <2>3. /\ records' = records \/ records' = [records EXCEPT ![i] = rec]
        /\ workers' = [workers EXCEPT ![w] = Resting]
        /\ UNCHANGED <<published, tries, snapshots, refusals>>
    BY <1>4 DEF Acknowledge, units
  <2> HIDE DEF rec
  <2>4. CopiesSound'
    BY <1>0, <2>3 DEF units
  <2> QED BY <2>1, <2>2, <2>3, <2>4
          DEF TypeOK, DispatchesAge, AcceptedWasPublished, Dispatch, Rested
<1>5. ASSUME NEW w \in Workers, NEW wait \in 0 .. MaxWait, Retry(w, wait) PROVE IInv'
  <2> DEFINE i == workers[w].id  rec == AfterRetry(records[i], wait)
  <2>1. i \in Records /\ wait \in Nat
    BY <1>5 DEF Retry, TypeOK, Resting, Dispatch
  <2>2. rec \in OutboxRecord /\ rec.version = records[i].version + 1 /\ records[i].version \in Nat
        /\ rec.status # "accepted" /\ Rested(rec)
    BY <2>1, RetryStep DEF TypeOK, OutboxRecord
  <2>3. /\ records' = records \/ records' = [records EXCEPT ![i] = rec]
        /\ workers' = [workers EXCEPT ![w] = Resting]
        /\ UNCHANGED <<published, tries, snapshots, refusals>>
    BY <1>5 DEF Retry, units
  <2> HIDE DEF rec
  <2>4. CopiesSound'
    BY <1>0, <2>3 DEF units
  <2> QED BY <2>1, <2>2, <2>3, <2>4
          DEF TypeOK, DispatchesAge, AcceptedWasPublished, Dispatch, Rested
<1>6. ASSUME NEW w \in Workers, Crash(w) PROVE IInv'
  BY <1>0, <1>6 DEF Crash, units, TypeOK, DispatchesAge, AcceptedWasPublished, Rested
<1>7. CASE Tick
  <2>1. \A i \in Records : /\ records'[i] = AfterTick(records[i])
                           /\ records'[i] \in OutboxRecord
                           /\ records'[i].version = records[i].version
                           /\ records'[i].status = records[i].status
                           /\ Rested(records'[i])
    BY <1>7, TickStep DEF Tick, Aged, TypeOK
  <2>2. UNCHANGED <<workers, published, tries, refusals>>
    BY <1>7 DEF Tick
  <2>3. ASSUME NEW s \in snapshots PROVE Aged(s) \in [Records -> OutboxRecord]
    <3>1. s \in [Records -> OutboxRecord]
      BY DEF TypeOK
    <3> QED BY <3>1, TickStep DEF Aged
  <2>4. \A new \in snapshots' : \E s \in snapshots : new = Aged(s)
    BY <1>7 DEF Tick
  <2>5. TypeOK'
    <3>1. records' \in [Records -> OutboxRecord]
      BY <1>7, <2>1 DEF Tick, Aged
    <3>2. snapshots' \subseteq [Records -> OutboxRecord]
      BY <2>3, <2>4
    <3> QED BY <2>2, <3>1, <3>2 DEF TypeOK
  <2>6. DispatchesAge'
    BY <2>1, <2>2 DEF TypeOK, DispatchesAge, Dispatch
  <2>7. CopiesSound'
    <3>1. ASSUME NEW new \in snapshots', NEW i \in Records
          PROVE  Rested(new[i]) /\ (new[i].status = "accepted" => i \in published')
      <4>1. PICK s \in snapshots : new = Aged(s)
        BY <2>4
      <4>2. s[i] \in OutboxRecord /\ new[i] = AfterTick(s[i])
        BY <4>1 DEF TypeOK, Aged
      <4>3. Rested(s[i]) /\ (s[i].status = "accepted" => i \in published)
        BY DEF CopiesSound
      <4> QED BY <2>2, <4>2, <4>3, TickStep
    <3> QED BY <3>1 DEF CopiesSound
  <2> QED BY <2>1, <2>2, <2>5, <2>6, <2>7 DEF AcceptedWasPublished, Rested
<1>8. CASE EnterUnit
  <2>1. /\ snapshots' = {records}
        /\ UNCHANGED <<records, workers, published, tries, refusals>>
    BY <1>8 DEF EnterUnit, TypeOK
  <2> QED BY <2>1 DEF TypeOK, DispatchesAge, AcceptedWasPublished, CopiesSound, Rested
<1>9. CASE RefuseUnit
  <2>1. PICK s \in snapshots : records' = s
    BY <1>9 DEF RefuseUnit
  <2>2. /\ snapshots' = {} /\ refusals' = refusals + 1
        /\ UNCHANGED <<workers, published, tries>>
    BY <1>9 DEF RefuseUnit
  <2>3. refusals' # 0
    BY <2>2 DEF TypeOK
  <2>4. TypeOK'
    BY <2>1, <2>2 DEF TypeOK
  <2>5. \A i \in Records : Rested(records'[i]) /\ (records'[i].status = "accepted" => i \in published)
    BY <2>1 DEF CopiesSound
  <2> QED BY <2>2, <2>3, <2>4, <2>5 DEF DispatchesAge, AcceptedWasPublished, CopiesSound, Rested
<1>10. CASE UNCHANGED vars
  BY <1>0, <1>10 DEF vars, units, TypeOK, DispatchesAge, AcceptedWasPublished, Rested
<1> QED BY <1>1, <1>2, <1>3, <1>4, <1>5, <1>6, <1>7, <1>8, <1>9, <1>10 DEF Next

\* The invariant holds in every state.
LEMMA Invariance == Spec => []IInv
  BY InitInv, NextInv, PTL DEF Spec

\* Records, dispatches and counters keep their types.
THEOREM TypeCorrect == Spec => []TypeOK
  BY Invariance, PTL DEF IInv

\* No record is acknowledged before the downstream has accepted its event.
THEOREM AcknowledgedAfterAcceptance == Spec => []AcceptedWasPublished
  BY Invariance, PTL DEF IInv

\* The publisher is called once per claim at most: the workers that claimed a
\* record and did not call it yet count with the calls that were made. A refused
\* unit of work takes no more than MaxAttempts attempts back.
Spare == MaxAttempts * refusals
Due(i) == {w \in Workers : workers[w].stage = "claimed" /\ workers[w].id = i}
Counted ==
    \A i \in Records :
        /\ IsFiniteSet(Due(i))
        /\ tries[i] + Cardinality(Due(i)) <= records[i].attempts + Spare
        /\ records[i].attempts <= MaxAttempts /\ records[i].max <= MaxAttempts
CopiesCounted ==
    \A s \in snapshots : \A i \in Records :
        s[i].attempts <= MaxAttempts /\ s[i].max <= MaxAttempts

LEMMA AttemptsKept ==
  ASSUME NEW rec \in OutboxRecord, NEW wait
  PROVE  /\ AfterAcknowledge(rec).attempts = rec.attempts
         /\ AfterAcknowledge(rec).max = rec.max
         /\ AfterRetry(rec, wait).attempts = rec.attempts
         /\ AfterRetry(rec, wait).max = rec.max
         /\ AfterTick(rec).attempts = rec.attempts /\ AfterTick(rec).max = rec.max
<1>1. ASSUME NEW status PROVE /\ Unleased(rec, status, 0).attempts = rec.attempts
                              /\ Unleased(rec, status, 0).max = rec.max
                              /\ Unleased(rec, status, wait).attempts = rec.attempts
                              /\ Unleased(rec, status, wait).max = rec.max
  BY DEF Unleased, OutboxRecord
<1>2. AfterTick(rec).attempts = rec.attempts /\ AfterTick(rec).max = rec.max
  BY DEF AfterTick, OutboxRecord
<1> QED BY <1>1, <1>2 DEF AfterAcknowledge, AfterRetry

LEMMA CountedNext ==
  ASSUME IInv, Counted, CopiesCounted, [Next]_vars
  PROVE  Counted'
<1> USE DispatcherAssumption, OutboxAssumption DEF IInv
<1>1. \A i \in Records : /\ records[i] \in OutboxRecord /\ records[i].attempts \in Nat
                         /\ records[i].max \in Nat /\ tries[i] \in Nat
  BY DEF TypeOK, OutboxRecord
<1>2. \A i \in Records : IsFiniteSet(Due(i)) /\ Cardinality(Due(i)) \in Nat
  BY FS_CardinalityType DEF Counted
<1>0. Spare \in Nat /\ (refusals' = refusals => Spare' = Spare)
  BY DEF Spare, TypeOK
\* A step that makes no dispatch due, calls no publisher and claims nothing.
<1>3. ASSUME tries' = tries, refusals' = refusals,
             \A i \in Records : /\ Due(i)' \subseteq Due(i)
                               /\ records'[i].attempts = records[i].attempts
                               /\ records'[i].max <= MaxAttempts
      PROVE  Counted'
  <2>1. ASSUME NEW i \in Records
        PROVE  IsFiniteSet(Due(i)') /\ Cardinality(Due(i)') <= Cardinality(Due(i))
               /\ Cardinality(Due(i)') \in Nat
    <3>1. IsFiniteSet(Due(i)') /\ Cardinality(Due(i)') <= Cardinality(Due(i))
      BY <1>2, <1>3, FS_Subset
    <3> QED BY <3>1, FS_CardinalityType
  <2>2. ASSUME NEW i \in Records
        PROVE  /\ tries'[i] + Cardinality(Due(i)') <= records'[i].attempts + Spare'
               /\ records'[i].attempts <= MaxAttempts /\ records'[i].max <= MaxAttempts
    BY <1>0, <1>1, <1>2, <1>3, <2>1 DEF Counted
  <2> QED BY <2>1, <2>2 DEF Counted
<1>4. ASSUME NEW i \in Records, Enqueue(i) PROVE Counted'
  <2> DEFINE rec == NewRecord(MaxAttempts)
  <2>1. rec.attempts = 0 /\ rec.max = MaxAttempts /\ records[i].attempts = 0
    BY <1>4 DEF NewRecord, NoRecord, Enqueue
  <2>2. records' = [records EXCEPT ![i] = rec] /\ UNCHANGED <<workers, tries, refusals>>
    BY <1>4 DEF Enqueue, units
  <2> HIDE DEF rec
  <2>3. \A j \in Records : /\ records'[j].attempts = records[j].attempts
                           /\ records'[j].max <= MaxAttempts /\ Due(j)' \subseteq Due(j)
    <3>1. MaxAttempts <= MaxAttempts
      OBVIOUS
    <3>2. \A j \in Records : records'[j] = IF j = i THEN rec ELSE records[j]
      BY <2>2 DEF TypeOK
    <3>3. \A j \in Records : Due(j)' = Due(j)
      BY <2>2 DEF Due
    <3> QED BY <2>1, <3>1, <3>2, <3>3 DEF Counted
  <2> QED BY <1>3, <2>2, <2>3
<1>5. ASSUME NEW w \in Workers, NEW i \in Records, Claim(w, i) PROVE Counted'
  <2> DEFINE rec == AfterClaim(records[i], OwnerOf[w])
             dispatch == [stage |-> "claimed", id |-> i, version |-> records[i].version + 1]
  <2>1. rec.attempts = records[i].attempts + 1 /\ rec.max = records[i].max
    BY <1>1 DEF AfterClaim, OutboxRecord
  <2>2. /\ records' = [records EXCEPT ![i] = rec] /\ workers' = [workers EXCEPT ![w] = dispatch]
        /\ UNCHANGED <<tries, refusals>>
        /\ workers[w] = Resting /\ records[i].attempts < records[i].max
    BY <1>1, <1>5 DEF Claim, Claimable, Exhausted, units
  <2>3. dispatch.stage = "claimed" /\ dispatch.id = i
    OBVIOUS
  <2> HIDE DEF rec, dispatch
  <2>4. Due(i)' = Due(i) \cup {w} /\ w \notin Due(i)
    BY <2>2, <2>3 DEF TypeOK, Due, Resting
  <2>5. IsFiniteSet(Due(i)') /\ Cardinality(Due(i)') = Cardinality(Due(i)) + 1
    BY <1>2, <2>4, FS_AddElement
  <2>6. /\ tries'[i] + Cardinality(Due(i)') <= records'[i].attempts + Spare'
        /\ records'[i].attempts <= MaxAttempts /\ records'[i].max <= MaxAttempts
    BY <1>0, <1>1, <1>2, <2>1, <2>2, <2>5 DEF TypeOK, Counted
  <2>7. \A j \in Records \ {i} : Due(j)' = Due(j) /\ records'[j] = records[j]
    BY <2>2, <2>3 DEF TypeOK, Due, Resting
  <2> QED BY <1>0, <2>2, <2>5, <2>6, <2>7 DEF Counted
<1>6. ASSUME NEW w \in Workers, Publish(w) PROVE Counted'
  <2>0. workers[w] \in Dispatch
    BY <1>6 DEF Publish, TypeOK, Resting
  <2>1. PICK i \in Records : i = workers[w].id
    BY <2>0 DEF Dispatch
  <2>2. /\ tries' = [tries EXCEPT ![i] = @ + 1] /\ UNCHANGED <<records, refusals>>
        /\ \E stage \in {"published", "failed"} : workers' = [workers EXCEPT ![w].stage = stage]
        /\ workers[w].stage = "claimed"
    BY <1>6, <2>1 DEF Publish, units
  <2>3. Due(i)' = Due(i) \ {w} /\ w \in Due(i)
    BY <2>1, <2>2 DEF TypeOK, Due
  <2>4. IsFiniteSet(Due(i)') /\ Cardinality(Due(i)') = Cardinality(Due(i)) - 1
    BY <1>2, <2>1, <2>3, FS_RemoveElement
  <2>5. tries'[i] + Cardinality(Due(i)') <= records'[i].attempts + Spare'
    BY <1>0, <1>1, <1>2, <2>1, <2>2, <2>4 DEF TypeOK, Counted
  <2>6. \A j \in Records \ {i} : Due(j)' = Due(j) /\ tries'[j] = tries[j]
    BY <2>1, <2>2 DEF TypeOK, Due
  <2>7. ASSUME NEW j \in Records
        PROVE  /\ IsFiniteSet(Due(j)')
               /\ tries'[j] + Cardinality(Due(j)') <= records'[j].attempts + Spare'
               /\ records'[j].attempts <= MaxAttempts /\ records'[j].max <= MaxAttempts
    <3>1. CASE j = i
      BY <2>2, <2>4, <2>5, <3>1 DEF Counted
    <3>2. CASE j # i
      <4>1. /\ Due(j)' = Due(j) /\ tries'[j] = tries[j] /\ records'[j] = records[j]
            /\ Spare' = Spare
        BY <1>0, <2>2, <2>6, <3>2
      <4>2. /\ IsFiniteSet(Due(j))
            /\ tries[j] + Cardinality(Due(j)) <= records[j].attempts + Spare
            /\ records[j].attempts <= MaxAttempts /\ records[j].max <= MaxAttempts
        BY DEF Counted
      <4> QED BY <4>1, <4>2
    <3> QED BY <3>1, <3>2
  <2> QED BY <2>7 DEF Counted
<1>7. ASSUME NEW w \in Workers, NEW rec, workers[w] # Resting,
             rec.attempts = records[workers[w].id].attempts,
             rec.max = records[workers[w].id].max,
             records' = records \/ records' = [records EXCEPT ![workers[w].id] = rec],
             workers' = [workers EXCEPT ![w] = Resting], tries' = tries, refusals' = refusals
      PROVE  Counted'
  <2>1. \A i \in Records : Due(i)' \subseteq Due(i)
    BY <1>7 DEF TypeOK, Due, Resting
  <2>2. \A i \in Records : /\ records'[i].attempts = records[i].attempts
                           /\ records'[i].max = records[i].max
    BY <1>7 DEF TypeOK
  <2> QED BY <1>3, <1>7, <2>1, <2>2 DEF Counted
<1>8. \A w \in Workers : workers[w] # Resting => records[workers[w].id] \in OutboxRecord
  BY DEF TypeOK, Dispatch
<1>9. ASSUME NEW w \in Workers, Acknowledge(w) PROVE Counted'
  <2>1. workers[w] # Resting
    BY <1>9 DEF Acknowledge, Resting
  <2> QED BY <1>7, <1>8, <1>9, <2>1, AttemptsKept DEF Acknowledge, units
<1>10. ASSUME NEW w \in Workers, NEW wait \in 0 .. MaxWait, Retry(w, wait) PROVE Counted'
  <2>1. workers[w] # Resting
    BY <1>10 DEF Retry, Resting
  <2> QED BY <1>7, <1>8, <1>10, <2>1, AttemptsKept DEF Retry, units
<1>11. ASSUME NEW w \in Workers, Crash(w) PROVE Counted'
  BY <1>7, <1>11 DEF Crash, units
<1>12. CASE Tick
  <2>1. \A i \in Records : records'[i] = AfterTick(records[i])
    BY <1>12 DEF Tick, Aged
  <2>2. UNCHANGED <<workers, tries, refusals>>
    BY <1>12 DEF Tick
  <2>3. \A i \in Records : /\ records'[i].attempts = records[i].attempts
                           /\ records'[i].max = records[i].max
    BY <1>1, <2>1, AttemptsKept
  <2> QED BY <1>3, <2>2, <2>3 DEF Counted, Due
<1>13. CASE EnterUnit
  <2>1. UNCHANGED <<records, workers, tries, refusals>>
    BY <1>13 DEF EnterUnit
  <2> QED BY <1>3, <2>1 DEF Counted, Due
<1>14. CASE RefuseUnit
  <2>1. PICK s \in snapshots : records' = s
    BY <1>14 DEF RefuseUnit
  <2>2. UNCHANGED <<workers, tries>> /\ refusals' = refusals + 1
    BY <1>14 DEF RefuseUnit
  <2>3. Spare' = Spare + MaxAttempts
    BY <2>2 DEF Spare, TypeOK
  <2>4. ASSUME NEW i \in Records
        PROVE  /\ IsFiniteSet(Due(i)')
               /\ tries'[i] + Cardinality(Due(i)') <= records'[i].attempts + Spare'
               /\ records'[i].attempts <= MaxAttempts /\ records'[i].max <= MaxAttempts
    <3>1. Due(i)' = Due(i) /\ tries'[i] = tries[i]
      BY <2>2 DEF Due
    <3>2. s[i].attempts \in Nat
      BY DEF TypeOK, OutboxRecord
    <3>3. s[i].attempts <= MaxAttempts /\ s[i].max <= MaxAttempts
      BY DEF CopiesCounted
    <3>4. /\ IsFiniteSet(Due(i)) /\ records[i].attempts <= MaxAttempts
          /\ tries[i] + Cardinality(Due(i)) <= records[i].attempts + Spare
      BY DEF Counted
    <3>5. tries[i] + Cardinality(Due(i)) <= s[i].attempts + Spare'
      BY <1>0, <1>1, <1>2, <2>3, <3>2, <3>4
    <3> QED BY <2>1, <3>1, <3>3, <3>4, <3>5
  <2> QED BY <2>4 DEF Counted
<1>15. CASE UNCHANGED vars
  BY <1>3, <1>15 DEF vars, Counted, Due
<1> QED BY <1>4, <1>5, <1>6, <1>9, <1>10, <1>11, <1>12, <1>13, <1>14, <1>15 DEF Next

\* A copy holds what records held.
LEMMA CopiesCountedNext ==
  ASSUME IInv, Counted, CopiesCounted, [Next]_vars
  PROVE  CopiesCounted'
<1>1. CASE EnterUnit
  <2>1. snapshots' = {records}
    BY <1>1 DEF EnterUnit
  <2> QED BY <2>1 DEF Counted, CopiesCounted
<1>2. CASE Tick
  <2>1. ASSUME NEW new \in snapshots', NEW i \in Records
        PROVE  new[i].attempts <= MaxAttempts /\ new[i].max <= MaxAttempts
    <3>1. PICK s \in snapshots : new = Aged(s)
      BY <1>2 DEF Tick
    <3>2. s[i] \in OutboxRecord /\ new[i] = AfterTick(s[i])
      BY <3>1 DEF IInv, TypeOK, Aged
    <3> QED BY <3>2, AttemptsKept DEF CopiesCounted
  <2> QED BY <2>1 DEF CopiesCounted
<1>3. CASE RefuseUnit
  BY <1>3 DEF RefuseUnit, CopiesCounted
<1>4. CASE UNCHANGED snapshots
  BY <1>4 DEF CopiesCounted
<1> QED BY <1>1, <1>2, <1>3, <1>4
       DEF Next, Enqueue, Claim, Publish, Acknowledge, Retry, Crash, units, vars

\* The publisher is called for no event more often than the record may be
\* claimed, however many workers crash or go on after their lease ran out, and
\* at most that often again for every unit of work that is refused.
THEOREM PublishedWithinAttempts == Spec => []TriesBounded
<1>1. Init => Counted /\ CopiesCounted
  <2>0. Init => CopiesCounted
    BY DEF Init, CopiesCounted
  <2> SUFFICES ASSUME Init, NEW i \in Records
               PROVE  /\ IsFiniteSet(Due(i))
                      /\ tries[i] + Cardinality(Due(i)) <= records[i].attempts + Spare
                      /\ records[i].attempts <= MaxAttempts /\ records[i].max <= MaxAttempts
    BY <2>0 DEF Counted
  <2>1. Due(i) = {}
    BY DEF Init, Due, Resting
  <2>2. IsFiniteSet(Due(i)) /\ Cardinality(Due(i)) = 0
    BY <2>1, FS_EmptySet, Zenon
  <2>3. tries[i] = 0 /\ records[i].attempts = 0 /\ records[i].max = 0
    BY DEF Init, NoRecord
  <2>4. Spare = 0
    BY DispatcherAssumption DEF Init, Spare
  <2> QED BY <2>2, <2>3, <2>4, DispatcherAssumption
<1>2. IInv /\ Counted /\ CopiesCounted /\ [Next]_vars => Counted' /\ CopiesCounted'
  BY CountedNext, CopiesCountedNext
<1>3. IInv /\ Counted => TriesBounded
  <2> SUFFICES ASSUME IInv, Counted, NEW i \in Records
               PROVE  tries[i] <= MaxAttempts * (refusals + 1)
    BY DEF TriesBounded
  <2>1. tries[i] \in Nat /\ records[i].attempts \in Nat /\ refusals \in Nat
    BY DEF IInv, TypeOK, OutboxRecord
  <2>2. Cardinality(Due(i)) \in Nat
    BY FS_CardinalityType DEF Counted
  <2>3. Spare \in Nat /\ MaxAttempts * (refusals + 1) = MaxAttempts + Spare
    BY <2>1, DispatcherAssumption DEF Spare
  <2> QED BY <2>1, <2>2, <2>3, DispatcherAssumption DEF Counted
<1> QED BY <1>1, <1>2, <1>3, Invariance, PTL DEF Spec

\* At most one dispatch holds the claim of a record, also when all workers
\* claim under one owner name, until a refused unit of work puts a copy of the
\* outbox back: for ever with an owner that holds the outbox's lock.
THEOREM ExclusiveClaim == Spec => []OneClaimant
<1>1. ASSUME IInv PROVE OneClaimant
  <2> SUFFICES ASSUME refusals = 0,
                      NEW v \in Workers, NEW w \in Workers, NEW i \in Records,
                      workers[v] # Resting, workers[v].id = i,
                      workers[v].version = records[i].version,
                      workers[w] # Resting, workers[w].id = i,
                      workers[w].version = records[i].version
               PROVE  v = w
    BY DEF OneClaimant, Exclusive, HoldsClaim
  <2>1. \A u \in Workers :
          workers[u] # Resting /\ workers[u].id = workers[w].id
            /\ workers[u].version = workers[w].version => u = w
    BY <1>1, Zenon DEF IInv, DispatchesAge
  <2> QED BY <2>1
<1> QED BY <1>1, Invariance, PTL

\* A resolved record changes again only when a unit of work is refused that
\* had copied it unresolved.
THEOREM ResolutionIsFinal == Spec => TerminalForGood
<1> DEFINE Stays == refusals' = refusals =>
                      \A i \in Records : records[i].status \in TerminalRecord
                                          => records'[i] = records[i]
<1>1. IInv /\ [Next]_vars => [Stays]_vars
  <2> SUFFICES ASSUME IInv, Next, refusals' = refusals,
                      NEW i \in Records, records[i].status \in TerminalRecord
               PROVE  records'[i] = records[i]
    BY DEF vars
  <2> USE DEF IInv
  <2>1. records[i].status \notin {"none", "pending", "claimed"}
    BY DEF TerminalRecord
  <2>2. ASSUME NEW j \in Records, Enqueue(j) PROVE records'[i] = records[i]
    BY <2>1, <2>2 DEF Enqueue, NoRecord, TypeOK
  <2>3. ASSUME NEW w \in Workers, NEW j \in Records, Claim(w, j) PROVE records'[i] = records[i]
    BY <2>1, <2>3 DEF Claim, Claimable, Eligible, TypeOK
  <2>4. ASSUME NEW w \in Workers, Publish(w) PROVE records'[i] = records[i]
    BY <2>4 DEF Publish
  <2>5. ASSUME NEW w \in Workers, Acknowledge(w) PROVE records'[i] = records[i]
    BY <2>1, <2>5 DEF Acknowledge, HoldsClaim, TypeOK
  <2>6. ASSUME NEW w \in Workers, NEW wait \in 0 .. MaxWait, Retry(w, wait)
        PROVE records'[i] = records[i]
    BY <2>1, <2>6 DEF Retry, HoldsClaim, TypeOK
  <2>7. ASSUME NEW w \in Workers, Crash(w) PROVE records'[i] = records[i]
    BY <2>7 DEF Crash
  <2>8. CASE Tick
    BY <2>8, TickStep DEF Tick, Aged, TypeOK
  <2>9. CASE EnterUnit
    BY <2>9 DEF EnterUnit
  <2>10. ~RefuseUnit
    BY DEF RefuseUnit, TypeOK
  <2> QED BY <2>2, <2>3, <2>4, <2>5, <2>6, <2>7, <2>8, <2>9, <2>10 DEF Next
<1> QED BY <1>1, Invariance, PTL DEF Spec, TerminalForGood

-----------------------------------------------------------------------------
\* The audit service, for any tenants, contents, sources and callers and any
\* length of the streams.

\* A record's entry belongs to the tenant of its source.
OwnEntries == \A r \in recorded : r.entry.tenant = r.source.tenant

ChainInv == AuditTypeOK /\ StreamsVerify /\ RecordedOnce /\ OwnEntries

LEMMA LastHashTyped ==
  ASSUME NEW entries \in Seq(Entry)
  PROVE  LastHash(entries) \in Hash
<1>1. CASE entries = <<>>
  BY <1>1 DEF LastHash, ZeroHash, Hash
<1>2. CASE entries # <<>>
  <2>1. entries[Len(entries)] \in Entry
    BY <1>2
  <2> QED
    BY <1>2, <2>1 DEF LastHash, Entry
<1> QED BY <1>1, <1>2

\* The entry that follows a stream is one of the tenant's, with the next number.
LEMMA NextEntryTyped ==
  ASSUME NEW t \in Tenants, NEW entries \in Seq(Entry), NEW content \in Contents
  PROVE  LET e == NextEntry(t, entries, content) IN
         /\ e \in Entry
         /\ e.tenant = t /\ e.sequence = Len(entries) + 1 /\ e.content = content
         /\ e.previous = LastHash(entries)
         /\ e.current = EventHash(t, e.sequence, e.content, e.previous)
<1> DEFINE n == Len(entries) + 1  previous == LastHash(entries)
           current == EventHash(t, n, content, previous)
<1>1. n \in Nat /\ previous \in Hash
  BY LastHashTyped
<1>2. current \in Hash
  BY <1>1 DEF EventHash, Hash
<1>3. NextEntry(t, entries, content) =
        [tenant |-> t, sequence |-> n, content |-> content,
         previous |-> previous, current |-> current]
  BY DEF NextEntry
<1> HIDE DEF n, previous, current
<1>4. LET e == NextEntry(t, entries, content) IN
      /\ e \in Entry
      /\ e.tenant = t /\ e.sequence = n /\ e.content = content
      /\ e.previous = previous /\ e.current = current
  BY <1>1, <1>2, <1>3 DEF Entry
<1> QED BY <1>4 DEF n, previous, current

\* A stream that verifies goes on to verify when the next entry is appended.
LEMMA AppendVerifies ==
  ASSUME NEW t \in Tenants, NEW entries \in Seq(Entry), NEW content \in Contents,
         Verifies(t, entries)
  PROVE  Verifies(t, Append(entries, NextEntry(t, entries, content)))
<1> DEFINE e == NextEntry(t, entries, content)  longer == Append(entries, e)
<1>1. /\ e \in Entry /\ e.tenant = t /\ e.sequence = Len(entries) + 1
      /\ e.previous = LastHash(entries)
      /\ e.current = EventHash(t, e.sequence, e.content, e.previous)
  BY NextEntryTyped
<1> HIDE DEF e
<1>2. /\ Len(longer) = Len(entries) + 1 /\ longer \in Seq(Entry)
      /\ \A i \in 1 .. Len(entries) : longer[i] = entries[i]
      /\ longer[Len(entries) + 1] = e
  BY <1>1
<1> HIDE DEF longer
<1>3. ASSUME NEW i \in 1 .. Len(longer) PROVE ChainedAt(t, longer, i, 1, ZeroHash)
  <2>0. Len(entries) \in Nat
    OBVIOUS
  <2>1. CASE i \in 1 .. Len(entries)
    <3>1. ChainedAt(t, entries, i, 1, ZeroHash)
      BY <2>1 DEF Verifies
    <3>2. longer[i] = entries[i] /\ (i # 1 => longer[i - 1] = entries[i - 1])
      BY <2>0, <2>1, <1>2
    <3> QED BY <3>1, <3>2 DEF ChainedAt
  <2>2. CASE i = Len(entries) + 1
    <3>1. e.previous = IF i = 1 THEN ZeroHash ELSE longer[i - 1].current
      BY <2>0, <2>2, <1>1, <1>2 DEF LastHash
    <3>2. longer[i] = e /\ e.tenant = t /\ e.sequence = 1 + i - 1
      BY <2>0, <2>2, <1>1, <1>2
    <3> QED BY <3>1, <3>2, <1>1 DEF ChainedAt
  <2> QED BY <2>0, <2>1, <2>2, <1>2
<1>4. Verifies(t, longer)
  BY <1>2, <1>3 DEF Verifies
<1> QED BY <1>4 DEF e, longer

\* What an append does to the streams, wherever the entry comes from.
LEMMA Appending ==
  ASSUME ChainInv, NEW t \in Tenants, NEW content \in Contents,
         streams' = [streams EXCEPT ![t] = Append(@, NextEntry(t, @, content))],
         UNCHANGED damages
  PROVE  /\ streams' \in Streams
         /\ StreamsVerify'
         /\ \A u \in Tenants : \A i \in DOMAIN streams[u] :
              i \in DOMAIN streams'[u] /\ streams'[u][i] = streams[u][i]
<1> DEFINE e == NextEntry(t, streams[t], content)
<1>1. streams[t] \in Seq(Entry) /\ e \in Entry
  BY NextEntryTyped DEF ChainInv, AuditTypeOK, Streams
<1>2. streams' = [streams EXCEPT ![t] = Append(streams[t], e)]
  OBVIOUS
<1>3. damages = 0 => Verifies(t, Append(streams[t], e))
  BY <1>1, AppendVerifies DEF ChainInv, StreamsVerify
<1> HIDE DEF e
<1>4. streams' \in Streams
  BY <1>1, <1>2 DEF ChainInv, AuditTypeOK, Streams
<1>5. StreamsVerify'
  <2>1. ASSUME NEW u \in Tenants, damages = 0 PROVE Verifies(u, streams'[u])
    <3>1. CASE u = t
      <4>1. streams'[u] = Append(streams[t], e)
        BY <1>2, <3>1 DEF ChainInv, AuditTypeOK, Streams
      <4> QED BY <1>3, <2>1, <3>1, <4>1
    <3>2. CASE u # t
      <4>1. streams'[u] = streams[u]
        BY <1>2, <3>2 DEF ChainInv, AuditTypeOK, Streams
      <4> QED BY <2>1, <4>1 DEF ChainInv, StreamsVerify
    <3> QED BY <3>1, <3>2
  <2> QED BY <2>1 DEF StreamsVerify
<1>6. \A u \in Tenants : \A i \in DOMAIN streams[u] :
        i \in DOMAIN streams'[u] /\ streams'[u][i] = streams[u][i]
  BY <1>1, <1>2 DEF ChainInv, AuditTypeOK, Streams
<1> QED BY <1>4, <1>5, <1>6

\* What RecordSource makes of the records.
LEMMA Recording ==
  ASSUME ChainInv, NEW s \in Sources, RecordSource(s)
  PROVE  (\A r \in recorded' : r.source \in Sources /\ r.entry \in Entry)
         /\ OwnEntries' /\ RecordedOnce'
<1> DEFINE t == s.tenant  e == NextEntry(t, streams[t], s.content)
           new == [source |-> s, entry |-> e]
<1>1. t \in Tenants /\ s.content \in Contents /\ streams[t] \in Seq(Entry)
  BY AuditAssumption DEF ChainInv, AuditTypeOK, Streams
<1>2. e \in Entry /\ e.tenant = t /\ e.sequence = Len(streams[t]) + 1 /\ e.content = s.content
  BY <1>1, NextEntryTyped
<1>3. /\ streams' = [streams EXCEPT ![t] = Append(@, e)]
      /\ recorded' = recorded \cup {new} /\ damages' = damages
      /\ \A r \in recorded : r.source.id # s.id
  BY DEF RecordSource
<1>4. new.source = s /\ new.entry = e
  OBVIOUS
<1>5. /\ \A u \in Tenants : \A i \in DOMAIN streams[u] :
           i \in DOMAIN streams'[u] /\ streams'[u][i] = streams[u][i]
      /\ Len(streams[t]) + 1 \in DOMAIN streams'[t]
      /\ streams'[t][Len(streams[t]) + 1] = e
  <2>1. streams' = [streams EXCEPT ![t] = Append(@, NextEntry(t, @, s.content))]
    BY DEF RecordSource
  <2>2. \A u \in Tenants : \A i \in DOMAIN streams[u] :
           i \in DOMAIN streams'[u] /\ streams'[u][i] = streams[u][i]
    BY <1>1, <1>3, <2>1, Appending
  <2>3. streams'[t] = Append(streams[t], e)
    BY <1>1, <1>3 DEF ChainInv, AuditTypeOK, Streams
  <2> HIDE DEF e
  <2> QED BY <1>1, <1>2, <2>2, <2>3
<1> HIDE DEF e, new
<1>6. (\A r \in recorded' : r.source \in Sources /\ r.entry \in Entry) /\ OwnEntries'
  BY <1>2, <1>3, <1>4 DEF ChainInv, AuditTypeOK, OwnEntries
<1>7. \A r, q \in recorded' : r.source.id = q.source.id => r = q
  BY <1>3, <1>4 DEF ChainInv, RecordedOnce
<1>8. ASSUME damages = 0, NEW r \in recorded'
      PROVE  LET stream == streams'[r.source.tenant] IN
             /\ r.entry.sequence \in DOMAIN stream
             /\ stream[r.entry.sequence] = r.entry
             /\ r.entry.content = r.source.content
  <2>1. CASE r \in recorded
    <3>1. r.source.tenant \in Tenants
      BY <2>1, AuditAssumption DEF ChainInv, AuditTypeOK
    <3>2. /\ r.entry.sequence \in DOMAIN streams[r.source.tenant]
          /\ streams[r.source.tenant][r.entry.sequence] = r.entry
          /\ r.entry.content = r.source.content
      BY <1>8, <2>1 DEF ChainInv, RecordedOnce
    <3> QED BY <1>5, <3>1, <3>2
  <2>2. CASE r = new
    BY <1>2, <1>4, <1>5, <2>2
  <2> QED BY <1>3, <2>1, <2>2
<1>9. ASSUME damages = 0, NEW r \in recorded', NEW q \in recorded', r.entry = q.entry
      PROVE  r = q
  <2>1. ASSUME NEW x \in recorded, x.entry = e PROVE FALSE
    <3>1. x.source.tenant = t
      BY <1>2, <2>1 DEF ChainInv, OwnEntries
    <3>2. e.sequence \in DOMAIN streams[t]
      BY <1>9, <2>1, <3>1 DEF ChainInv, RecordedOnce
    <3> QED BY <1>1, <1>2, <3>2
  <2> QED BY <1>3, <1>4, <1>9, <2>1 DEF ChainInv, RecordedOnce
<1>10. RecordedOnce'
  BY <1>3, <1>7, <1>8, <1>9 DEF RecordedOnce
<1> QED BY <1>6, <1>10

\* A stream of which an entry was altered, renumbered or lost is a stream.
LEMMA DamageTyped ==
  ASSUME AuditTypeOK, NEW t \in Tenants, Damage(t)
  PROVE  streams' \in Streams
<1> USE DEF AuditTypeOK, Streams
<1>1. PICK i \in DOMAIN streams[t] :
         \/ \E content \in Contents \ {streams[t][i].content} :
              streams' = [streams EXCEPT ![t][i].content = content]
         \/ \E n \in 1 .. MaxLength \ {streams[t][i].sequence} :
              streams' = [streams EXCEPT ![t][i].sequence = n]
         \/ streams' = [streams EXCEPT ![t] = Without(@, i)]
  BY DEF Damage
<1>2. streams[t] \in Seq(Entry) /\ i \in 1 .. Len(streams[t]) /\ streams[t][i] \in Entry
  OBVIOUS
<1>3. ASSUME NEW e \in Entry, streams' = [streams EXCEPT ![t] = [@ EXCEPT ![i] = e]]
      PROVE  streams' \in Streams
  <2>1. [streams[t] EXCEPT ![i] = e] \in Seq(Entry)
    BY <1>2, ExceptSeq
  <2> QED BY <1>3, <2>1
<1>4. ASSUME NEW content \in Contents, streams' = [streams EXCEPT ![t][i].content = content]
      PROVE  streams' \in Streams
  <2> DEFINE e == [streams[t][i] EXCEPT !.content = content]
  <2>1. e \in Entry
    BY <1>2 DEF Entry
  <2>2. streams' = [streams EXCEPT ![t] = [@ EXCEPT ![i] = e]]
    BY <1>2, <1>4
  <2> QED BY <1>3, <2>1, <2>2
<1>5. ASSUME NEW n \in 1 .. MaxLength, streams' = [streams EXCEPT ![t][i].sequence = n]
      PROVE  streams' \in Streams
  <2> DEFINE e == [streams[t][i] EXCEPT !.sequence = n]
  <2>1. e \in Entry
    <3>1. n \in Nat
      BY AuditAssumption
    <3> QED BY <1>2, <3>1 DEF Entry
  <2>2. streams' = [streams EXCEPT ![t] = [@ EXCEPT ![i] = e]]
    BY <1>2, <1>5
  <2> QED BY <1>3, <2>1, <2>2
<1>6. ASSUME streams' = [streams EXCEPT ![t] = Without(@, i)] PROVE streams' \in Streams
  <2>0. /\ Len(streams[t]) \in Nat /\ 1 \in Int /\ i - 1 \in Int /\ i + 1 \in Int
        /\ \A j \in 1 .. i - 1 : streams[t][j] \in Entry
        /\ \A j \in i + 1 .. Len(streams[t]) : streams[t][j] \in Entry
    BY <1>2, LenProperties, ElementOfSeq
  <2>1. /\ SubSeq(streams[t], 1, i - 1) \in Seq(Entry)
        /\ SubSeq(streams[t], i + 1, Len(streams[t])) \in Seq(Entry)
    BY <2>0, SubSeqProperties
  <2>2. Without(streams[t], i) \in Seq(Entry)
    BY <2>1 DEF Without
  <2> QED BY <1>6, <2>2
<1> QED BY <1>1, <1>4, <1>5, <1>6

LEMMA ChainInitially == AuditInit => ChainInv
BY AuditAssumption
   DEF AuditInit, ChainInv, AuditTypeOK, Streams, StreamsVerify, Verifies, RecordedOnce, OwnEntries

\* Every step keeps the invariant: one case per action that changes what it is
\* about, and one for all that do not.
LEMMA ChainInductive == ChainInv /\ [AuditNext]_auditVars => ChainInv'
<1> SUFFICES ASSUME ChainInv, [AuditNext]_auditVars PROVE ChainInv'
  OBVIOUS
<1>1. ASSUME NEW t \in Tenants, NEW content \in Contents, AppendEntry(t, content) PROVE ChainInv'
  <2>1. /\ streams' = [streams EXCEPT ![t] = Append(@, NextEntry(t, @, content))]
        /\ UNCHANGED <<recorded, retention, damages>>
    BY <1>1 DEF AppendEntry
  <2>2. /\ streams' \in Streams /\ StreamsVerify'
        /\ \A u \in Tenants : \A i \in DOMAIN streams[u] :
             i \in DOMAIN streams'[u] /\ streams'[u][i] = streams[u][i]
    BY <2>1, Appending
  <2>3. \A r \in recorded : r.source.tenant \in Tenants
    BY AuditAssumption DEF ChainInv, AuditTypeOK
  <2>4. RecordedOnce'
    BY <2>1, <2>2, <2>3 DEF ChainInv, RecordedOnce
  <2> QED BY <2>1, <2>2, <2>4 DEF ChainInv, AuditTypeOK, OwnEntries
<1>2. ASSUME NEW s \in Sources, RecordSource(s) PROVE ChainInv'
  <2>1. /\ streams' = [streams EXCEPT ![s.tenant] =
                         Append(@, NextEntry(s.tenant, @, s.content))]
        /\ UNCHANGED <<retention, damages>> /\ s.tenant \in Tenants /\ s.content \in Contents
    BY <1>2, AuditAssumption DEF RecordSource
  <2>2. streams' \in Streams /\ StreamsVerify'
    BY <2>1, Appending
  <2> QED BY <1>2, <2>1, <2>2, Recording DEF ChainInv, AuditTypeOK
<1>3. ASSUME NEW t \in Tenants, NEW policy \in Policies, NEW expected \in 0 .. MaxVersion,
             SetRetention(t, policy, expected)
      PROVE  ChainInv'
  <2>1. /\ retention' = [retention EXCEPT ![t] =
                           [policy |-> policy, version |-> @.version + 1]]
        /\ UNCHANGED <<streams, recorded, damages>>
    BY <1>3 DEF SetRetention
  <2>2. retention[t].version \in Nat
    BY DEF ChainInv, AuditTypeOK, NoPolicy
  <2>3. AuditTypeOK'
    BY <2>1, <2>2 DEF ChainInv, AuditTypeOK
  <2> QED BY <2>1, <2>3 DEF ChainInv, StreamsVerify, RecordedOnce, OwnEntries
<1>4. ASSUME NEW t \in Tenants, Damage(t) PROVE ChainInv'
  <2>1. damages' = damages + 1 /\ UNCHANGED <<recorded, retention>>
    BY <1>4 DEF Damage
  <2>2. damages' # 0 /\ damages' \in Nat
    BY <2>1 DEF ChainInv, AuditTypeOK
  <2>3. AuditTypeOK'
    BY <1>4, <2>1, <2>2, DamageTyped DEF ChainInv, AuditTypeOK
  <2> QED BY <2>1, <2>2, <2>3 DEF ChainInv, StreamsVerify, RecordedOnce, OwnEntries
<1>5. ASSUME UNCHANGED <<streams, recorded, retention, damages>> PROVE ChainInv'
  BY <1>5 DEF ChainInv, AuditTypeOK, StreamsVerify, RecordedOnce, OwnEntries
<1>6. ASSUME NEW c \in Callers, CallerNext(c) PROVE ChainInv'
  BY <1>5, <1>6 DEF CallerNext, CheckpointRead, CheckpointCreate, ExportRead, ExportCreate,
     Abandon, stores
<1>7. ASSUME NEW s \in Sources, ReplaySource(s) PROVE ChainInv'
  BY <1>5, <1>7 DEF ReplaySource, auditVars, stores
<1>8. CASE UNCHANGED auditVars
  BY <1>5, <1>8 DEF auditVars, stores
<1> QED BY <1>1, <1>2, <1>3, <1>4, <1>6, <1>7, <1>8 DEF AuditNext

LEMMA ChainInvariance == AuditSpec => []ChainInv
  BY ChainInitially, ChainInductive, PTL DEF AuditSpec

\* The streams, records and policies keep their types, also when damaged.
THEOREM AuditTypeCorrect == AuditSpec => []AuditTypeOK
  BY ChainInvariance, PTL DEF ChainInv

\* Streams that nobody damages verify, however long they grow and whoever
\* appends to them.
THEOREM StreamsStayVerified == AuditSpec => []StreamsVerify
  BY ChainInvariance, PTL DEF ChainInv

\* A source event has one record and one entry, which stays as it was.
THEOREM SourcesRecordedOnce == AuditSpec => []RecordedOnce
  BY ChainInvariance, PTL DEF ChainInv

\* A step is damage or keeps every entry.
EntriesKept == \A t \in Tenants : \A i \in DOMAIN streams[t] :
                   i \in DOMAIN streams'[t] /\ streams'[t][i] = streams[t][i]

LEMMA Keeping ==
  ASSUME ChainInv, [AuditNext]_auditVars
  PROVE  (damages' = damages /\ EntriesKept) \/ damages' = damages + 1
<1>1. ASSUME NEW t \in Tenants, NEW content \in Contents, AppendEntry(t, content)
      PROVE  damages' = damages /\ EntriesKept
  BY <1>1, Appending DEF AppendEntry, EntriesKept
<1>2. ASSUME NEW s \in Sources, RecordSource(s) PROVE damages' = damages /\ EntriesKept
  BY <1>2, Appending, AuditAssumption DEF RecordSource, EntriesKept
<1>3. ASSUME NEW t \in Tenants, Damage(t) PROVE damages' = damages + 1
  BY <1>3 DEF Damage
<1>4. ASSUME UNCHANGED <<streams, damages>> PROVE damages' = damages /\ EntriesKept
  BY <1>4 DEF EntriesKept
<1> QED BY <1>1, <1>2, <1>3, <1>4
     DEF AuditNext, SetRetention, ReplaySource, CallerNext, CheckpointRead, CheckpointCreate,
         ExportRead, ExportCreate, Abandon, auditVars, stores

\* Recorded sources, checkpoints and manifests of exports are only added.
RecordsKept ==
    recorded \subseteq recorded' /\ checkpoints \subseteq checkpoints' /\ exports \subseteq exports'

\* No operation of the service changes or removes an entry of a stream, and
\* neither does it or any damage take back a recorded source, a checkpoint or
\* the manifest of an export.
THEOREM AppendOnly ==
  AuditSpec => [][RecordsKept /\ (damages' = damages => EntriesKept)]_auditVars
<1>1. [AuditNext]_auditVars => [RecordsKept]_auditVars
  BY DEF AuditNext, AppendEntry, RecordSource, SetRetention, ReplaySource, CallerNext,
         CheckpointRead, CheckpointCreate, ExportRead, ExportCreate, Abandon, Damage,
         auditVars, stores, RecordsKept
<1>2. ChainInv /\ [AuditNext]_auditVars => [damages' = damages => EntriesKept]_auditVars
  BY Keeping DEF ChainInv, AuditTypeOK
<1>3. ChainInv /\ [AuditNext]_auditVars
        => [RecordsKept /\ (damages' = damages => EntriesKept)]_auditVars
  BY <1>1, <1>2
<1> QED BY <1>3, ChainInvariance, PTL DEF AuditSpec

-----------------------------------------------------------------------------
\* Checkpoints and exports take entries out of a stream in their order. First
\* induction, for sets of numbers.

LEMMA LeastNumber ==
  ASSUME NEW S, S \subseteq Nat, S # {}
  PROVE  \E n \in S : \A m \in S : n <= m
<1>1. PICK n \in S : \A m \in S : ~(<<m, n>> \in OpToRel(<, Nat))
  BY WFMin, NatLessThanWellFounded, Zenon
<1>2. \A m \in S : ~(m < n)
  BY <1>1 DEF OpToRel
<1> QED BY <1>2

LEMMA Counting ==
  ASSUME NEW S, 0 \in S, \A n \in Nat : n \in S => n + 1 \in S
  PROVE  Nat \subseteq S
<1> SUFFICES ASSUME Nat \ S # {} PROVE FALSE
  OBVIOUS
<1>1. PICK n \in Nat \ S : \A m \in Nat \ S : n <= m
  BY LeastNumber
<1> QED BY <1>1

LEMMA PositionsFinite ==
  ASSUME NEW n \in Nat, NEW I \in SUBSET (1 .. n)
  PROVE  IsFiniteSet(I) /\ Cardinality(I) \in Nat
<1>1. IsFiniteSet(1 .. n)
  BY FS_Interval
<1>2. IsFiniteSet(I)
  BY <1>1, FS_Subset
<1> QED BY <1>2, FS_CardinalityType

\* An increasing list of positions.
Increasing(at, N) == \A j, k \in 1 .. N : j < k => at[j] < at[k]

\* Every finite set of positions can be listed in increasing order.
Listed(I) == \E at \in [1 .. Cardinality(I) -> I] : Increasing(at, Cardinality(I))

LEMMA Listable ==
  ASSUME NEW n \in Nat, NEW I \in SUBSET (1 .. n)
  PROVE  Listed(I)
<1> DEFINE S == {m \in Nat : \A J \in SUBSET (1 .. m) : Listed(J)}
<1>1. 0 \in S
  <2> SUFFICES ASSUME NEW J \in SUBSET (1 .. 0) PROVE Listed(J)
    OBVIOUS
  <2>1. J = {}
    OBVIOUS
  <2>2. Cardinality(J) = 0
    BY <2>1, FS_EmptySet, Zenon
  <2>3. [k \in 1 .. 0 |-> 0] \in [1 .. Cardinality(J) -> J]
    BY <2>2
  <2>4. Increasing([k \in 1 .. 0 |-> 0], Cardinality(J))
    BY <2>2 DEF Increasing
  <2> QED BY <2>3, <2>4 DEF Listed
<1>2. ASSUME NEW m \in Nat, m \in S PROVE m + 1 \in S
  <2> SUFFICES ASSUME NEW J \in SUBSET (1 .. m + 1) PROVE Listed(J)
    OBVIOUS
  <2>1. CASE m + 1 \notin J
    <3>1. J \in SUBSET (1 .. m)
      BY <2>1
    <3> QED BY <1>2, <3>1
  <2>2. CASE m + 1 \in J
    <3> DEFINE K == J \ {m + 1}  N == Cardinality(K)
    <3>1. K \in SUBSET (1 .. m)
      OBVIOUS
    <3>2. IsFiniteSet(K) /\ N \in Nat
      BY <3>1, PositionsFinite
    <3>3. J = K \cup {m + 1} /\ m + 1 \notin K
      BY <2>2
    <3>4. Cardinality(J) = N + 1
      BY <3>2, <3>3, FS_AddElement
    <3>5. PICK at \in [1 .. N -> K] : Increasing(at, N)
      BY <1>2, <3>1 DEF Listed
    <3> DEFINE new == [k \in 1 .. N + 1 |-> IF k = N + 1 THEN m + 1 ELSE at[k]]
    <3> HIDE DEF N, K
    <3>6. new \in [1 .. N + 1 -> J]
      BY <3>2, <3>3, <3>5
    <3>7. Increasing(new, N + 1)
      <4> SUFFICES ASSUME NEW j \in 1 .. N + 1, NEW k \in 1 .. N + 1, j < k
                   PROVE  new[j] < new[k]
        BY DEF Increasing
      <4>0. j \in 1 .. N
        BY <3>2
      <4>1. new[j] = at[j] /\ at[j] \in 1 .. m
        <5>1. at[j] \in K
          BY <3>5, <4>0
        <5>2. j # N + 1
          BY <3>2, <4>0
        <5> QED BY <3>1, <5>1, <5>2
      <4>2. CASE k = N + 1
        BY <3>2, <4>1, <4>2
      <4>3. CASE k # N + 1
        <5>1. k \in 1 .. N /\ new[k] = at[k]
          BY <3>2, <4>3
        <5> QED BY <3>5, <4>0, <4>1, <5>1 DEF Increasing
      <4> QED BY <4>2, <4>3
    <3> HIDE DEF new
    <3> QED BY <3>4, <3>6, <3>7 DEF Listed
  <2> QED BY <2>1, <2>2
<1> HIDE DEF S
<1>3. n \in S
  BY <1>1, <1>2, Counting
<1> QED BY <1>3 DEF S

\* InOrder lists every position once, in increasing order.
LEMMA InOrderLists ==
  ASSUME NEW n \in Nat, NEW I \in SUBSET (1 .. n)
  PROVE  /\ Cardinality(I) \in Nat
         /\ InOrder(I) \in [1 .. Cardinality(I) -> I]
         /\ Increasing(InOrder(I), Cardinality(I))
         /\ \A i \in I : \E k \in 1 .. Cardinality(I) : InOrder(I)[k] = i
<1> DEFINE N == Cardinality(I)  at == InOrder(I)
<1>0. \A i \in I : i \in Int
  OBVIOUS
<1>1. IsFiniteSet(I) /\ N \in Nat
  BY PositionsFinite
<1>2. at \in [1 .. N -> I] /\ Increasing(at, N)
  <2>1. \E f \in [1 .. N -> I] : \A j, k \in 1 .. N : j < k => f[j] < f[k]
    BY Listable DEF Listed, Increasing
  <2> QED BY <2>1 DEF InOrder, Increasing
<1> HIDE DEF N, at
<1>3. at \in Injection(1 .. N, I)
  <2> SUFFICES ASSUME NEW j \in 1 .. N, NEW k \in 1 .. N, j # k PROVE at[j] # at[k]
    BY <1>2 DEF Injection, IsInjective
  <2>1. at[j] \in I /\ at[k] \in I
    BY <1>2
  <2>2. at[j] \in Int /\ at[k] \in Int
    BY <1>0, <2>1
  <2> QED BY <1>1, <1>2, <2>2 DEF Increasing
<1>4. Cardinality(1 .. N) = N
  BY <1>1, FS_Interval
<1>5. at \in Surjection(1 .. N, I)
  BY <1>1, <1>3, <1>4, FS_Injection DEF N
<1> QED BY <1>1, <1>2, <1>5 DEF Surjection, N, at

\* An increasing list of numbers grows by one at every position at least.
LEMMA Growing ==
  ASSUME NEW N \in Nat, NEW at \in [1 .. N -> Int], Increasing(at, N),
         NEW j \in 1 .. N, NEW k \in 1 .. N, j <= k
  PROVE  at[k] - at[j] >= k - j
<1> DEFINE S == {d \in Nat : j + d \in 1 .. N => at[j + d] - at[j] >= d}
<1>1. 0 \in S
  OBVIOUS
<1>2. ASSUME NEW d \in Nat, d \in S PROVE d + 1 \in S
  <2> SUFFICES ASSUME j + (d + 1) \in 1 .. N PROVE at[j + (d + 1)] - at[j] >= d + 1
    OBVIOUS
  <2>1. j + d \in 1 .. N /\ j + d < j + (d + 1)
    OBVIOUS
  <2>2. at[j + d] < at[j + (d + 1)] /\ at[j + d] \in Int /\ at[j + (d + 1)] \in Int
    BY <2>1 DEF Increasing
  <2> QED BY <1>2, <2>1, <2>2
<1> HIDE DEF S
<1>3. k - j \in Nat
  OBVIOUS
<1>4. k - j \in S
  BY <1>1, <1>2, <1>3, Counting
<1> QED BY <1>4 DEF S

LEMMA StretchSize ==
  ASSUME NEW a \in Nat \ {0}, NEW b \in Nat, NEW n \in Nat, n = b - a + 1,
         NEW I, I = a .. b
  PROVE  Cardinality(I) = n
<1>1. a \in Int /\ b \in Int /\ (a > b => n = 0)
  OBVIOUS
<1> QED BY <1>1, FS_Interval

\* What is taken from an interval is the stretch of the sequence.
LEMMA TakenStretch ==
  ASSUME NEW s, NEW a \in Nat \ {0}, NEW b \in Nat, NEW n \in Nat, n = b - a + 1,
         NEW I, I = a .. b
  PROVE  \A k \in 1 .. n : Taken(s, I)[k] = s[a + k - 1]
<1> DEFINE at == InOrder(I)
<1>1. Cardinality(I) = n
  BY StretchSize
<1>2. I \in SUBSET (1 .. b)
  OBVIOUS
<1>3. at \in [1 .. n -> I] /\ Increasing(at, n)
  BY <1>1, <1>2, InOrderLists
<1>4. at \in [1 .. n -> Int]
  BY <1>3
<1>5. ASSUME NEW k \in 1 .. n PROVE at[k] = a + k - 1
  <2> HIDE DEF at
  <2>1. 1 \in 1 .. n /\ n \in 1 .. n /\ 1 <= k /\ k <= n
    OBVIOUS
  <2>2. at[k] - at[1] >= k - 1
    BY <1>3, <1>4, <2>1, Growing
  <2>3. at[n] - at[k] >= n - k
    BY <1>3, <1>4, <2>1, Growing
  <2>4. at[1] >= a /\ at[n] <= b /\ at[k] \in Int /\ at[1] \in Int /\ at[n] \in Int
    BY <1>3, <2>1
  <2> QED BY <2>2, <2>3, <2>4
<1> QED BY <1>1, <1>5 DEF Taken

LEMMA TakenNothing == ASSUME NEW s PROVE Taken(s, {}) = <<>>
<1>1. Cardinality({}) = 0
  BY FS_EmptySet
<1> QED BY <1>1 DEF Taken
\* The positions up to an entry, and those of one.
UpTo(s, n) == {i \in DOMAIN s : s[i].sequence <= n}
Of(s, n) == {i \in DOMAIN s : s[i].sequence = n}

\* Each entry of a chain that verifies.
LEMMA Link ==
  ASSUME NEW t, NEW x \in Seq(Entry), Verifies(t, x), NEW i \in 1 .. Len(x)
  PROVE  /\ x[i] \in Entry /\ x[i].tenant = t /\ x[i].sequence = i
         /\ x[i].current = Append(x[i].previous, <<t, i, x[i].content>>)
         /\ x[i].previous = IF i = 1 THEN ZeroHash ELSE x[i - 1].current
<1>1. i \in DOMAIN x /\ x[i] \in Entry
  OBVIOUS
<1>2. ChainedAt(t, x, i, 1, ZeroHash)
  BY <1>1 DEF Verifies
<1>3. 1 + i - 1 = i
  OBVIOUS
<1> QED BY <1>1, <1>2, <1>3 DEF ChainedAt, EventHash

\* What an entry of such a chain shows.
Linked(t, x, i) ==
    /\ x[i].tenant = t /\ x[i].sequence = i
    /\ x[i].current = Append(x[i].previous, <<t, i, x[i].content>>)
    /\ x[i].previous = IF i = 1 THEN ZeroHash ELSE x[i - 1].current
LEMMA Links ==
  ASSUME NEW t, NEW x \in Seq(Entry), Verifies(t, x)
  PROVE  \A i \in 1 .. Len(x) : Linked(t, x, i)
BY Link DEF Linked

\* Entries that agree in every field are the same.
LEMMA SameEntry ==
  ASSUME NEW T, NEW N, NEW C, NEW H,
         NEW e \in [tenant : T, sequence : N, content : C, previous : H, current : H],
         NEW f \in [tenant : T, sequence : N, content : C, previous : H, current : H],
         e.tenant = f.tenant, e.sequence = f.sequence, e.content = f.content,
         e.previous = f.previous, e.current = f.current
  PROVE  e = f
OBVIOUS

\* Two chains of one length that verify and end in one hash are the same: the
\* hash of an entry depends on all before it.
LEMMA HashTells ==
  ASSUME NEW t, NEW x \in Seq(Entry), NEW y \in Seq(Entry), NEW n \in Nat \ {0},
         Len(x) = n, Len(y) = n, Verifies(t, x), Verifies(t, y), x[n].current = y[n].current
  PROVE  x = y
<1>1. ASSUME NEW i \in 1 .. n, x[i].current = y[i].current
      PROVE  x[i] = y[i] /\ (i > 1 => x[i - 1].current = y[i - 1].current)
  <2>1. x[i] \in Entry /\ y[i] \in Entry
    OBVIOUS
  <2>2. /\ i \in Int
        /\ x[i].tenant = t /\ y[i].tenant = t
        /\ x[i].sequence = i /\ y[i].sequence = i
        /\ x[i].current = Append(x[i].previous, <<t, i, x[i].content>>)
        /\ y[i].current = Append(y[i].previous, <<t, i, y[i].content>>)
        /\ i > 1 => x[i].previous = x[i - 1].current /\ y[i].previous = y[i - 1].current
    BY Link
  <2>3. x[i].previous \in Hash /\ y[i].previous \in Hash
    BY <2>1 DEF Entry
  <2>4. x[i].previous = y[i].previous /\ x[i].content = y[i].content
    <3> DEFINE p == x[i].previous  q == y[i].previous
               a == <<t, i, x[i].content>>  b == <<t, i, y[i].content>>
    <3>1. a = b => x[i].content = y[i].content
      <4>1. a[3] = x[i].content /\ b[3] = y[i].content
        OBVIOUS
      <4> HIDE DEF a, b
      <4> QED BY <4>1
    <3>2. p \in Seq(Tenants \X Nat \X Contents) /\ q \in Seq(Tenants \X Nat \X Contents)
      BY <2>3 DEF Hash
    <3>3. Append(p, a) = Append(q, b)
      BY <1>1, <2>2
    <3> HIDE DEF a, b, p, q
    <3>4. p = q /\ a = b
      <4>1. Len(p) = Len(q)
        BY <3>2, <3>3
      <4>2. Append(p, a)[Len(p) + 1] = a /\ Append(q, b)[Len(q) + 1] = b
        BY <3>2
      <4>3. ASSUME NEW k \in 1 .. Len(p) PROVE p[k] = q[k]
        <5>1. Append(p, a)[k] = p[k] /\ Append(q, b)[k] = q[k]
          BY <3>2, <4>1
        <5> QED BY <3>3, <5>1
      <4> QED BY <3>2, <3>3, <4>1, <4>2, <4>3, SeqEqual
    <3> QED BY <3>1, <3>4 DEF p, q
  <2>5. x[i] = y[i]
    <3> DEFINE e == x[i]  f == y[i]
    <3>1. e \in Entry /\ f \in Entry
      BY <2>1
    <3>2. /\ e.tenant = f.tenant /\ e.sequence = f.sequence /\ e.content = f.content
          /\ e.previous = f.previous /\ e.current = f.current
      BY <1>1, <2>2, <2>4
    <3> HIDE DEF e, f
    <3>3. e = f
      BY <3>1, <3>2, SameEntry, Zenon DEF Entry
    <3> QED BY <3>3 DEF e, f
  <2> QED BY <2>2, <2>4, <2>5
<1> DEFINE S == {k \in Nat : k < n => x[n - k].current = y[n - k].current}
<1>2. 0 \in S
  OBVIOUS
<1>3. ASSUME NEW k \in Nat, k \in S PROVE k + 1 \in S
  <2> SUFFICES ASSUME k + 1 < n PROVE x[n - (k + 1)].current = y[n - (k + 1)].current
    OBVIOUS
  <2>1. n - k \in 1 .. n /\ n - k > 1 /\ (n - k) - 1 = n - (k + 1)
    OBVIOUS
  <2>2. x[n - k].current = y[n - k].current
    BY <1>3
  <2> QED BY <1>1, <2>1, <2>2
<1> HIDE DEF S
<1>4. ASSUME NEW i \in 1 .. n PROVE x[i] = y[i]
  <2>1. n - i \in Nat /\ n - i < n /\ n - (n - i) = i
    OBVIOUS
  <2>2. n - i \in S
    BY <1>2, <1>3, <2>1, Counting
  <2>3. x[i].current = y[i].current
    BY <2>1, <2>2 DEF S
  <2> QED BY <1>1, <2>3
<1> QED BY <1>4, SeqEqual
\* What is taken from a stream is a sequence of its entries.
LEMMA TakenTyped ==
  ASSUME NEW s \in Seq(Entry), NEW I \in SUBSET DOMAIN s
  PROVE  /\ I \in SUBSET (1 .. Len(s)) /\ Len(s) \in Nat /\ Cardinality(I) \in Nat
         /\ Taken(s, I) \in Seq(Entry) /\ Len(Taken(s, I)) = Cardinality(I)
         /\ \A k \in 1 .. Cardinality(I) :
              InOrder(I)[k] \in I /\ Taken(s, I)[k] = s[InOrder(I)[k]]
         /\ \A i \in I : \E k \in 1 .. Cardinality(I) : InOrder(I)[k] = i
<1>1. I \in SUBSET (1 .. Len(s)) /\ Len(s) \in Nat
  OBVIOUS
<1>2. /\ Cardinality(I) \in Nat
      /\ InOrder(I) \in [1 .. Cardinality(I) -> I]
      /\ \A i \in I : \E k \in 1 .. Cardinality(I) : InOrder(I)[k] = i
  BY <1>1, InOrderLists
<1> DEFINE N == Cardinality(I)  at == InOrder(I)
<1> HIDE DEF N, at
<1>3. \A k \in 1 .. N : at[k] \in I /\ s[at[k]] \in Entry
  BY <1>1, <1>2 DEF N, at
<1>4. [k \in 1 .. N |-> s[at[k]]] \in Seq(Entry) /\ Len([k \in 1 .. N |-> s[at[k]]]) = N
  BY <1>2, <1>3 DEF N
<1> QED BY <1>1, <1>2, <1>3, <1>4 DEF Taken, N, at

\* A checkpoint is made of a chain that verified when it was read.
Covers(cp) ==
    /\ cp.tenant \in Tenants
    /\ cp.covered \in Seq(Entry) /\ cp.covered # <<>>
    /\ Verifies(cp.tenant, cp.covered)
    /\ cp.through = Len(cp.covered) /\ cp.hash = LastHash(cp.covered)

\* So it holds of a stream, whatever befell it, exactly if the stream still
\* begins with what the checkpoint covers.
LEMMA CheckpointTells ==
  ASSUME streams \in Streams, NEW cp, Covers(cp)
  PROVE  CheckpointHolds(cp) <=> Through(streams[cp.tenant], cp.through) = cp.covered
<1> DEFINE t == cp.tenant  s == streams[t]  n == cp.through
           I == UpTo(s, n)  J == Of(s, n)  T == Taken(s, I)  M == Taken(s, J)
<1>1. /\ s \in Seq(Entry) /\ cp.covered \in Seq(Entry) /\ Len(cp.covered) = n
      /\ n \in Nat \ {0} /\ Verifies(t, cp.covered) /\ cp.hash = cp.covered[n].current
  BY DEF Covers, Streams, LastHash
<1>2. /\ Through(s, n) = T
      /\ CheckpointHolds(cp) <=>
           Verifies(t, T) /\ Len(T) = n /\ Len(M) = 1 /\ M[1].current = cp.hash
  BY DEF CheckpointHolds, VerifiesThrough, Through, UpTo, Of
<1>3. I \in SUBSET DOMAIN s /\ J \in SUBSET DOMAIN s /\ J \in SUBSET I
  <2>1. \A i \in DOMAIN s : s[i].sequence \in Nat
    <3> HIDE DEF s
    <3>1. \A i \in DOMAIN s : s[i] \in Entry
      BY <1>1
    <3> QED BY <3>1 DEF Entry
  <2> QED BY <1>1, <2>1 DEF UpTo, Of
<1>4. \A i \in I : i \in J <=> s[i].sequence = n
  BY DEF UpTo, Of
<1> HIDE DEF t, s, n, I, J
<1>5. /\ Cardinality(I) \in Nat
      /\ T \in Seq(Entry) /\ Len(T) = Cardinality(I)
      /\ \A k \in 1 .. Cardinality(I) : InOrder(I)[k] \in I /\ T[k] = s[InOrder(I)[k]]
      /\ \A i \in I : \E k \in 1 .. Cardinality(I) : InOrder(I)[k] = i
  BY <1>1, <1>3, TakenTyped
<1>6. /\ Cardinality(J) \in Nat
      /\ M \in Seq(Entry) /\ Len(M) = Cardinality(J)
      /\ \A k \in 1 .. Cardinality(J) : InOrder(J)[k] \in J /\ M[k] = s[InOrder(J)[k]]
      /\ \A i \in J : \E k \in 1 .. Cardinality(J) : InOrder(J)[k] = i
  BY <1>1, <1>3, TakenTyped
<1> HIDE DEF T, M
<1>7. ASSUME Verifies(t, T), Len(T) = n, Len(M) = 1, M[1].current = cp.hash
      PROVE  T = cp.covered
  <2> DEFINE i == InOrder(I)[n]
  <2>1. n \in 1 .. Cardinality(I) /\ n \in 1 .. Len(T)
    BY <1>1, <1>5, <1>7
  <2>2. i \in I /\ T[n] = s[i]
    BY <1>5, <2>1
  <2>3. T[n].sequence = n
    BY <1>5, <1>7, <2>1, Link
  <2>4. i \in J
    BY <1>4, <2>2, <2>3
  <2>5. InOrder(J)[1] = i /\ M[1] = s[InOrder(J)[1]]
    BY <1>6, <1>7, <2>4
  <2>6. T[n].current = cp.covered[n].current
    BY <1>1, <1>7, <2>2, <2>5
  <2> HIDE DEF i
  <2> QED BY <1>1, <1>5, <1>7, <2>6, HashTells
<1>8. ASSUME T = cp.covered
      PROVE  Verifies(t, T) /\ Len(T) = n /\ Len(M) = 1 /\ M[1].current = cp.hash
  <2> DEFINE i == InOrder(I)[n]
  <2>1. Verifies(t, T) /\ Len(T) = n
    BY <1>1, <1>8
  <2>2. n \in 1 .. Cardinality(I) /\ n \in 1 .. Len(T)
    BY <1>1, <1>5, <2>1
  <2>3. i \in I /\ T[n] = s[i]
    BY <1>5, <2>2
  <2>4. T[n].sequence = n
    BY <1>5, <2>1, <2>2, Link
  <2>5. i \in J
    BY <1>4, <2>3, <2>4
  <2>6. ASSUME NEW j \in J PROVE j = i
    <3>1. PICK k \in 1 .. Cardinality(I) : InOrder(I)[k] = j
      BY <1>3, <1>5
    <3>2. T[k].sequence = n
      BY <1>3, <1>4, <1>5, <3>1
    <3>3. T[k].sequence = k
      BY <1>5, <2>1, Link
    <3> QED BY <3>1, <3>2, <3>3
  <2>7. J = {i}
    BY <2>5, <2>6
  <2>8. Cardinality(J) = 1
    BY <2>7, FS_Singleton, Zenon
  <2>9. M[1] = s[i] /\ Len(M) = 1
    BY <1>6, <2>6, <2>8
  <2> QED BY <1>1, <1>8, <2>1, <2>3, <2>9
<1> QED BY <1>2, <1>7, <1>8 DEF t, s, n
\* An export is a stretch of a chain that verified when it was read, which is
\* still in the stream if nothing was damaged.
Given(m) ==
    /\ m.tenant \in Tenants
    /\ m.digest \in Seq(Entry) /\ m.count = Len(m.digest)
    /\ m.digest = <<>> => m.first = 0 /\ m.last = 0
    /\ m.digest # <<>> =>
         /\ m.first \in Nat \ {0} /\ m.last = m.first + Len(m.digest) - 1
         /\ \A i \in DOMAIN m.digest :
              ChainedAt(m.tenant, m.digest, i, m.first,
                        IF m.first = 1 THEN ZeroHash ELSE m.digest[1].previous)
    /\ damages = 0 => \A i \in DOMAIN m.digest :
         /\ m.first + i - 1 \in DOMAIN streams[m.tenant]
         /\ streams[m.tenant][m.first + i - 1] = m.digest[i]

\* Everyone who has it can verify it.
LEMMA GivenVerifies ==
  ASSUME NEW m, Given(m)
  PROVE  ExportVerifies(m, m.digest)
<1>1. /\ m.digest \in Seq(Entry) /\ m.count = Len(m.digest)
      /\ m.digest = <<>> => m.first = 0 /\ m.last = 0
  BY DEF Given
<1>2. ASSUME m.digest # <<>>
      PROVE  /\ m.digest[1].sequence = m.first
             /\ m.digest[Len(m.digest)].sequence = m.last
             /\ m.last - m.first + 1 = m.count
             /\ \A i \in DOMAIN m.digest :
                  ChainedAt(m.tenant, m.digest, i, m.first,
                            IF m.first = 1 THEN ZeroHash ELSE m.digest[1].previous)
  <2> DEFINE n == Len(m.digest)
  <2>1. /\ m.first \in Nat /\ m.last = m.first + n - 1
        /\ \A i \in DOMAIN m.digest :
             ChainedAt(m.tenant, m.digest, i, m.first,
                       IF m.first = 1 THEN ZeroHash ELSE m.digest[1].previous)
    BY <1>2 DEF Given
  <2>2. n \in Nat \ {0} /\ 1 \in DOMAIN m.digest /\ n \in DOMAIN m.digest
    BY <1>1, <1>2
  <2>3. \A i \in DOMAIN m.digest : m.digest[i].sequence = m.first + i - 1
    BY <2>1 DEF ChainedAt
  <2> HIDE DEF n
  <2>4. m.first + 1 - 1 = m.first /\ m.last - m.first + 1 = n
    BY <2>1, <2>2
  <2> QED BY <1>1, <2>1, <2>2, <2>3, <2>4 DEF n
<1> QED BY <1>1, <1>2 DEF ExportVerifies

\* It says what an undamaged stream says.
LEMMA GivenAgrees ==
  ASSUME streams \in Streams, NEW m, Given(m), damages = 0,
         Verifies(m.tenant, streams[m.tenant])
  PROVE  LET entries == streams[m.tenant] IN
         m.digest = Taken(entries, {i \in DOMAIN entries :
                                      entries[i].sequence \in m.first .. m.last})
<1> DEFINE s == streams[m.tenant]  d == m.digest
           I == {i \in DOMAIN s : s[i].sequence \in m.first .. m.last}
<1>1. s \in Seq(Entry) /\ d \in Seq(Entry) /\ Len(s) \in Nat /\ Len(d) \in Nat
  BY DEF Given, Streams
<1>2. \A i \in DOMAIN s : i \in 1 .. Len(s) /\ s[i].sequence = i
  BY <1>1, Link
<1> HIDE DEF s, d
<1>3. CASE d = <<>>
  <2>1. m.first = 0 /\ m.last = 0
    BY <1>3 DEF Given, d
  <2>2. I = {}
    BY <1>2, <2>1
  <2> HIDE DEF I
  <2>3. Taken(s, I) = <<>>
    BY <2>2, TakenNothing
  <2> QED BY <1>3, <2>3 DEF I, s, d
<1>4. CASE d # <<>>
  <2> DEFINE n == Len(d)  a == m.first  b == m.last
  <2>1. a \in Nat \ {0} /\ b = a + n - 1
    BY <1>4 DEF Given, d
  <2>2. n \in Nat \ {0} /\ DOMAIN d = 1 .. n
    BY <1>1, <1>4
  <2>3. \A i \in 1 .. n : a + i - 1 \in DOMAIN s /\ s[a + i - 1] = d[i]
    BY <2>2 DEF Given, s, d
  <2>4. b \in Nat /\ a <= b + 1 /\ b - a + 1 = n
    BY <2>1, <2>2
  <2>5. I = a .. b
    <3> SUFFICES ASSUME NEW i \in a .. b PROVE i \in DOMAIN s
      BY <1>2, <2>1, <2>4
    <3> HIDE DEF a, b, n
    <3>1. i - a + 1 \in 1 .. n /\ a + (i - a + 1) - 1 = i
      BY <2>1, <2>2, <2>4
    <3> QED BY <2>3, <3>1
  <2> HIDE DEF a, b, n, I
  <2>6. Cardinality(I) = n /\ \A k \in 1 .. n : Taken(s, I)[k] = s[a + k - 1]
    <3>1. n \in Nat /\ n = b - a + 1 /\ a \in Nat \ {0} /\ b \in Nat
      BY <2>1, <2>2, <2>4
    <3>2. Cardinality(I) = n
      BY <2>5, <3>1, StretchSize
    <3>3. \A k \in 1 .. n : Taken(s, I)[k] = s[a + k - 1]
      BY <2>5, <3>1, TakenStretch
    <3> QED BY <3>2, <3>3
  <2>7. Taken(s, I) \in Seq(Entry) /\ Len(Taken(s, I)) = n /\ Len(d) = n
    BY <1>1, <2>6, TakenTyped DEF I, n
  <2>8. d = Taken(s, I)
    BY <1>1, <2>3, <2>6, <2>7, SeqEqual
  <2> QED BY <2>8 DEF I, s, d
<1> QED BY <1>3, <1>4

\* What ExportRead hands over is given.
LEMMA RangeGiven ==
  ASSUME streams \in Streams, NEW t \in Tenants, Verifies(t, streams[t]),
         NEW first \in Nat, NEW last \in Nat
  PROVE  Given(ManifestOf([op |-> "export", tenant |-> t,
                           entries |-> InRange(streams[t], first, last)]))
<1> DEFINE s == streams[t]
           I == {i \in DOMAIN s : /\ first = Unbounded \/ s[i].sequence >= first
                                  /\ last = Unbounded \/ s[i].sequence <= last}
           d == InRange(s, first, last)
           a == IF first = 0 THEN 1 ELSE first
           b == IF last = 0 \/ last > Len(s) THEN Len(s) ELSE last
<1>1. s \in Seq(Entry) /\ Len(s) \in Nat /\ d = Taken(s, I) /\ Verifies(t, s)
  BY DEF InRange, Streams
<1>2. \A i \in 1 .. Len(s) : s[i].sequence = i
  BY <1>1, Link
<1>3. DOMAIN s = 1 .. Len(s) /\ a \in Nat \ {0} /\ b \in Nat /\ b <= Len(s)
  BY <1>1
<1>4. I = a .. b
  BY <1>1, <1>2, <1>3 DEF Unbounded
<1> HIDE DEF I, d, a, b
<1>5. PICK m : m = ManifestOf([op |-> "export", tenant |-> t, entries |-> d])
  OBVIOUS
<1>6. /\ m.tenant = t /\ m.count = Len(d) /\ m.digest = d
      /\ m.first = IF d = <<>> THEN 0 ELSE d[1].sequence
      /\ m.last = IF d = <<>> THEN 0 ELSE d[Len(d)].sequence
  BY <1>5 DEF ManifestOf
<1>7. CASE a > b
  <2>1. I = {}
    BY <1>3, <1>4, <1>7
  <2>2. d = <<>>
    BY <1>1, <2>1, TakenNothing
  <2>3. Given(m)
    BY <1>6, <2>2 DEF Given
  <2> QED BY <1>5, <2>3 DEF d, s
<1>8. CASE a <= b
  <2> DEFINE n == b - a + 1
  <2>1. n \in Nat \ {0}
    BY <1>3, <1>8
  <2>2. Cardinality(I) = n /\ \A k \in 1 .. n : Taken(s, I)[k] = s[a + k - 1]
    <3>1. n \in Nat /\ n = b - a + 1 /\ a \in Nat \ {0} /\ b \in Nat
      BY <1>3, <2>1
    <3> HIDE DEF n
    <3>2. Cardinality(I) = n
      BY <1>4, <3>1, StretchSize
    <3>3. \A k \in 1 .. n : Taken(s, I)[k] = s[a + k - 1]
      BY <1>4, <3>1, TakenStretch
    <3> QED BY <3>2, <3>3
  <2>3. \A k \in 1 .. n : a + k - 1 \in 1 .. Len(s)
    BY <1>3
  <2> HIDE DEF n
  <2>4. I \in SUBSET DOMAIN s
    BY <1>3, <1>4
  <2>5. d \in Seq(Entry) /\ Len(d) = n /\ d # <<>> /\ DOMAIN d = 1 .. n
    <3>1. d \in Seq(Entry) /\ Len(d) = n
      BY <1>1, <2>2, <2>4, TakenTyped
    <3> QED BY <2>1, <3>1
  <2>6. \A k \in 1 .. n : d[k] = s[a + k - 1] /\ d[k].sequence = a + k - 1
    BY <1>1, <1>2, <2>2, <2>3
  <2>7. m.first = a /\ m.last = a + n - 1
    <3>1. 1 \in 1 .. n /\ n \in 1 .. n /\ a + 1 - 1 = a
      BY <1>3, <2>1
    <3> QED BY <1>6, <2>5, <2>6, <3>1
  <2>8. \A i \in 1 .. Len(s) : Linked(t, s, i)
    <3> HIDE DEF s
    <3> QED BY <1>1, Links, Zenon
  <2>9. ASSUME NEW k \in 1 .. n
        PROVE  ChainedAt(t, d, k, a, IF a = 1 THEN ZeroHash ELSE d[1].previous)
    <3> DEFINE i == a + k - 1
    <3>1. i \in 1 .. Len(s) /\ d[k] = s[i] /\ i \in Int
      BY <2>3, <2>6
    <3>2. CASE k = 1
      <4>1. i = a
        BY <1>3, <3>2
      <4> HIDE DEF i, s
      <4>2. /\ s[i].tenant = t /\ s[i].sequence = i
            /\ s[i].current = Append(s[i].previous, <<t, i, s[i].content>>)
            /\ s[i].previous = IF i = 1 THEN ZeroHash ELSE s[i - 1].current
        BY <2>8, <3>1, Zenon DEF Linked
      <4>3. d[1].previous = s[i].previous
        BY <3>1, <3>2
      <4> QED BY <1>3, <3>1, <3>2, <4>1, <4>2, <4>3 DEF ChainedAt, EventHash
    <3>3. CASE k # 1
      <4>1. k - 1 \in 1 .. n /\ a + (k - 1) - 1 = i - 1 /\ i # 1
        BY <1>3, <2>1, <3>3
      <4>2. d[k - 1] = s[i - 1]
        BY <2>6, <4>1
      <4>3. a + k - 1 = i
        OBVIOUS
      <4> HIDE DEF i, s
      <4>4. /\ s[i].tenant = t /\ s[i].sequence = i
            /\ s[i].current = Append(s[i].previous, <<t, i, s[i].content>>)
            /\ s[i].previous = IF i = 1 THEN ZeroHash ELSE s[i - 1].current
        BY <2>8, <3>1, Zenon DEF Linked
      <4> QED BY <3>1, <3>3, <4>1, <4>2, <4>3, <4>4 DEF ChainedAt, EventHash
    <3> QED BY <3>2, <3>3
  <2>10. Given(m)
    BY <1>3, <1>6, <2>1, <2>3, <2>5, <2>6, <2>7, <2>9 DEF Given
  <2> QED BY <1>5, <2>10 DEF d, s
<1> QED BY <1>3, <1>7, <1>8
\* What is stored and what a caller has read.
RecordsHold ==
    /\ DOMAIN calls = Callers
    /\ \A cp \in checkpoints : Covers(cp)
    /\ \A m \in exports : Given(m)
    /\ \A c \in Callers :
         /\ calls[c].op = "checkpoint" => Covers(CheckpointOf(calls[c]))
         /\ calls[c].op = "export" => Given(ManifestOf(calls[c]))

\* What is given stays so: entries are kept until something is damaged.
LEMMA GivenStays ==
  ASSUME ChainInv, [AuditNext]_auditVars, NEW m, Given(m)
  PROVE  Given(m)'
<1>1. damages' = 0 => damages = 0 /\ EntriesKept
  BY Keeping DEF ChainInv, AuditTypeOK
<1>2. m.tenant \in Tenants
  BY DEF Given
<1>3. ASSUME damages' = 0, NEW i \in DOMAIN m.digest
      PROVE  /\ m.first + i - 1 \in DOMAIN streams'[m.tenant]
             /\ streams'[m.tenant][m.first + i - 1] = m.digest[i]
  <2>1. /\ m.first + i - 1 \in DOMAIN streams[m.tenant]
        /\ streams[m.tenant][m.first + i - 1] = m.digest[i]
    BY <1>1, <1>3 DEF Given
  <2> QED BY <1>1, <1>2, <1>3, <2>1 DEF EntriesKept
<1> QED BY <1>3 DEF Given

LEMMA RecordsStep ==
  ASSUME ChainInv, RecordsHold, [AuditNext]_auditVars
  PROVE  RecordsHold'
<1>1. \A m : Given(m) => Given(m)'
  BY GivenStays
<1>2. ASSUME UNCHANGED <<checkpoints, exports, calls>> PROVE RecordsHold'
  BY <1>1, <1>2 DEF RecordsHold
<1>3. ASSUME NEW c \in Callers, NEW call, calls' = [calls EXCEPT ![c] = call],
             call.op = "checkpoint" => Covers(CheckpointOf(call)),
             call.op = "export" => Given(ManifestOf(call)),
             \A cp \in checkpoints' : Covers(cp), \A m \in exports' : Given(m)
      PROVE  RecordsHold'
  <2>1. call.op = "export" => Given(ManifestOf(call))'
    <3>1. PICK m : m = ManifestOf(call)
      OBVIOUS
    <3> QED BY <1>1, <1>3, <3>1
  <2>2. \A d \in Callers : calls'[d] = IF d = c THEN call ELSE calls[d]
    BY <1>3 DEF RecordsHold
  <2>3. DOMAIN calls' = Callers
    BY <1>3 DEF RecordsHold
  <2>4. ASSUME NEW d \in Callers
        PROVE  /\ calls'[d].op = "checkpoint" => Covers(CheckpointOf(calls'[d]))
               /\ calls'[d].op = "export" => Given(ManifestOf(calls[d]))'
    BY <1>1, <1>3, <2>1, <2>2 DEF RecordsHold
  <2> QED BY <1>1, <1>3, <2>3, <2>4 DEF RecordsHold
<1>4. ASSUME NEW c \in Callers, NEW t \in Tenants, CheckpointRead(c, t) PROVE RecordsHold'
  <2> DEFINE s == streams[t]  call == [op |-> "checkpoint", tenant |-> t, entries |-> s]
  <2>1. /\ s \in Seq(Entry) /\ s # <<>> /\ Verifies(t, s) /\ Len(s) \in 1 .. Len(s)
        /\ calls' = [calls EXCEPT ![c] = call] /\ UNCHANGED <<checkpoints, exports>>
    BY <1>4 DEF CheckpointRead, ChainInv, AuditTypeOK, Streams, stores
  <2>2. s[Len(s)].sequence = Len(s)
    BY <2>1, Link
  <2>3. Covers(CheckpointOf(call))
    BY <2>1, <2>2 DEF Covers, CheckpointOf
  <2>4. call.op = "checkpoint"
    OBVIOUS
  <2> HIDE DEF call
  <2> QED BY <1>3, <2>1, <2>3, <2>4 DEF RecordsHold
<1>5. ASSUME NEW c \in Callers, CheckpointCreate(c) PROVE RecordsHold'
  <2>1. /\ calls' = [calls EXCEPT ![c] = Idle] /\ exports' = exports
        /\ checkpoints' = checkpoints \cup {CheckpointOf(calls[c])}
        /\ calls[c].op = "checkpoint" /\ Idle.op = "none"
    BY <1>5 DEF CheckpointCreate, Idle
  <2> QED BY <1>3, <2>1 DEF RecordsHold
<1>6. ASSUME NEW c \in Callers, NEW t \in Tenants, NEW first \in Nat, NEW last \in Nat,
             ExportRead(c, t, first, last)
      PROVE  RecordsHold'
  <2> DEFINE call == [op |-> "export", tenant |-> t, entries |-> InRange(streams[t], first, last)]
  <2>1. /\ calls' = [calls EXCEPT ![c] = call] /\ UNCHANGED <<checkpoints, exports>>
        /\ Verifies(t, streams[t]) /\ streams \in Streams
    BY <1>6 DEF ExportRead, ChainInv, AuditTypeOK, stores
  <2>2. Given(ManifestOf(call))
    BY <2>1, RangeGiven
  <2>3. call.op = "export"
    OBVIOUS
  <2> HIDE DEF call
  <2> QED BY <1>3, <2>1, <2>2, <2>3 DEF RecordsHold
<1>7. ASSUME NEW c \in Callers, ExportCreate(c) PROVE RecordsHold'
  <2>1. /\ calls' = [calls EXCEPT ![c] = Idle] /\ checkpoints' = checkpoints
        /\ exports' = exports \cup {ManifestOf(calls[c])}
        /\ calls[c].op = "export" /\ Idle.op = "none"
    BY <1>7 DEF ExportCreate, Idle
  <2> QED BY <1>3, <2>1 DEF RecordsHold
<1>8. ASSUME NEW c \in Callers, Abandon(c) PROVE RecordsHold'
  <2>1. /\ calls' = [calls EXCEPT ![c] = Idle] /\ UNCHANGED <<checkpoints, exports>>
        /\ Idle.op = "none"
    BY <1>8 DEF Abandon, Idle, stores
  <2> QED BY <1>3, <2>1 DEF RecordsHold
<1>9. ASSUME NEW c \in Callers, CallerNext(c) PROVE RecordsHold'
  <2>1. 0 .. MaxLength \subseteq Nat
    OBVIOUS
  <2> QED BY <1>4, <1>5, <1>6, <1>7, <1>8, <1>9, <2>1 DEF CallerNext
<1> QED BY <1>2, <1>9
     DEF AuditNext, AppendEntry, RecordSource, ReplaySource, SetRetention, Damage, auditVars, stores

LEMMA RecordsInvariance == AuditSpec => [](ChainInv /\ RecordsHold)
<1>1. AuditInit => RecordsHold
  <2> SUFFICES ASSUME AuditInit PROVE RecordsHold
    OBVIOUS
  <2>1. DOMAIN calls = Callers /\ \A c \in Callers : calls[c].op = "none"
    BY DEF AuditInit, Idle
  <2> QED BY <2>1 DEF AuditInit, RecordsHold
<1>2. ChainInv /\ RecordsHold /\ [AuditNext]_auditVars => RecordsHold'
  BY RecordsStep
<1> QED BY <1>1, <1>2, ChainInvariance, PTL DEF AuditSpec

\* A checkpoint tells whether the entries that it covers are still where they
\* were, for streams of any length and any damage.
THEOREM CheckpointsStayTelling == AuditSpec => []CheckpointsTell
<1>1. ChainInv /\ RecordsHold => CheckpointsTell
  BY CheckpointTells DEF ChainInv, AuditTypeOK, RecordsHold, CheckpointsTell
<1> QED BY <1>1, RecordsInvariance, PTL

\* Whoever has an export can verify it, and until something is damaged it says
\* what the stream says.
THEOREM ExportsStayVerified == AuditSpec => []ExportsVerify
<1>1. ChainInv /\ RecordsHold => ExportsVerify
  <2> SUFFICES ASSUME ChainInv, RecordsHold, NEW m \in exports
               PROVE  /\ ExportVerifies(m, m.digest)
                      /\ LET entries == streams[m.tenant] IN
                         damages = 0 =>
                           m.digest = Taken(entries, {i \in DOMAIN entries :
                                             entries[i].sequence \in m.first .. m.last})
    BY DEF ExportsVerify
  <2>1. Given(m) /\ m.tenant \in Tenants
    BY DEF RecordsHold, Given
  <2>2. ExportVerifies(m, m.digest)
    BY <2>1, GivenVerifies
  <2>3. ASSUME damages = 0
        PROVE  LET entries == streams[m.tenant] IN
               m.digest = Taken(entries, {i \in DOMAIN entries :
                                            entries[i].sequence \in m.first .. m.last})
    <3>1. Verifies(m.tenant, streams[m.tenant])
      BY <2>1, <2>3 DEF ChainInv, StreamsVerify
    <3> QED BY <2>1, <2>3, <3>1, GivenAgrees DEF ChainInv, AuditTypeOK
  <2> QED BY <2>2, <2>3
<1> QED BY <1>1, RecordsInvariance, PTL

-----------------------------------------------------------------------------
\* With the audit service as the publisher.

\* A publication to the audit service is a publication.
LEMMA TrailSteps == [TrailNext]_trailVars => [Next]_vars
<1> SUFFICES ASSUME [TrailNext]_trailVars PROVE [Next]_vars
  OBVIOUS
<1>1. ASSUME NEW w \in Workers, PublishToAudit(w) PROVE Next
  BY <1>1 DEF PublishToAudit, Next
<1>2. CASE UNCHANGED trailVars
  BY <1>2 DEF trailVars
<1> QED BY <1>1, <1>2 DEF TrailNext, Next

\* The dispatchers keep their guarantees when they publish to the audit
\* service: AuditTrail implements Outbox.
THEOREM TrailImplementsOutbox == TrailSpec => Spec
<1>1. TrailInit => Init
  BY DEF TrailInit
<1> QED BY <1>1, TrailSteps, PTL DEF TrailSpec, Spec

\* And the audit service keeps its own: what the dispatchers publish are source
\* events, so that AuditTrail implements AuditChain as well.
THEOREM TrailImplementsAudit == TrailSpec => AuditSpec
<1>1. TrailInit => AuditInit
  BY DEF TrailInit
<1>2. IInv /\ [TrailNext]_trailVars => [AuditNext]_auditVars
  <2> SUFFICES ASSUME IInv, NEW w \in Workers, PublishToAudit(w) PROVE [AuditNext]_auditVars
    BY DEF TrailNext, trailVars
  <2>1. workers[w].id \in Records
    BY DEF PublishToAudit, Publish, IInv, TypeOK, Resting, Dispatch
  <2>2. EventOf[workers[w].id] \in Sources
    BY <2>1, TrailAssumption
  <2> QED BY <2>2 DEF PublishToAudit, AuditNext
<1> QED BY <1>1, <1>2, TrailImplementsOutbox, Invariance, PTL DEF TrailSpec, AuditSpec

\* Whoever has a dispatch under way found a record, and a record stays one, also
\* in the copy of a unit of work, during which nothing is enqueued.
Made(i) == records[i].status # "none"
CopiesMade == \A s \in snapshots : \A i \in Records : Made(i) => s[i].status # "none"
Dispatched == \A w \in Workers : workers[w] # Resting => Made(workers[w].id)

\* What was published is recorded, what is recorded was enqueued, and every
\* stream is as long as its sources are many.
Heard == \A i \in published : \E r \in recorded : r.source = EventOf[i]
Enqueued == \A r \in recorded : \E i \in Records : EventOf[i] = r.source /\ Made(i)
OfTenant(t) == {r \in recorded : r.source.tenant = t}
EachOnce == \A t \in Tenants : Len(streams[t]) = Cardinality(OfTenant(t))
TrailInv ==
    /\ IInv /\ Dispatched /\ CopiesMade /\ Heard /\ Enqueued /\ EachOnce
    /\ streams \in Streams /\ IsFiniteSet(recorded)

\* Recording a new source adds one entry to its tenant's stream.
LEMMA RecordStep ==
  ASSUME TrailInv, NEW s \in Sources, RecordSource(s)
  PROVE  /\ streams' \in Streams /\ IsFiniteSet(recorded') /\ EachOnce'
         /\ \E r : r.source = s /\ recorded' = recorded \cup {r}
<1> DEFINE e == NextEntry(s.tenant, streams[s.tenant], s.content)
           new == [source |-> s, entry |-> e]
<1>1. s.tenant \in Tenants /\ s.content \in Contents
  BY AuditAssumption
<1>2. streams[s.tenant] \in Seq(Entry) /\ e \in Entry
  BY <1>1, NextEntryTyped DEF TrailInv, Streams
<1>3. /\ streams' = [streams EXCEPT ![s.tenant] = Append(streams[s.tenant], e)]
      /\ recorded' = recorded \cup {new}
      /\ \A r \in recorded : r.source.id # s.id
  BY DEF RecordSource
<1> HIDE DEF e
<1>4. streams' \in Streams
  BY <1>1, <1>2, <1>3 DEF TrailInv, Streams
<1>5. IsFiniteSet(recorded')
  BY <1>3, FS_AddElement DEF TrailInv
<1>6. new.source = s
  OBVIOUS
<1> HIDE DEF new
<1>7. ASSUME NEW t \in Tenants PROVE Len(streams'[t]) = Cardinality(OfTenant(t)')
  <2>1. IsFiniteSet(OfTenant(t)) /\ Len(streams[t]) = Cardinality(OfTenant(t))
    BY <1>7, FS_Subset DEF TrailInv, EachOnce, OfTenant
  <2>2. CASE t = s.tenant
    <3>1. OfTenant(t)' = OfTenant(t) \cup {new} /\ new \notin OfTenant(t)
      BY <1>3, <1>6, <2>2 DEF OfTenant
    <3>2. Cardinality(OfTenant(t)') = Cardinality(OfTenant(t)) + 1
      BY <2>1, <3>1, FS_AddElement
    <3>3. Len(streams'[t]) = Len(streams[t]) + 1
      BY <1>1, <1>2, <1>3, <2>2 DEF TrailInv, Streams
    <3> QED BY <2>1, <3>2, <3>3
  <2>3. CASE t # s.tenant
    <3>1. OfTenant(t)' = OfTenant(t)
      BY <1>3, <1>6, <2>3 DEF OfTenant
    <3>2. streams'[t] = streams[t]
      BY <1>1, <1>3, <2>3 DEF TrailInv, Streams
    <3> QED BY <2>1, <3>1, <3>2
  <2> QED BY <2>2, <2>3
<1> QED BY <1>3, <1>4, <1>5, <1>6, <1>7 DEF EachOnce

\* A record that was made stays one, and no record is made but by Enqueue.
LEMMA MadeStays ==
  ASSUME IInv, CopiesMade, [Next]_vars
  PROVE  (\A i \in Records : Made(i) => Made(i)') /\ CopiesMade'
<1> USE DispatcherAssumption, OutboxAssumption DEF IInv
<1>0. \A j \in Records : records[j] \in OutboxRecord
  BY DEF TypeOK
<1>1. ASSUME NEW i \in Records, Enqueue(i)
      PROVE  (\A j \in Records : Made(j) => Made(j)') /\ CopiesMade'
  <2> DEFINE rec == NewRecord(MaxAttempts)
  <2>1. rec.status # "none" /\ records' = [records EXCEPT ![i] = rec]
    BY <1>1 DEF Enqueue, NewRecord, NoRecord
  <2>2. snapshots' = {}
    BY <1>1 DEF Enqueue, units
  <2> HIDE DEF rec
  <2> QED BY <2>1, <2>2 DEF TypeOK, Made, CopiesMade
<1>2. ASSUME NEW i \in Records, NEW rec, rec.status # "none", Made(i), UNCHANGED snapshots,
             records' = records \/ records' = [records EXCEPT ![i] = rec]
      PROVE  (\A j \in Records : Made(j) => Made(j)') /\ CopiesMade'
  BY <1>2 DEF TypeOK, Made, CopiesMade
<1>3. ASSUME NEW w \in Workers, NEW i \in Records, Claim(w, i)
      PROVE  (\A j \in Records : Made(j) => Made(j)') /\ CopiesMade'
  <2> DEFINE rec == AfterClaim(records[i], OwnerOf[w])
  <2>1. rec.status # "none" /\ Made(i)
    BY <1>0, <1>3, ClaimStep DEF Claim, Claimable, Eligible, Made
  <2>2. records' = [records EXCEPT ![i] = rec] /\ UNCHANGED snapshots
    BY <1>3 DEF Claim, units
  <2> HIDE DEF rec
  <2> QED BY <1>2, <2>1, <2>2
<1>4. ASSUME NEW i \in Records, NEW rec, NEW holds \in BOOLEAN, UNCHANGED snapshots,
             holds => Made(i) /\ rec.status # "none",
             records' = IF holds THEN [records EXCEPT ![i] = rec] ELSE records
      PROVE  (\A j \in Records : Made(j) => Made(j)') /\ CopiesMade'
  <2>1. CASE holds
    BY <1>2, <1>4, <2>1
  <2>2. CASE ~holds
    BY <1>4, <2>2 DEF Made, CopiesMade
  <2> QED BY <2>1, <2>2
<1>5. ASSUME NEW w \in Workers, Acknowledge(w)
      PROVE  (\A j \in Records : Made(j) => Made(j)') /\ CopiesMade'
  <2> DEFINE i == workers[w].id  rec == AfterAcknowledge(records[i])
             holds == HoldsClaim(records[i], OwnerOf[w], workers[w].version)
  <2>1. i \in Records
    BY <1>5 DEF Acknowledge, TypeOK, Resting, Dispatch
  <2>2. (holds => Made(i) /\ rec.status # "none") /\ holds \in BOOLEAN
    BY <1>0, <2>1, AcknowledgeStep DEF HoldsClaim, Made
  <2>3. /\ records' = IF holds THEN [records EXCEPT ![i] = rec] ELSE records
        /\ UNCHANGED snapshots
    BY <1>5, Zenon DEF Acknowledge, units
  <2> HIDE DEF rec, holds
  <2> QED BY <1>4, <2>1, <2>2, <2>3
<1>6. ASSUME NEW w \in Workers, NEW wait \in 0 .. MaxWait, Retry(w, wait)
      PROVE  (\A j \in Records : Made(j) => Made(j)') /\ CopiesMade'
  <2> DEFINE i == workers[w].id  rec == AfterRetry(records[i], wait)
             holds == HoldsClaim(records[i], OwnerOf[w], workers[w].version)
  <2>1. i \in Records /\ wait \in Nat
    BY <1>6 DEF Retry, TypeOK, Resting, Dispatch
  <2>2. (holds => Made(i) /\ rec.status # "none") /\ holds \in BOOLEAN
    BY <1>0, <2>1, RetryStep DEF HoldsClaim, Made
  <2>3. /\ records' = IF holds THEN [records EXCEPT ![i] = rec] ELSE records
        /\ UNCHANGED snapshots
    BY <1>6, Zenon DEF Retry, units
  <2> HIDE DEF rec, holds
  <2> QED BY <1>4, <2>1, <2>2, <2>3
<1>7. CASE Tick
  <2>1. \A j \in Records : records'[j].status = records[j].status
    BY <1>0, <1>7, TickStep DEF Tick, Aged
  <2>2. ASSUME NEW new \in snapshots', NEW j \in Records, Made(j)'
        PROVE  new[j].status # "none"
    <3>1. PICK s \in snapshots : new = Aged(s)
      BY <1>7 DEF Tick
    <3>2. s[j] \in OutboxRecord /\ new[j] = AfterTick(s[j])
      BY <3>1 DEF TypeOK, Aged
    <3> QED BY <2>1, <2>2, <3>2, TickStep DEF Made, CopiesMade
  <2> QED BY <2>1, <2>2 DEF Made, CopiesMade
<1>8. CASE EnterUnit
  BY <1>8 DEF EnterUnit, Made, CopiesMade
<1>9. CASE RefuseUnit
  BY <1>9 DEF RefuseUnit, Made, CopiesMade
<1>10. CASE UNCHANGED <<records, snapshots>>
  BY <1>10 DEF Made, CopiesMade
<1> QED BY <1>1, <1>3, <1>5, <1>6, <1>7, <1>8, <1>9, <1>10
       DEF Next, Publish, Crash, units, vars

\* So a record that was made stays one, also under a dispatch.
LEMMA RecordsStay ==
  ASSUME IInv, Dispatched, CopiesMade, [Next]_vars
  PROVE  (\A i \in Records : Made(i) => Made(i)') /\ Dispatched' /\ CopiesMade'
<1>1. (\A i \in Records : Made(i) => Made(i)') /\ CopiesMade'
  BY MadeStays
<1>2. \A w \in Workers : workers[w] # Resting => workers[w].id \in Records
  BY DEF IInv, TypeOK, Dispatch
<1>3. ASSUME NEW w \in Workers, NEW i \in Records, Claim(w, i) PROVE Dispatched'
  <2>1. Made(i)'
    BY <1>1, <1>3 DEF Claim, Claimable, Eligible, Made
  <2>2. \A v \in Workers : workers'[v] =
          IF v = w THEN [stage |-> "claimed", id |-> i, version |-> records[i].version + 1]
                   ELSE workers[v]
    BY <1>3 DEF Claim, IInv, TypeOK
  <2> QED BY <1>1, <1>2, <2>1, <2>2 DEF Dispatched, Made
<1>4. ASSUME \A w \in Workers : workers'[w] = Resting \/ workers'[w] = workers[w]
                 \/ (workers[w] # Resting /\ workers'[w].id = workers[w].id)
      PROVE  Dispatched'
  BY <1>1, <1>2, <1>4 DEF Dispatched, Made
<1>5. ASSUME NEW w \in Workers, Publish(w) PROVE Dispatched'
  <2>1. workers[w] \in Dispatch
    BY <1>5 DEF IInv, TypeOK, Publish, Resting
  <2>2. workers[w] # Resting
    BY <2>1 DEF Resting, Dispatch
  <2>3. /\ \A v \in Workers \ {w} : workers'[v] = workers[v]
        /\ workers'[w].id = workers[w].id
    BY <1>5, <2>1 DEF Publish, IInv, TypeOK, Dispatch
  <2> QED BY <1>4, <2>2, <2>3
<1>6. ASSUME NEW w \in Workers, workers' = [workers EXCEPT ![w] = Resting] PROVE Dispatched'
  BY <1>4, <1>6 DEF IInv, TypeOK
<1>7. ASSUME UNCHANGED workers PROVE Dispatched'
  BY <1>4, <1>7
<1> QED BY <1>1, <1>3, <1>5, <1>6, <1>7 DEF Next, Enqueue, Acknowledge, Retry, Crash, EnterUnit, RefuseUnit, Tick,
          vars

LEMMA TrailInductive == TrailInv /\ [TrailNext]_trailVars => TrailInv'
<1> SUFFICES ASSUME TrailInv, [TrailNext]_trailVars PROVE TrailInv'
  OBVIOUS
<1>1. IInv'
  BY TrailSteps, NextInv DEF TrailInv
<1>2. Dispatched' /\ CopiesMade' /\ \A i \in Records : Made(i) => Made(i)'
  BY TrailSteps, RecordsStay DEF TrailInv
<1>3. ASSUME UNCHANGED <<streams, recorded>>, published' = published PROVE TrailInv'
  BY <1>1, <1>2, <1>3 DEF TrailInv, Heard, Enqueued, EachOnce, OfTenant
<1>4. ASSUME NEW w \in Workers, PublishToAudit(w) PROVE TrailInv'
  <2> DEFINE i == workers[w].id
  <2>1. i \in Records /\ EventOf[i] \in Sources /\ records'[i].status # "none"
    <3>1. workers[w].stage = "claimed" /\ workers[w] \in {Resting} \cup Dispatch
      BY <1>4 DEF TrailInv, IInv, TypeOK, PublishToAudit, Publish
    <3>2. workers[w] # Resting /\ i \in Records
      BY <3>1 DEF Resting, Dispatch
    <3>3. EventOf[i] \in Sources
      BY <3>2, TrailAssumption
    <3>4. Made(i)
      BY <3>2 DEF TrailInv, Dispatched
    <3> QED BY <1>2, <3>2, <3>3, <3>4 DEF Made
  <2>2. CASE RecordSource(EventOf[i]) /\ published' = published \cup {i}
    <3>1. /\ streams' \in Streams /\ IsFiniteSet(recorded') /\ EachOnce'
          /\ \E r : r.source = EventOf[i] /\ recorded' = recorded \cup {r}
      BY <2>1, <2>2, RecordStep
    <3>2. Heard'
      BY <2>2, <3>1 DEF TrailInv, Heard
    <3>3. Enqueued'
      <4> SUFFICES ASSUME NEW r \in recorded'
                   PROVE  \E j \in Records : EventOf[j] = r.source /\ Made(j)'
        BY DEF Enqueued
      <4>1. CASE r \in recorded
        BY <1>2, <4>1 DEF TrailInv, Enqueued
      <4>2. CASE r \notin recorded
        BY <2>1, <3>1, <4>2 DEF Made
      <4> QED BY <4>1, <4>2
    <3> QED BY <1>1, <1>2, <3>1, <3>2, <3>3 DEF TrailInv
  <2>3. CASE ReplaySource(EventOf[i]) /\ published' = published \cup {i}
    <3>1. UNCHANGED <<streams, recorded>> /\ \E r \in recorded : r.source = EventOf[i]
      BY <2>3 DEF ReplaySource, auditVars, stores
    <3>2. Heard'
      BY <2>3, <3>1 DEF TrailInv, Heard
    <3> QED BY <1>1, <1>2, <3>1, <3>2 DEF TrailInv, Enqueued, EachOnce, OfTenant
  <2> QED BY <1>3, <1>4, <2>2, <2>3 DEF PublishToAudit, auditVars, stores
<1>5. CASE UNCHANGED trailVars
  BY <1>3, <1>5 DEF trailVars, vars, auditVars, stores
<1> QED BY <1>3, <1>4, <1>5
       DEF TrailNext, Enqueue, Claim, Acknowledge, Retry, Crash, EnterUnit, RefuseUnit, Tick,
           auditVars, stores

LEMMA TrailInitially == TrailInit => TrailInv
<1> SUFFICES ASSUME TrailInit PROVE TrailInv
  OBVIOUS
<1>1. IInv
  BY InitInv DEF TrailInit
<1>2. Dispatched /\ CopiesMade /\ Heard /\ Enqueued
  BY DEF TrailInit, Init, AuditInit, Dispatched, CopiesMade, Heard, Enqueued
<1>3. streams \in Streams
  BY DEF TrailInit, AuditInit, Streams
<1>4. IsFiniteSet(recorded) /\ EachOnce
  BY FS_EmptySet DEF TrailInit, AuditInit, EachOnce, OfTenant
<1> QED BY <1>1, <1>2, <1>3, <1>4 DEF TrailInv

\* Every acknowledged event is in the audit trail, and each event of the trail
\* is there once, for any workers, records and sources.
THEOREM AuditedOnce == TrailSpec => []AuditedExactlyOnce
<1>1. TrailInv => AuditedExactlyOnce
  BY DEF TrailInv, IInv, AcceptedWasPublished, Heard, Enqueued, EachOnce, OfTenant,
         AuditedExactlyOnce, Made, NoRecord
<1> QED BY <1>1, TrailInitially, TrailInductive, PTL DEF TrailSpec
=============================================================================
