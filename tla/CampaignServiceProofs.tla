------------------------ MODULE CampaignServiceProofs ------------------------
(***************************************************************************)
(* Proofs about CampaignService.  The event file, for every set of         *)
(* scheduler objects and of events: the inductive invariant, and with it   *)
(* that the file implements CampaignLog.  The dispatch loops, for every    *)
(* set of jobs and every scope: the inductive invariant behind             *)
(* DispatchInv.  The builders, for every plan and every log that code      *)
(* without plans may have left: the inductive invariant behind RuntimeInv. *)
(***************************************************************************)
EXTENDS CampaignService, FiniteSetTheorems, TLAPS

-----------------------------------------------------------------------------
(* The event file.                                                         *)

\* A prefix stays one when the longer sequence grows.
LEMMA PrefixAppend ==
    ASSUME NEW s \in Seq(Events), NEW t \in Seq(Events), NEW e \in Events, Store!IsPrefixOf(s, t)
    PROVE  Store!IsPrefixOf(s, Append(t, e))
  BY DEF Store!IsPrefixOf

\* A prefix stays one when the longer sequence is cut no shorter than it.
LEMMA PrefixSubSeq ==
    ASSUME NEW s \in Seq(Events), NEW t \in Seq(Events), NEW n \in 0 .. Len(t),
           Store!IsPrefixOf(s, t), Len(s) <= n
    PROVE  SubSeq(t, 1, n) \in Seq(Events) /\ Len(SubSeq(t, 1, n)) = n /\ Store!IsPrefixOf(s, SubSeq(t, 1, n))
  BY DEF Store!IsPrefixOf

\* A repair keeps the invariant's facts about the file, and every prefix.
LEMMA RepairFacts ==
    ASSUME Store!TypeOK, Store!Repair, NEW s \in Seq(Events), Store!IsPrefixOf(s, lines)
    PROVE  /\ lines' \in Seq(Events) /\ lines' = Store!Repaired
           /\ tail' = "clean" /\ tail_event' = None
           /\ flushed' \in 0 .. Len(lines') /\ flushed' >= flushed
           /\ Store!IsPrefixOf(s, lines')
  <1>1. CASE tail = "record"
    <2>1. tail_event \in Events /\ lines' = Append(lines, tail_event)
      BY <1>1 DEF Store!TypeOK, Store!Repair, Store!Repaired
    <2>2. Len(lines') = Len(lines) + 1 /\ lines' \in Seq(Events)
      BY <2>1 DEF Store!TypeOK
    <2> QED BY <1>1, <2>1, <2>2, PrefixAppend DEF Store!TypeOK, Store!Repair, Store!Repaired
  <1>2. CASE tail # "record"
    BY <1>2 DEF Store!TypeOK, Store!Repair, Store!Repaired
  <1> QED BY <1>1, <1>2

\* The empty log satisfies the invariant.
LEMMA StoreInit == Store!Init => Store!StoreInv
  BY NoneAssumption DEF Store!Init, Store!StoreInv, Store!TypeOK, Store!ViewsArePrefixes, Store!AcknowledgedSurvive, Store!HolderIsCurrent, Store!IsPrefixOf

\* Whatever repairs the file and changes no object keeps what the invariant
\* says about the file and about prefixes.
LEMMA RepairPreserves ==
    ASSUME Store!TypeOK, Store!ViewsArePrefixes, Store!AcknowledgedSurvive, Store!Repair, UNCHANGED acked
    PROVE  /\ lines' \in Seq(Events) /\ tail' = "clean" /\ tail_event' = None
           /\ flushed' \in 0 .. Len(lines')
           /\ \A i \in Instances : Store!IsPrefixOf(memory[i], lines')
           /\ Store!AcknowledgedSurvive'
  <1>1. \A i \in Instances : memory[i] \in Seq(Events) /\ Store!IsPrefixOf(memory[i], lines)
    BY DEF Store!TypeOK, Store!ViewsArePrefixes
  <1>2. \A i \in Instances : Store!IsPrefixOf(memory[i], lines')
    BY <1>1, RepairFacts
  <1>3. /\ Store!IsPrefixOf(acked, lines') /\ flushed' >= flushed /\ flushed' \in 0 .. Len(lines')
        /\ lines' \in Seq(Events) /\ tail' = "clean" /\ tail_event' = None
    BY RepairFacts DEF Store!TypeOK, Store!AcknowledgedSurvive
  <1>4. Len(acked) <= flushed'
    BY <1>3 DEF Store!TypeOK, Store!AcknowledgedSurvive
  <1> QED BY <1>2, <1>3, <1>4 DEF Store!AcknowledgedSurvive

\* Every step keeps the invariant.
LEMMA StoreStep == Store!StoreInv /\ [Store!Next]_(Store!vars) => Store!StoreInv'
  <1> SUFFICES ASSUME Store!StoreInv, [Store!Next]_(Store!vars) PROVE Store!StoreInv'
    OBVIOUS
  <1> USE DEF Store!StoreInv
  <1>1. ASSUME NEW i \in Instances, Store!OpenScheduler(i) PROVE Store!StoreInv'
    <2>1. /\ lines' \in Seq(Events) /\ tail' = "clean" /\ tail_event' = None
          /\ flushed' \in 0 .. Len(lines') /\ Store!AcknowledgedSurvive'
          /\ \A k \in Instances : Store!IsPrefixOf(memory[k], lines')
      BY <1>1, RepairPreserves DEF Store!OpenScheduler
    <2>2. memory' = [memory EXCEPT ![i] = lines'] /\ holder = None
      BY <1>1 DEF Store!OpenScheduler, Store!Repair
    <2>3. Store!ViewsArePrefixes'
      BY <2>1, <2>2 DEF Store!ViewsArePrefixes, Store!IsPrefixOf, Store!TypeOK
    <2>4. Store!TypeOK'
      BY <1>1, <2>1, <2>2, NoneAssumption DEF Store!TypeOK, Store!OpenScheduler, Store!lockVars
    <2>5. Store!HolderIsCurrent'
      BY <1>1, <2>2 DEF Store!HolderIsCurrent, Store!TypeOK, Store!OpenScheduler, Store!lockVars
    <2> QED BY <2>1, <2>3, <2>4, <2>5
  <1>2. ASSUME NEW i \in Instances, Store!RefuseStale(i) PROVE Store!StoreInv'
    <2>1. /\ lines' \in Seq(Events) /\ tail' = "clean" /\ tail_event' = None
          /\ flushed' \in 0 .. Len(lines') /\ Store!AcknowledgedSurvive'
          /\ \A k \in Instances : Store!IsPrefixOf(memory[k], lines')
      BY <1>2, RepairPreserves DEF Store!RefuseStale
    <2> QED BY <1>2, <2>1, NoneAssumption
            DEF Store!RefuseStale, Store!TypeOK, Store!ViewsArePrefixes, Store!HolderIsCurrent, Store!lockVars, Store!objectVars
  <1>3. ASSUME NEW i \in Instances, NEW e \in Events, Store!BeginAppend(i, e) PROVE Store!StoreInv'
    <2>1. /\ lines' \in Seq(Events) /\ tail' = "clean" /\ tail_event' = None
          /\ flushed' \in 0 .. Len(lines') /\ Store!AcknowledgedSurvive'
          /\ \A k \in Instances : Store!IsPrefixOf(memory[k], lines')
      BY <1>3, RepairPreserves DEF Store!BeginAppend
    <2>2. Len(memory[i]) = Len(lines')
      BY <1>3 DEF Store!BeginAppend, Store!Repair
    <2> QED BY <1>3, <2>1, <2>2, NoneAssumption
            DEF Store!BeginAppend, Store!TypeOK, Store!ViewsArePrefixes, Store!HolderIsCurrent, Store!objectVars
  <1>4. ASSUME NEW i \in Instances, Store!WritePart(i) PROVE Store!StoreInv'
    BY <1>4 DEF Store!WritePart, Store!TypeOK, Store!ViewsArePrefixes, Store!AcknowledgedSurvive, Store!HolderIsCurrent, Store!IsPrefixOf,
                Store!lockVars, Store!objectVars
  <1>5. ASSUME NEW i \in Instances, Store!WriteRecord(i) PROVE Store!StoreInv'
    BY <1>5, NoneAssumption
       DEF Store!WriteRecord, Store!TypeOK, Store!ViewsArePrefixes, Store!AcknowledgedSurvive, Store!HolderIsCurrent, Store!IsPrefixOf,
           Store!lockVars, Store!objectVars
  <1>6. ASSUME NEW i \in Instances, Store!WriteLine(i) PROVE Store!StoreInv'
    <2>1. pending \in Events /\ lines' = Append(lines, pending)
      BY <1>6, NoneAssumption DEF Store!WriteLine, Store!TypeOK
    <2>2. lines' \in Seq(Events) /\ Len(lines') = Len(lines) + 1 /\ lines'[Len(lines')] = pending
      BY <2>1 DEF Store!TypeOK
    <2>3. Store!ViewsArePrefixes'
      BY <1>6, <2>1, PrefixAppend DEF Store!ViewsArePrefixes, Store!WriteLine, Store!TypeOK, Store!objectVars
    <2>4. Store!AcknowledgedSurvive'
      BY <1>6, <2>1, PrefixAppend DEF Store!AcknowledgedSurvive, Store!WriteLine, Store!TypeOK
    <2>5. \A k \in Instances : Len(memory[k]) < Len(lines')
      BY <2>2 DEF Store!ViewsArePrefixes, Store!IsPrefixOf, Store!TypeOK
    <2>6. Store!TypeOK'
      BY <1>6, <2>2 DEF Store!WriteLine, Store!TypeOK, Store!objectVars
    <2>7. Store!HolderIsCurrent'
      BY <1>6, <2>2, <2>5 DEF Store!WriteLine, Store!TypeOK, Store!HolderIsCurrent, Store!objectVars
    <2> QED BY <2>3, <2>4, <2>6, <2>7
  <1>7. ASSUME NEW i \in Instances, Store!Acknowledge(i) PROVE Store!StoreInv'
    <2>1. /\ pending \in Events /\ Len(lines) = Len(memory[i]) + 1 /\ lines[Len(lines)] = pending
          /\ memory[i] \in Seq(Events) /\ Store!IsPrefixOf(memory[i], lines)
      BY <1>7, NoneAssumption DEF Store!Acknowledge, Store!TypeOK, Store!HolderIsCurrent, Store!ViewsArePrefixes
    <2>2. Append(memory[i], pending) \in Seq(Events) /\ Store!IsPrefixOf(Append(memory[i], pending), lines)
      BY <2>1 DEF Store!IsPrefixOf, Store!TypeOK
    <2>3. Store!ViewsArePrefixes'
      BY <1>7, <2>2 DEF Store!ViewsArePrefixes, Store!Acknowledge, Store!TypeOK
    <2>4. Store!TypeOK'
      BY <1>7, <2>2, NoneAssumption DEF Store!TypeOK, Store!Acknowledge
    <2> QED BY <1>7, <2>3, <2>4 DEF Store!Acknowledge, Store!AcknowledgedSurvive, Store!HolderIsCurrent, Store!IsPrefixOf, Store!TypeOK
  <1>8. ASSUME NEW i \in Instances, Store!AppendRaises(i) PROVE Store!StoreInv'
    BY <1>8 DEF Store!AppendRaises, Store!TypeOK, Store!ViewsArePrefixes, Store!AcknowledgedSurvive, Store!HolderIsCurrent, Store!IsPrefixOf,
                Store!objectVars
  <1>9. ASSUME NEW i \in Instances, Store!Crash(i) PROVE Store!StoreInv'
    <2>1. memory' = [memory EXCEPT ![i] = << >>] /\ lines' = lines
      BY <1>9 DEF Store!Crash, Store!fileVars
    <2>2. Store!ViewsArePrefixes'
      BY <2>1 DEF Store!ViewsArePrefixes, Store!IsPrefixOf, Store!TypeOK
    <2>3. CASE holder = i
      BY <1>9, <2>1, <2>2, <2>3 DEF Store!Crash, Store!TypeOK, Store!AcknowledgedSurvive, Store!HolderIsCurrent, Store!IsPrefixOf, Store!fileVars
    <2>4. CASE holder # i
      <3>1. UNCHANGED <<holder, pending, stage, lines, tail, tail_event, flushed, acked>>
            /\ objects' = objects \ {i}
        BY <1>9, <2>4 DEF Store!Crash, Store!fileVars, Store!lockVars
      <3>2. Store!TypeOK' /\ Store!AcknowledgedSurvive'
        BY <2>1, <3>1 DEF Store!TypeOK, Store!AcknowledgedSurvive, Store!IsPrefixOf
      <3>3. holder # None => memory'[holder] = memory[holder]
        BY <2>1, <2>4 DEF Store!TypeOK
      <3>4. \A k \in Instances : Len(memory'[k]) <= Len(memory[k])
        BY <2>1 DEF Store!TypeOK
      <3>5. stage = "written" => \A k \in Instances : Len(memory'[k]) < Len(lines)
        BY <3>2, <3>4 DEF Store!HolderIsCurrent, Store!TypeOK
      <3>6. Store!HolderIsCurrent'
        BY <2>4, <3>1, <3>3, <3>5 DEF Store!HolderIsCurrent
      <3> QED BY <2>2, <3>2, <3>6
    <2> QED BY <2>3, <2>4
  <1>10. ASSUME Store!PowerLoss PROVE Store!StoreInv'
    <2>1. PICK n \in flushed .. Len(lines) :
            /\ lines' = SubSeq(lines, 1, n) /\ flushed' = n
            /\ \/ tail' = "clean" /\ tail_event' = None
               \/ tail' = "torn" /\ tail_event' = None
               \/ /\ tail' = "record"
                  /\ tail_event' = IF n < Len(lines) THEN lines[n + 1] ELSE tail_event
                  /\ tail_event' # None
      BY <1>10 DEF Store!PowerLoss
    <2>2. n \in 0 .. Len(lines) /\ Len(acked) <= n
      BY DEF Store!TypeOK, Store!AcknowledgedSurvive
    <2>3. lines' \in Seq(Events) /\ Len(lines') = n /\ Store!IsPrefixOf(acked, lines')
      BY <2>1, <2>2, PrefixSubSeq DEF Store!TypeOK, Store!AcknowledgedSurvive
    <2>4. tail_event' \in Events \cup {None} /\ (tail_event' # None <=> tail' = "record")
          /\ tail' \in {"clean", "torn", "record"}
      BY <2>1, <2>2, NoneAssumption DEF Store!TypeOK
    <2>5. Store!ViewsArePrefixes'
      BY <1>10, <2>3 DEF Store!PowerLoss, Store!ViewsArePrefixes, Store!IsPrefixOf
    <2> QED BY <1>10, <2>1, <2>2, <2>3, <2>4, <2>5 DEF Store!PowerLoss, Store!TypeOK, Store!AcknowledgedSurvive, Store!HolderIsCurrent
  <1>11. CASE UNCHANGED Store!vars
    BY <1>11 DEF Store!vars, Store!fileVars, Store!lockVars, Store!objectVars, Store!TypeOK, Store!ViewsArePrefixes, Store!AcknowledgedSurvive,
                 Store!HolderIsCurrent, Store!IsPrefixOf
  <1> QED BY <1>1, <1>2, <1>3, <1>4, <1>5, <1>6, <1>7, <1>8, <1>9, <1>10, <1>11 DEF Store!Next

\* Type correctness, and the two facts the scheduler rests on: every object has
\* applied a prefix of the log, and what was acknowledged stays in it.
THEOREM StoreSafe == Store!Spec => []StoreInv
  BY StoreInit, StoreStep, PTL DEF Store!Spec, StoreInv

(* An object never applied an event the log does not have at that place.   *)
THEOREM ViewsStayPrefixes == Store!Spec => []Store!ViewsArePrefixes
  <1>1. StoreInv => Store!ViewsArePrefixes
    BY DEF StoreInv, Store!StoreInv
  <1> QED BY <1>1, StoreSafe, PTL

-----------------------------------------------------------------------------
(* The refinement.  Synced names the value of `synced` under the mapping.  *)

Synced == {i \in objects : memory[i] = Store!CommittedLog}
Writer == IF stage = "written" \/ (stage = "writing" /\ tail = "record") THEN holder ELSE None

\* Two prefixes of one sequence that have its length are that sequence.
LEMMA PrefixSameLength ==
    ASSUME NEW s \in Seq(Events), NEW t \in Seq(Events), Store!IsPrefixOf(s, t), Len(s) = Len(t)
    PROVE  s = t
  BY DEF Store!IsPrefixOf

\* A live object is synced when its length says so, which is what append checks.
LEMMA SyncedByLength ==
    ASSUME Store!StoreInv, NEW i \in Instances
    PROVE  memory[i] = Store!CommittedLog <=> Len(memory[i]) = Len(Store!CommittedLog)
  <1>1. memory[i] \in Seq(Events) /\ lines \in Seq(Events) /\ Store!IsPrefixOf(memory[i], lines)
    BY DEF Store!StoreInv, Store!TypeOK, Store!ViewsArePrefixes
  <1>2. CASE tail = "record"
    <2>1. tail_event \in Events
      BY <1>2 DEF Store!StoreInv, Store!TypeOK
    <2>2. Len(Store!CommittedLog) = Len(lines) + 1
      BY <1>1, <1>2, <2>1 DEF Store!CommittedLog, Store!Repaired
    <2> QED BY <1>1, <2>2 DEF Store!IsPrefixOf
  <1>3. CASE tail # "record"
    BY <1>1, <1>3, PrefixSameLength DEF Store!CommittedLog, Store!Repaired
  <1> QED BY <1>2, <1>3

\* Cutting a sequence after an element that was appended does not show it.
LEMMA SubSeqFacts ==
    ASSUME NEW t \in Seq(Events), NEW n \in 0 .. Len(t)
    PROVE  /\ n < Len(t) => Append(SubSeq(t, 1, n), t[n + 1]) = SubSeq(t, 1, n + 1)
           /\ SubSeq(t, 1, Len(t)) = t
           /\ \A e \in Events : SubSeq(Append(t, e), 1, n) = SubSeq(t, 1, n)
  OBVIOUS

\* The mapped variables under the names used below.
LEMMA Mapping ==
    /\ Store!Log!Init <=> Store!CommittedLog = << >> /\ Synced = {} /\ Writer = None /\ flushed = 0
    /\ [Store!Log!Next]_(Store!Log!vars) <=> Store!Log!Next \/ UNCHANGED <<Store!CommittedLog, Synced, Writer, flushed>>
  BY DEF Store!Log!Init, Store!Log!vars, Synced, Writer

\* A complete record counts as committed once it is in the file.
LEMMA CommitStep ==
    ASSUME Store!StoreInv, NEW i \in Instances, NEW e \in Events,
           holder = i, pending = e, stage = "writing", tail # "record",
           Store!CommittedLog' = Append(lines, e), UNCHANGED <<objects, memory, flushed>>, Writer' = i
    PROVE  Store!Log!Next
  <1>1. Store!CommittedLog = lines /\ lines \in Seq(Events)
    BY DEF Store!StoreInv, Store!TypeOK, Store!CommittedLog, Store!Repaired
  <1>2. i \in Synced /\ Writer = None
    <2>1. i \in objects /\ Len(memory[i]) = Len(lines)
      BY NoneAssumption DEF Store!StoreInv, Store!HolderIsCurrent
    <2> QED BY <1>1, <2>1, SyncedByLength DEF Synced, Writer
  <1>3. Synced' = {}
    <2>1. ASSUME NEW k \in Instances PROVE memory[k] # Append(lines, e)
      BY <1>1 DEF Store!StoreInv, Store!ViewsArePrefixes, Store!TypeOK, Store!IsPrefixOf
    <2> QED BY <2>1 DEF Synced, Store!StoreInv, Store!TypeOK
  <1>4. Store!Log!Commit(i, e)
    BY <1>1, <1>2, <1>3 DEF Store!Log!Commit, Synced, Writer
  <1> QED BY <1>4 DEF Store!Log!Next

\* Every step of the file is a step of the log or changes nothing in it.
LEMMA RefineStep == Store!StoreInv /\ Store!StoreInv' /\ [Store!Next]_(Store!vars) => [Store!Log!Next]_(Store!Log!vars)
  <1> SUFFICES ASSUME Store!StoreInv, Store!StoreInv', [Store!Next]_(Store!vars)
               PROVE  Store!Log!Next \/ UNCHANGED <<Store!CommittedLog, Synced, Writer, flushed>>
    BY Mapping
  <1>a. /\ lines \in Seq(Events) /\ Store!CommittedLog \in Seq(Events) /\ Len(lines) <= Len(Store!CommittedLog)
        /\ flushed \in 0 .. Len(Store!CommittedLog) /\ flushed \in 0 .. Len(lines)
        /\ tail # "record" => Store!CommittedLog = lines
        /\ tail = "record" => Store!CommittedLog = Append(lines, tail_event) /\ tail_event \in Events
    BY DEF Store!StoreInv, Store!TypeOK, Store!CommittedLog, Store!Repaired
  <1>b. ASSUME Store!Repair
        PROVE  /\ Store!CommittedLog' = Store!CommittedLog /\ lines' = Store!CommittedLog
               /\ flushed' \in flushed .. Len(Store!CommittedLog)
    <2>1. lines' = Store!CommittedLog /\ tail' = "clean"
      BY <1>b DEF Store!Repair, Store!CommittedLog
    <2> QED BY <1>a, <1>b, <2>1 DEF Store!Repair, Store!CommittedLog, Store!Repaired
  <1>1. ASSUME NEW i \in Instances, Store!OpenScheduler(i) PROVE Store!Log!Next
    <2>1. /\ Store!CommittedLog' = Store!CommittedLog /\ flushed' \in flushed .. Len(Store!CommittedLog)
          /\ objects' = objects \cup {i} /\ memory' = [memory EXCEPT ![i] = Store!CommittedLog]
      BY <1>1, <1>b DEF Store!OpenScheduler, Store!CommittedLog
    <2>2. Writer = None /\ Writer' = None
      BY <1>1 DEF Store!OpenScheduler, Writer, Store!lockVars, Store!StoreInv, Store!TypeOK
    <2>3. Synced' = Synced \cup {i}
      BY <2>1 DEF Synced, Store!StoreInv, Store!TypeOK
    <2>4. Store!Log!Open(i)
      BY <2>1, <2>2, <2>3 DEF Store!Log!Open, Synced, Writer
    <2> QED BY <2>4 DEF Store!Log!Next
  <1>2. ASSUME NEW i \in Instances, Store!RefuseStale(i) PROVE Store!Log!Next
    <2>1. Store!CommittedLog' = Store!CommittedLog /\ flushed' \in flushed .. Len(Store!CommittedLog)
      BY <1>2, <1>b DEF Store!RefuseStale
    <2>2. Writer = None /\ Writer' = None /\ Synced' = Synced
      BY <1>2, <2>1 DEF Store!RefuseStale, Writer, Synced, Store!lockVars, Store!objectVars, Store!StoreInv, Store!TypeOK
    <2>3. Store!Log!Refuse
      BY <2>1, <2>2 DEF Store!Log!Refuse, Synced, Writer
    <2> QED BY <2>3 DEF Store!Log!Next
  <1>3. ASSUME NEW i \in Instances, NEW e \in Events, Store!BeginAppend(i, e) PROVE Store!Log!Next
    <2>1. Store!CommittedLog' = Store!CommittedLog /\ flushed' \in flushed .. Len(Store!CommittedLog)
      BY <1>3, <1>b DEF Store!BeginAppend
    <2>2. Synced' = Synced
      BY <1>3, <2>1 DEF Store!BeginAppend, Synced, Store!objectVars
    <2>3. Writer = None /\ Writer' = None
      BY <1>3 DEF Store!BeginAppend, Writer, Store!Repair, Store!StoreInv, Store!TypeOK
    <2>4. Store!Log!Refuse
      BY <2>1, <2>2, <2>3 DEF Store!Log!Refuse, Synced, Writer
    <2> QED BY <2>4 DEF Store!Log!Next
  <1>4. ASSUME NEW i \in Instances, Store!WritePart(i) PROVE UNCHANGED <<Store!CommittedLog, Synced, Writer, flushed>>
    BY <1>4 DEF Store!WritePart, Store!CommittedLog, Store!Repaired, Synced, Writer, Store!lockVars, Store!objectVars
  <1>5. ASSUME NEW i \in Instances, Store!WriteRecord(i) PROVE Store!Log!Next
    <2>1. pending \in Events
      BY <1>5, NoneAssumption DEF Store!WriteRecord, Store!StoreInv, Store!TypeOK
    <2>2. PICK e \in Events : pending = e
      BY <2>1
    <2>3. Store!CommittedLog' = Append(lines, e) /\ Writer' = i
      BY <1>5, <2>2 DEF Store!WriteRecord, Store!CommittedLog, Store!Repaired, Writer, Store!lockVars
    <2> QED BY <1>5, <2>2, <2>3, CommitStep DEF Store!WriteRecord, Store!objectVars
  <1>6. ASSUME NEW i \in Instances, Store!WriteLine(i)
        PROVE  Store!Log!Next \/ UNCHANGED <<Store!CommittedLog, Synced, Writer, flushed>>
    <2>1. pending \in Events
      BY <1>6, NoneAssumption DEF Store!WriteLine, Store!StoreInv, Store!TypeOK
    <2>2. PICK e \in Events : pending = e
      BY <2>1
    <2>3. Store!CommittedLog' = Append(lines, e) /\ Writer' = i
      BY <1>6, <2>2 DEF Store!WriteLine, Store!CommittedLog, Store!Repaired, Writer
    <2>4. CASE tail = "record"
      <3>1. Store!CommittedLog' = Store!CommittedLog
        BY <1>6, <1>a, <2>2, <2>3, <2>4, NoneAssumption DEF Store!WriteLine, Store!StoreInv, Store!HolderIsCurrent
      <3> QED BY <1>6, <2>3, <2>4, <3>1 DEF Store!WriteLine, Synced, Writer, Store!objectVars
    <2>5. CASE tail # "record"
      BY <1>6, <2>2, <2>3, <2>5, CommitStep DEF Store!WriteLine, Store!objectVars
    <2> QED BY <2>4, <2>5
  <1>7. ASSUME NEW i \in Instances, Store!Acknowledge(i) PROVE Store!Log!Next
    <2>1. /\ tail = "clean" /\ Store!CommittedLog = lines /\ Store!CommittedLog' = lines /\ flushed' = Len(lines)
          /\ i \in objects /\ objects' = objects /\ \A k \in Instances : Len(memory[k]) < Len(lines)
      BY <1>7, NoneAssumption DEF Store!Acknowledge, Store!StoreInv, Store!HolderIsCurrent, Store!CommittedLog, Store!Repaired
    <2>2. Len(memory'[i]) = Len(lines) /\ \A k \in Instances : k # i => memory'[k] = memory[k]
      BY <1>7, NoneAssumption DEF Store!Acknowledge, Store!StoreInv, Store!HolderIsCurrent, Store!TypeOK
    <2>3. memory'[i] = lines
      <3>1. Store!IsPrefixOf(memory'[i], lines) /\ memory'[i] \in Seq(Events)
        BY <1>7 DEF Store!Acknowledge, Store!StoreInv, Store!ViewsArePrefixes, Store!TypeOK
      <3> QED BY <1>a, <2>2, <3>1, PrefixSameLength
    <2>4. Synced' = {i}
      BY <2>1, <2>2, <2>3 DEF Synced, Store!StoreInv, Store!TypeOK
    <2>5. Writer = i /\ Writer' = None
      BY <1>7 DEF Store!Acknowledge, Writer
    <2>6. Store!Log!Acknowledge(i)
      BY <2>1, <2>4, <2>5 DEF Store!Log!Acknowledge, Synced, Writer
    <2> QED BY <2>6 DEF Store!Log!Next
  <1>8. ASSUME NEW i \in Instances, Store!AppendRaises(i)
        PROVE  Store!Log!Next \/ UNCHANGED <<Store!CommittedLog, Synced, Writer, flushed>>
    <2>1. Store!CommittedLog' = Store!CommittedLog /\ Synced' = Synced /\ Writer' = None
      BY <1>8 DEF Store!AppendRaises, Store!CommittedLog, Store!Repaired, Synced, Writer, Store!objectVars
    <2>2. CASE Writer = i
      <3>1. flushed' \in flushed .. Len(Store!CommittedLog)
        BY <1>8, <1>a DEF Store!AppendRaises
      <3>2. Store!Log!Abandon(i)
        BY <2>1, <2>2, <3>1 DEF Store!Log!Abandon, Synced, Writer
      <3> QED BY <3>2 DEF Store!Log!Next
    <2>3. CASE Writer # i
      BY <1>8, <2>1, <2>3 DEF Store!AppendRaises, Writer
    <2> QED BY <2>2, <2>3
  <1>9. ASSUME NEW i \in Instances, Store!Crash(i)
        PROVE  Store!Log!Next \/ UNCHANGED <<Store!CommittedLog, Synced, Writer, flushed>>
    <2>1. Store!CommittedLog' = Store!CommittedLog /\ flushed' = flushed /\ Synced' = Synced \ {i}
      BY <1>9 DEF Store!Crash, Store!CommittedLog, Store!Repaired, Synced, Store!fileVars, Store!StoreInv, Store!TypeOK
    <2>2. CASE Writer = i
      <3>1. Writer' = None
        BY <1>9, <2>2, NoneAssumption DEF Store!Crash, Writer
      <3>2. Len(memory[i]) # Len(Store!CommittedLog)
        BY <1>a, <2>2, NoneAssumption DEF Writer, Store!StoreInv, Store!HolderIsCurrent, Store!TypeOK, Store!ViewsArePrefixes, Store!IsPrefixOf
      <3>3. Synced' = Synced
        BY <2>1, <3>2, SyncedByLength DEF Synced
      <3>4. Store!Log!Abandon(i)
        BY <1>a, <2>1, <2>2, <3>1, <3>3 DEF Store!Log!Abandon, Synced, Writer
      <3> QED BY <3>4 DEF Store!Log!Next
    <2>3. CASE Writer # i
      <3>1. Writer' = Writer
        BY <1>9, <2>3 DEF Store!Crash, Writer, Store!fileVars, Store!lockVars
      <3>2. CASE i \in Synced
        <4>1. Store!Log!Lose(i)
          BY <2>1, <3>1, <3>2 DEF Store!Log!Lose, Synced, Writer
        <4> QED BY <4>1 DEF Store!Log!Next
      <3>3. CASE i \notin Synced
        BY <2>1, <3>1, <3>3
      <3> QED BY <3>2, <3>3
    <2> QED BY <2>2, <2>3
  <1>10. ASSUME Store!PowerLoss PROVE Store!Log!Next
    <2>1. PICK n \in flushed .. Len(lines) :
            /\ lines' = SubSeq(lines, 1, n) /\ flushed' = n
            /\ \/ tail' # "record"
               \/ /\ tail' = "record"
                  /\ tail_event' = IF n < Len(lines) THEN lines[n + 1] ELSE tail_event
                  /\ tail_event' # None
      BY <1>10 DEF Store!PowerLoss
    <2>2. n \in 0 .. Len(lines) /\ Len(lines') = n
      BY <1>a, <2>1, SubSeqFacts
    <2>3. SubSeq(lines, 1, n) = SubSeq(Store!CommittedLog, 1, n)
      BY <1>a, <2>2, SubSeqFacts
    <2>4. PICK m \in n .. Len(Store!CommittedLog) : Store!CommittedLog' = SubSeq(Store!CommittedLog, 1, m) /\ Len(Store!CommittedLog') = m
      <3>1. CASE tail' # "record"
        <4>1. Store!CommittedLog' = lines'
          BY <3>1 DEF Store!CommittedLog, Store!Repaired
        <4> QED BY <1>a, <2>1, <2>2, <2>3, <4>1
      <3>2. CASE tail' = "record" /\ n < Len(lines)
        <4>1. Store!CommittedLog' = Append(SubSeq(lines, 1, n), lines[n + 1])
          BY <2>1, <3>2 DEF Store!CommittedLog, Store!Repaired
        <4>2. Store!CommittedLog' = SubSeq(lines, 1, n + 1) /\ n + 1 \in 0 .. Len(lines)
          BY <1>a, <2>2, <3>2, <4>1, SubSeqFacts
        <4>3. SubSeq(lines, 1, n + 1) = SubSeq(Store!CommittedLog, 1, n + 1)
          BY <1>a, <4>2, SubSeqFacts
        <4> QED BY <1>a, <2>2, <4>2, <4>3
      <3>3. CASE tail' = "record" /\ n = Len(lines)
        <4>1. lines' = lines /\ tail_event' = tail_event /\ tail = "record"
          BY <1>a, <2>1, <3>3, SubSeqFacts DEF Store!StoreInv, Store!TypeOK
        <4>2. Store!CommittedLog' = Store!CommittedLog
          BY <3>3, <4>1 DEF Store!CommittedLog, Store!Repaired
        <4>3. Store!CommittedLog = SubSeq(Store!CommittedLog, 1, Len(Store!CommittedLog))
          BY <1>a, SubSeqFacts
        <4>4. Len(Store!CommittedLog) \in n .. Len(Store!CommittedLog)
          BY <1>a, <2>2
        <4> QED BY <4>2, <4>3, <4>4, Zenon
      <3> QED BY <2>2, <3>1, <3>2, <3>3
    <2>5. Synced' = {} /\ Writer' = None
      BY <1>10 DEF Store!PowerLoss, Synced, Writer
    <2>6. Store!Log!PowerLoss
      BY <1>a, <2>1, <2>2, <2>4, <2>5 DEF Store!Log!PowerLoss, Synced, Writer
    <2> QED BY <2>6 DEF Store!Log!Next
  <1>11. CASE UNCHANGED Store!vars
    BY <1>11 DEF Store!vars, Store!fileVars, Store!lockVars, Store!objectVars, Store!CommittedLog, Store!Repaired, Synced, Writer
  <1> QED BY <1>1, <1>2, <1>3, <1>4, <1>5, <1>6, <1>7, <1>8, <1>9, <1>10, <1>11 DEF Store!Next

\* The JSONL file with its lock, repair and sequence check implements the log
\* CampaignScheduler is written against.
THEOREM StoreImplementsLog == Store!Spec => ImplementsLog
  <1>1. Store!Init => Store!Log!Init
    BY Mapping DEF Store!Init, Store!CommittedLog, Store!Repaired, Synced, Writer
  <1> QED BY <1>1, StoreInit, StoreStep, RefineStep, PTL DEF Store!Spec, ImplementsLog, Store!ImplementsLog, Store!Log!Spec

-----------------------------------------------------------------------------
(* The dispatch loops.                                                     *)

\* A job that may be claimed has an attempt left, and one that is leased has had one.
JobsOK ==
    \A j \in Jobs : /\ status[j] \in {"absent", "queued"} => attempts[j] < MaxAttempts[j]
                    /\ status[j] \in Busy => attempts[j] >= 1

\* An inherited lease that can be resumed was not dispatched by this loop.
OrphansOK ==
    \A j \in orphans : attempts[j] >= 1 /\ status[j] \in Busy \cup {"canceled"} /\ wave[LeaseOf(j)] = 0

\* Waves are numbered in the order in which they start, each ends once, with an error at most.
WavesOK ==
    /\ \A l \in Leases : wave[l] # 0 => l[2] <= attempts[l[1]]
    /\ {wave[l] : l \in Leases} \ {0} = 1 .. Started
    /\ alive \subseteq active_waves /\ active_waves \subseteq 1 .. Started
    /\ wave_errors + Cardinality(alive) <= Started

\* Groups that ended are of leases that were dispatched.
Dispatched == {l \in Leases : wave[l] # 0}
GroupsOK == completed \in [Waves -> Seq([group : SUBSET Dispatched, error : BOOLEAN])]

Looping == {"poll", "reap", "errors", "reconcile", "counts", "claim", "recount"}

\* What the loop knows where it is: past its look at the errors, one that came since is of a wave it will
\* still wait for; in the grace, no job but the listed ones is active.
LoopOK ==
    /\ pc \in Looping \/ (pc = "returned" /\ ~Serving) => why = "none"
    /\ pc \in {"reconcile", "counts"} /\ active_waves = {} => wave_errors = 0
    /\ pc = "grace" => Active \subseteq active

\* A result that no thread will report leaves an error behind, or ended the loop.
LostOK == \A l \in Leases : Lost(l) => wave_errors > 0 \/ why # "none"

DispatchIInv == scope \in Scopes /\ TypeOK /\ JobsOK /\ OrphansOK /\ WavesOK /\ GroupsOK /\ LoopOK /\ LostOK /\ DrainReturnsIdle /\ ExitSealsAll

-----------------------------------------------------------------------------
(* Leases and waves.                                                       *)

\* As many values as arguments, at most.
LEMMA Images ==
    ASSUME NEW S, IsFiniteSet(S), NEW f, f = [x \in S |-> f[x]]
    PROVE  LET T == {f[x] : x \in S} IN IsFiniteSet(T) /\ Cardinality(T) <= Cardinality(S)
  <1> DEFINE T == {f[x] : x \in S}
  <1>1. f \in Surjection(S, T)
    BY DEF Surjection
  <1> QED BY <1>1, FS_Surjection

\* What a scope says, and what leases are.
LEMMA LeaseFacts ==
    ASSUME scope \in Scopes
    PROVE  /\ MaxAttempts \in [Jobs -> Nat \ {0}] /\ Inherited \subseteq Jobs
           /\ \A l \in Leases : l = <<l[1], l[2]>> /\ l[1] \in Jobs /\ l[2] \in 1 .. MaxAttempts[l[1]]
           /\ \A j \in Jobs : \A a \in 1 .. MaxAttempts[j] : <<j, a>> \in Leases
           /\ IsFiniteSet(Leases) /\ Cardinality(Leases) \in Nat /\ Waves = 1 .. Cardinality(Leases)
  <1>1. MaxAttempts \in [Jobs -> Nat \ {0}] /\ Inherited \subseteq Jobs
    BY DispatchAssumption DEF MaxAttempts, Inherited
  <1>2. \A l \in Leases : l = <<l[1], l[2]>> /\ l[1] \in Jobs /\ l[2] \in 1 .. MaxAttempts[l[1]]
    BY DEF Leases
  <1>3. \A j \in Jobs : \A a \in 1 .. MaxAttempts[j] : <<j, a>> \in Leases
    BY DEF Leases
  <1>4. IsFiniteSet(Leases)
    <2> DEFINE of == [j \in Jobs |-> {<<j, a>> : a \in 1 .. MaxAttempts[j]}]
               All == {of[j] : j \in Jobs}
    <2>1. ASSUME NEW j \in Jobs PROVE IsFiniteSet(of[j])
      <3> DEFINE S == 1 .. MaxAttempts[j]
                 f == [a \in S |-> <<j, a>>]
      <3>1. IsFiniteSet(S)
        BY <1>1, FS_Interval
      <3>2. f = [a \in S |-> f[a]] /\ {f[a] : a \in S} = of[j]
        OBVIOUS
      <3> HIDE DEF S, f, of
      <3>3. IsFiniteSet({f[a] : a \in S})
        BY <3>1, <3>2, Images
      <3> QED BY <3>2, <3>3
    <2>0. of = [j \in Jobs |-> of[j]]
      OBVIOUS
    <2>5. UNION All = Leases
      BY DEF Leases
    <2> HIDE DEF of
    <2>2. IsFiniteSet(All)
      BY <2>0, DispatchAssumption, Images
    <2>3. \A S \in All : IsFiniteSet(S)
      BY <2>1
    <2>4. IsFiniteSet(UNION All)
      BY <2>2, <2>3, FS_UNION
    <2> QED BY <2>4, <2>5
  <1> QED BY <1>1, <1>2, <1>3, <1>4, FS_CardinalityType DEF Waves

\* The scope stays, and with it what it determines.
LEMMA LeasesStay ==
    ASSUME scope' = scope
    PROVE  /\ Leases' = Leases /\ Waves' = Waves /\ MaxAttempts' = MaxAttempts /\ Serving' = Serving
           /\ Kind' = Kind /\ GroupKey' = GroupKey
  BY DEF Leases, Waves, MaxAttempts, Serving, Kind, GroupKey

\* As many waves have started as leases were dispatched, at most.
LEMMA StartedFacts ==
    ASSUME scope \in Scopes, wave \in [Leases -> Waves \cup {0}],
           NEW D \in SUBSET Leases, \A l \in Leases : wave[l] # 0 => l \in D
    PROVE  Started \in Nat /\ Cardinality(D) \in Nat /\ Started <= Cardinality(D)
  <1> DEFINE I == {wave[l] : l \in D}
             U == {wave[l] : l \in Leases} \ {0}
  <1>1. IsFiniteSet(D)
    BY LeaseFacts, FS_Subset
  <1>2. IsFiniteSet(I) /\ Cardinality(I) <= Cardinality(D)
    <2> DEFINE f == [l \in D |-> wave[l]]
    <2>1. f = [l \in D |-> f[l]] /\ {f[l] : l \in D} = I
      OBVIOUS
    <2> HIDE DEF f, I
    <2> QED BY <1>1, <2>1, Images
  <1>3. U \subseteq I
    OBVIOUS
  <1>4. IsFiniteSet(U) /\ Cardinality(U) <= Cardinality(I)
    BY <1>2, <1>3, FS_Subset
  <1>5. Started = Cardinality(U)
    BY DEF Started
  <1>6. Cardinality(U) \in Nat /\ Cardinality(I) \in Nat /\ Cardinality(D) \in Nat
    BY <1>1, <1>2, <1>4, FS_CardinalityType
  <1> HIDE DEF I, U
  <1> QED BY <1>2, <1>4, <1>5, <1>6

\* Where leases that were not dispatched are left, there is a wave for them.
LEMMA NextWave ==
    ASSUME scope \in Scopes, wave \in [Leases -> Waves \cup {0}], NEW m \in Leases, wave[m] = 0
    PROVE  Started \in Nat /\ Started + 1 \in Waves
  <1>1. IsFiniteSet(Leases \ {m}) /\ Cardinality(Leases \ {m}) = Cardinality(Leases) - 1
    BY LeaseFacts, FS_RemoveElement
  <1>2. Started \in Nat /\ Started <= Cardinality(Leases \ {m})
    BY StartedFacts
  <1> QED BY <1>1, <1>2, LeaseFacts

LEMMA StartedType ==
    ASSUME scope \in Scopes, wave \in [Leases -> Waves \cup {0}]
    PROVE  Started \in Nat /\ Started <= Cardinality(Leases) /\ 1 .. Started \subseteq Waves
  <1>1. Started \in Nat /\ Started <= Cardinality(Leases)
    BY StartedFacts
  <1> QED BY <1>1, LeaseFacts

\* The waves that are alive can be counted.
LEMMA AliveFacts ==
    ASSUME DispatchIInv
    PROVE  IsFiniteSet(alive) /\ Cardinality(alive) \in Nat /\ wave_errors \in Nat /\ Started \in Nat
  <1>1. Started \in Nat
    BY StartedType DEF DispatchIInv, TypeOK
  <1>2. IsFiniteSet(1 .. Started) /\ alive \subseteq 1 .. Started
    BY <1>1, FS_Interval DEF DispatchIInv, WavesOK
  <1>3. wave_errors \in Nat
    BY DEF DispatchIInv, TypeOK
  <1> QED BY <1>1, <1>2, <1>3, FS_Subset, FS_CardinalityType

-----------------------------------------------------------------------------
(* What keeps the invariant.                                               *)

\* A change of statuses that nobody's attempts or waves have a part in.
Restatuses ==
    /\ UNCHANGED <<attempts, orphans, wave, scope>>
    /\ \A j \in Jobs : /\ status'[j] \in Busy => status[j] \in Busy
                       /\ status'[j] \in {"absent", "queued"} => attempts[j] < MaxAttempts[j]
    /\ \A j \in orphans : status'[j] \in Busy \cup {"canceled"}

LEMMA StatusFrame ==
    ASSUME DispatchIInv, Restatuses
    PROVE  JobsOK' /\ OrphansOK' /\ Active' \subseteq Active
  <1>1. MaxAttempts' = MaxAttempts
    BY LeasesStay DEF Restatuses
  <1>2. JobsOK'
    BY <1>1 DEF DispatchIInv, JobsOK, Restatuses
  <1>3. OrphansOK'
    BY DEF DispatchIInv, OrphansOK, Restatuses, LeaseOf
  <1>4. Active' \subseteq Active
    BY DEF Active, Restatuses
  <1> QED BY <1>2, <1>3, <1>4

\* Whose status stays restatuses nobody.
LEMMA SameStatus ==
    ASSUME DispatchIInv, UNCHANGED <<status, attempts, orphans, wave, scope>>
    PROVE  Restatuses /\ Active' = Active
  <1>1. \A j \in orphans : j \in Jobs /\ status[j] \in Busy \cup {"canceled"}
    BY DEF DispatchIInv, OrphansOK, TypeOK
  <1>2. \A j \in Jobs : status[j] \in {"absent", "queued"} => attempts[j] < MaxAttempts[j]
    BY DEF DispatchIInv, JobsOK
  <1> QED BY <1>1, <1>2 DEF Restatuses, Active

LEMMA WavesFrame ==
    ASSUME DispatchIInv, UNCHANGED <<attempts, wave, alive, active_waves, wave_errors, scope>>
    PROVE  WavesOK' /\ Started' = Started
  <1>1. Leases' = Leases
    BY LeasesStay
  <1>2. Started' = Started
    BY <1>1 DEF Started
  <1> QED BY <1>1, <1>2 DEF DispatchIInv, WavesOK

LEMMA LostFrame ==
    ASSUME DispatchIInv, UNCHANGED <<wave, alive, wave_errors, scope>>, reported \subseteq reported',
           why # "none" => why' # "none"
    PROVE  LostOK'
  BY LeasesStay DEF DispatchIInv, LostOK, Lost

\* A step of the world around the loop.
LEMMA OutsideFrame ==
    ASSUME DispatchIInv, pc \notin Ended, Restatuses, reported \subseteq reported',
           UNCHANGED <<alive, wave_errors, active_waves, active, pc, why, scope>>, TypeOK',
           completed' = completed \/ GroupsOK'
    PROVE  DispatchIInv'
  <1>1. JobsOK' /\ OrphansOK' /\ Active' \subseteq Active
    BY StatusFrame
  <1>2. WavesOK' /\ LostOK'
    BY WavesFrame, LostFrame DEF Restatuses
  <1>3. LoopOK'
    BY <1>1, LeasesStay DEF DispatchIInv, LoopOK
  <1>4. DrainReturnsIdle' /\ ExitSealsAll'
    BY DEF DrainReturnsIdle, ExitSealsAll, Ended
  <1>5. GroupsOK'
    <2>1. Dispatched' = Dispatched /\ Waves' = Waves
      BY LeasesStay DEF Dispatched, Restatuses
    <2> QED BY <2>1 DEF DispatchIInv, GroupsOK
  <1> QED BY <1>1, <1>2, <1>3, <1>4, <1>5 DEF DispatchIInv

LEMMA EnqueueStep ==
    ASSUME DispatchIInv, scope' = scope, pc \notin Ended, NEW j \in Jobs, Enqueue(j)
    PROVE  DispatchIInv'
  <1>1. TypeOK'
    <2>1. expired \subseteq Active'
      BY DEF DispatchIInv, TypeOK, Active, Enqueue, Busy
    <2> QED BY <2>1, LeasesStay DEF DispatchIInv, TypeOK, Enqueue, waveVars, cancelVars, readVars, inputVars
  <1>2. Restatuses
    <2>1. attempts[j] < MaxAttempts[j] /\ j \notin orphans
      BY DEF DispatchIInv, JobsOK, OrphansOK, Enqueue, Busy
    <2>2. \A k \in orphans : k \in Jobs /\ status[k] \in Busy \cup {"canceled"}
      BY DEF DispatchIInv, OrphansOK, TypeOK
    <2> QED BY <2>1, <2>2 DEF DispatchIInv, TypeOK, JobsOK, Restatuses, Enqueue, waveVars, Busy
  <1> QED BY <1>1, <1>2, OutsideFrame DEF Enqueue, waveVars, readVars

LEMMA QuietSteps ==
    ASSUME DispatchIInv, scope' = scope, pc \notin Ended,
           \/ Stop \/ DeadlinePasses \/ BecomeStale
           \/ \E j \in Jobs : UserCancels(j) \/ LeaseExpires(j)
           \/ \E w \in Waves, k \in Keys : HeartbeatAssignments(w, k)
    PROVE  DispatchIInv'
  <1> USE DEF jobVars, waveVars, cancelVars, readVars, inputVars
  <1>1. /\ UNCHANGED <<status, attempts, orphans, wave, alive, wave_errors, active_waves, active, pc, why, running,
                       completed, reported, queued_seen, running_seen>>
        /\ \/ expired' = expired \/ expired' \subseteq expired
           \/ \E j \in Active : expired' = expired \cup {j}
        /\ usable' \in {usable, FALSE} /\ stop_event' \in {stop_event, TRUE} /\ deadline' \in {deadline, TRUE}
        /\ \/ cancel_threads' = cancel_threads \/ \E j \in Jobs : cancel_threads' = cancel_threads \cup {j}
        /\ cancel_waits' = cancel_waits
    <2>1. CASE Stop
      BY <2>1 DEF Stop
    <2>2. CASE DeadlinePasses
      BY <2>2 DEF DeadlinePasses
    <2>3. CASE BecomeStale
      BY <2>3 DEF BecomeStale
    <2>4. ASSUME NEW j \in Jobs, UserCancels(j) PROVE <1>1!1 /\ <1>1!2 /\ <1>1!3 /\ <1>1!4 /\ <1>1!5
      BY <2>4 DEF UserCancels
    <2>5. ASSUME NEW j \in Jobs, LeaseExpires(j) PROVE <1>1!1 /\ <1>1!2 /\ <1>1!3 /\ <1>1!4 /\ <1>1!5
      BY <2>5 DEF LeaseExpires, Active
    <2>6. ASSUME NEW w \in Waves, NEW k \in Keys, HeartbeatAssignments(w, k) PROVE <1>1!1 /\ <1>1!2 /\ <1>1!3 /\ <1>1!4 /\ <1>1!5
      BY <2>6 DEF HeartbeatAssignments
    <2> QED BY <2>1, <2>2, <2>3, <2>4, <2>5, <2>6
  <1>2. Restatuses /\ Active' = Active
    BY <1>1, SameStatus
  <1>3. TypeOK'
    <2>1. TypeOK /\ Leases' = Leases /\ Waves' = Waves /\ MaxAttempts' = MaxAttempts
      BY LeasesStay DEF DispatchIInv
    <2>2. expired' \subseteq Active'
      BY <1>1, <1>2, <2>1 DEF TypeOK
    <2>3. cancel_threads' \subseteq Jobs /\ {queued_seen', running_seen', stop_event', deadline'} \subseteq BOOLEAN
          /\ usable' \in BOOLEAN
      BY <1>1, <2>1 DEF TypeOK
    <2> QED BY <1>1, <2>1, <2>2, <2>3 DEF TypeOK
  <1> QED BY <1>1, <1>2, <1>3, OutsideFrame

LEMMA CancelSteps ==
    ASSUME DispatchIInv, scope' = scope, pc \notin Ended, NEW j \in Jobs,
           CancelStarts(j) \/ \E confirmed \in BOOLEAN : CancelAnswered(j, confirmed)
    PROVE  DispatchIInv'
  <1> USE DEF waveVars, readVars, inputVars
  <1>0. TypeOK /\ Leases' = Leases /\ Waves' = Waves /\ MaxAttempts' = MaxAttempts
    BY LeasesStay DEF DispatchIInv
  <1>1. /\ UNCHANGED <<attempts, orphans, usable, wave, alive, wave_errors, active_waves, active, pc, why, running,
                       completed, reported, queued_seen, running_seen, stop_event, deadline>>
        /\ \/ status' = status
           \/ status[j] = "queued" /\ status' = [status EXCEPT ![j] = "canceled"]
           \/ status[j] = "leased" /\ status' = [status EXCEPT ![j] = "canceling"]
           \/ status[j] = "canceling" /\ status' = [status EXCEPT ![j] = "canceled"]
        /\ expired' = IF status[j] = "canceling" /\ status' # status THEN expired \ {j} ELSE expired
        /\ cancel_threads' \subseteq Jobs /\ cancel_waits' \subseteq Jobs
    <2>1. CASE CancelStarts(j)
      <3>1. \/ status' = status
            \/ status[j] = "queued" /\ status' = [status EXCEPT ![j] = "canceled"]
            \/ status[j] = "leased" /\ status' = [status EXCEPT ![j] = "canceling"]
        <4>1. CASE ~usable
          BY <2>1, <4>1 DEF CancelStarts
        <4>2. CASE usable /\ status[j] = "queued"
          BY <2>1, <4>2 DEF CancelStarts
        <4>3. CASE usable /\ status[j] = "leased"
          BY <2>1, <4>3 DEF CancelStarts
        <4>4. CASE usable /\ status[j] \notin {"queued", "leased"}
          BY <2>1, <4>4 DEF CancelStarts
        <4> QED BY <4>1, <4>2, <4>3, <4>4, <1>0 DEF TypeOK
      <3>2. cancel_threads' \subseteq Jobs /\ cancel_waits' \subseteq Jobs
        BY <2>1, <1>0 DEF CancelStarts, TypeOK
      <3>3. ~(status[j] = "canceling" /\ status' # status)
        BY <3>1
      <3>4. /\ UNCHANGED <<attempts, orphans, usable, wave, alive, wave_errors, active_waves, active, pc, why, running,
                           completed, reported, queued_seen, running_seen, stop_event, deadline>>
            /\ expired' = expired
        BY <2>1 DEF CancelStarts
      <3> QED BY <3>1, <3>2, <3>3, <3>4
    <2>2. ASSUME NEW confirmed \in BOOLEAN, CancelAnswered(j, confirmed) PROVE <1>1!1 /\ <1>1!2 /\ <1>1!3 /\ <1>1!4
      BY <2>2, <1>0 DEF CancelAnswered, TypeOK
    <2> QED BY <2>1, <2>2
  <1>2. /\ status' \in [Jobs -> {"absent", "queued", "leased", "canceling", "canceled", "finished", "budget_exhausted"}]
        /\ expired' \subseteq Active'
    BY <1>0, <1>1 DEF TypeOK, Active, Busy
  <1>3. TypeOK'
    BY <1>0, <1>1, <1>2 DEF TypeOK
  <1>4. Restatuses
    <2>1. /\ \A k \in orphans : k \in Jobs /\ status[k] \in Busy \cup {"canceled"}
          /\ \A k \in Jobs : status[k] \in {"absent", "queued"} => attempts[k] < MaxAttempts[k]
      BY <1>0 DEF DispatchIInv, OrphansOK, JobsOK, TypeOK
    <2>2. \A k \in Jobs : /\ status'[k] \in Busy => status[k] \in Busy
                          /\ status'[k] \in {"absent", "queued"} => status'[k] = status[k]
                          /\ status'[k] = status[k] \/ status'[k] \in Busy \cup {"canceled"}
      BY <1>0, <1>1 DEF TypeOK, Busy
    <2> QED BY <1>1, <2>1, <2>2 DEF Restatuses
  <1> QED BY <1>1, <1>3, <1>4, OutsideFrame

-----------------------------------------------------------------------------
(* The waves.                                                              *)

LEMMA GroupEndsStep ==
    ASSUME DispatchIInv, scope' = scope, pc \notin Ended, NEW w \in Waves, NEW k \in Keys, NEW error \in BOOLEAN,
           GroupEnds(w, k, error)
    PROVE  DispatchIInv'
  <1> USE DEF jobVars, cancelVars, readVars, inputVars, GroupEnds
  <1>0. TypeOK /\ Leases' = Leases /\ Waves' = Waves /\ MaxAttempts' = MaxAttempts
    BY LeasesStay DEF DispatchIInv
  <1>1. Restatuses /\ Active' = Active
    BY SameStatus
  <1>2. running' \subseteq Leases /\ completed' \in [Waves -> Seq([group : SUBSET Leases, error : BOOLEAN])]
    <2> DEFINE R == [group : SUBSET Leases, error : BOOLEAN]
               r == [group |-> Group(w, k), error |-> error]
    <2>1. r \in R /\ completed \in [Waves -> Seq(R)]
      BY <1>0 DEF TypeOK, Group
    <2>2. completed' = [completed EXCEPT ![w] = Append(completed[w], r)]
      OBVIOUS
    <2> HIDE DEF R, r
    <2>3. completed' \in [Waves -> Seq(R)]
      BY <2>1, <2>2
    <2> QED BY <1>0, <2>3 DEF TypeOK, R
  <1>3. TypeOK'
    BY <1>0, <1>1, <1>2 DEF TypeOK
  <1>4. GroupsOK'
    <2> DEFINE D == [group : SUBSET Dispatched, error : BOOLEAN]
               r == [group |-> Group(w, k), error |-> error]
    <2>1. r \in D /\ completed \in [Waves -> Seq(D)]
      <3>1. w # 0
        BY LeaseFacts DEF DispatchIInv
      <3>2. Group(w, k) \subseteq Dispatched
        BY <1>0, <3>1 DEF Group, Dispatched, TypeOK
      <3> QED BY <3>2 DEF DispatchIInv, GroupsOK
    <2>2. completed' = [completed EXCEPT ![w] = Append(completed[w], r)]
      OBVIOUS
    <2>4. Dispatched' = Dispatched
      BY <1>0 DEF Dispatched
    <2>5. [group : SUBSET Dispatched', error : BOOLEAN] = D
      BY <2>4
    <2> HIDE DEF D, r
    <2>3. completed' \in [Waves -> Seq(D)]
      BY <2>1, <2>2
    <2> QED BY <1>0, <2>3, <2>5 DEF GroupsOK
  <1> QED BY <1>1, <1>3, <1>4, OutsideFrame

LEMMA ReportStep ==
    ASSUME DispatchIInv, scope' = scope, pc \notin Ended, NEW w \in Waves, Report(w)
    PROVE  DispatchIInv'
  <1> DEFINE D == [group : SUBSET Dispatched, error : BOOLEAN]
             R == [group : SUBSET Leases, error : BOOLEAN]
  <1>0. TypeOK /\ Leases' = Leases /\ Waves' = Waves /\ MaxAttempts' = MaxAttempts
    BY LeasesStay DEF DispatchIInv
  <1>a. completed \in [Waves -> Seq(D)] /\ completed \in [Waves -> Seq(R)] /\ completed[w] # <<>>
    BY <1>0 DEF DispatchIInv, GroupsOK, TypeOK, Report
  <1>b. /\ Head(completed[w]) \in D /\ Tail(completed[w]) \in Seq(D)
        /\ Head(completed[w]) \in R /\ Tail(completed[w]) \in Seq(R)
    <2> HIDE DEF D, R
    <2> QED BY <1>a
  <1>c. PICK l \in Dispatched, retryable \in BOOLEAN :
          /\ status' = Completed(l, retryable)
          /\ expired' = IF status' = status THEN expired ELSE expired \ {l[1]}
          /\ reported' = reported \cup {l}
          /\ completed' = IF Head(completed[w]).group \subseteq reported'
                            THEN [completed EXCEPT ![w] = Tail(@)] ELSE completed
    BY <1>b DEF Report
  <1>1. UNCHANGED <<attempts, orphans, usable, wave, alive, wave_errors, active_waves, active, pc, why, running,
                    cancel_threads, cancel_waits, queued_seen, running_seen, stop_event, deadline>>
    BY DEF Report, cancelVars, readVars, inputVars
  <1>d. l \in Leases /\ l[1] \in Jobs /\ wave[l] # 0
    BY LeaseFacts DEF DispatchIInv, Dispatched
  <1>2. \/ status' = status
        \/ /\ l = LeaseOf(l[1]) /\ status[l[1]] \in Busy
           /\ \/ status' = [status EXCEPT ![l[1]] = "canceled"] \/ status' = [status EXCEPT ![l[1]] = "finished"]
              \/ MayRetry(l[1]) /\ status' = [status EXCEPT ![l[1]] = "queued"]
    BY <1>c DEF Completed
  <1>3. /\ status' \in [Jobs -> {"absent", "queued", "leased", "canceling", "canceled", "finished", "budget_exhausted"}]
        /\ expired' \subseteq Active'
    BY <1>0, <1>c, <1>d, <1>2 DEF TypeOK, Active, Busy
  <1>4. completed' \in [Waves -> Seq(R)] /\ completed' \in [Waves -> Seq(D)]
    <2> HIDE DEF R, D
    <2> QED BY <1>a, <1>b, <1>c
  <1>e. GroupsOK'
    <2>1. Dispatched' = Dispatched
      BY <1>0, <1>1 DEF Dispatched
    <2>2. [group : SUBSET Dispatched', error : BOOLEAN] = D
      BY <2>1
    <2> HIDE DEF D
    <2> QED BY <1>0, <1>4, <2>2 DEF GroupsOK
  <1>5. TypeOK'
    <2>1. reported' \subseteq Leases
      BY <1>0, <1>c, <1>d DEF TypeOK
    <2> QED BY <1>0, <1>1, <1>3, <1>4, <2>1 DEF TypeOK
  <1> DEFINE j == l[1]
  <1>6. Restatuses
    <2>1. /\ \A k \in orphans : k \in Jobs /\ status[k] \in Busy \cup {"canceled"} /\ wave[LeaseOf(k)] = 0
          /\ \A k \in Jobs : status[k] \in {"absent", "queued"} => attempts[k] < MaxAttempts[k]
      BY <1>0 DEF DispatchIInv, OrphansOK, JobsOK, TypeOK
    <2>2. \/ status' = status
          \/ status[j] \in Busy /\ status' = [status EXCEPT ![j] = "canceled"]
          \/ status[j] \in Busy /\ j \notin orphans /\ status' = [status EXCEPT ![j] = "finished"]
          \/ status[j] \in Busy /\ j \notin orphans /\ attempts[j] < MaxAttempts[j] /\ status' = [status EXCEPT ![j] = "queued"]
      BY <1>2, <1>d, <2>1 DEF MayRetry
    <2> QED BY <1>0, <1>1, <1>d, <2>1, <2>2 DEF Restatuses, TypeOK, Busy
  <1> QED BY <1>1, <1>5, <1>6, <1>c, <1>e, OutsideFrame

LEMMA WaveReturnsStep ==
    ASSUME DispatchIInv, scope' = scope, pc \notin Ended, NEW w \in Waves, WaveReturns(w)
    PROVE  DispatchIInv'
  <1> USE DEF jobVars, cancelVars, readVars, inputVars
  <1>0. TypeOK /\ Leases' = Leases /\ Waves' = Waves /\ MaxAttempts' = MaxAttempts /\ Serving' = Serving
    BY LeasesStay DEF DispatchIInv
  <1>1. /\ UNCHANGED <<status, attempts, expired, orphans, usable, wave, wave_errors, active_waves, active, pc, why, running, reported,
                       completed, cancel_threads, cancel_waits, queued_seen, running_seen, stop_event, deadline>>
        /\ alive' = alive \ {w} /\ w \in alive /\ WaveDone(w)
    BY DEF WaveReturns
  <1>2. JobsOK' /\ OrphansOK' /\ Active' = Active
    BY <1>1, SameStatus, StatusFrame
  <1>3. TypeOK'
    BY <1>0, <1>1, <1>2 DEF TypeOK
  <1>4. WavesOK'
    <2>1. Started' = Started
      BY <1>0, <1>1 DEF Started
    <2>2. Cardinality(alive') = Cardinality(alive) - 1
      BY <1>1, AliveFacts, FS_RemoveElement
    <2> QED BY <1>0, <1>1, <2>1, <2>2, AliveFacts DEF DispatchIInv, WavesOK
  <1>5. LoopOK'
    BY <1>0, <1>1, <1>2 DEF DispatchIInv, LoopOK
  <1>6. LostOK'
    <2>1. ASSUME NEW l \in Leases, Lost(l)' PROVE Lost(l)
      <3>1. wave[l] # w
        BY <1>1, <2>1 DEF Lost, WaveDone
      <3> QED BY <1>1, <2>1, <3>1 DEF Lost
    <2> QED BY <1>0, <1>1, <2>1 DEF DispatchIInv, LostOK
  <1>7. GroupsOK'
    <2>1. Dispatched' = Dispatched
      BY <1>0, <1>1 DEF Dispatched
    <2> QED BY <1>0, <1>1, <2>1 DEF DispatchIInv, GroupsOK
  <1> QED BY <1>1, <1>2, <1>3, <1>4, <1>5, <1>6, <1>7 DEF DispatchIInv, DrainReturnsIdle, ExitSealsAll, Ended

LEMMA WaveRaisesStep ==
    ASSUME DispatchIInv, scope' = scope, pc \notin Ended, NEW w \in Waves, WaveRaises(w)
    PROVE  DispatchIInv'
  <1> USE DEF jobVars, cancelVars, readVars, inputVars
  <1>0. TypeOK /\ Leases' = Leases /\ Waves' = Waves /\ MaxAttempts' = MaxAttempts /\ Serving' = Serving
    BY LeasesStay DEF DispatchIInv
  <1>1. /\ UNCHANGED <<status, attempts, expired, orphans, usable, wave, active_waves, active, pc, why, running, reported,
                       completed, cancel_threads, cancel_waits, queued_seen, running_seen, stop_event, deadline>>
        /\ alive' = alive \ {w} /\ w \in alive /\ wave_errors' = wave_errors + 1
    BY DEF WaveRaises, PutError
  <1>2. JobsOK' /\ OrphansOK' /\ Active' = Active
    BY <1>1, SameStatus, StatusFrame
  <1>4. WavesOK'
    <2>1. Started' = Started
      BY <1>0, <1>1 DEF Started
    <2>2. Cardinality(alive') = Cardinality(alive) - 1
      BY <1>1, AliveFacts, FS_RemoveElement
    <2> QED BY <1>0, <1>1, <2>1, <2>2, AliveFacts DEF DispatchIInv, WavesOK
  <1>3. TypeOK'
    <2>1. wave_errors' \in 0 .. Cardinality(Waves)
      <3>1. Cardinality(alive) # 0
        BY <1>1, AliveFacts, FS_EmptySet
      <3>2. wave_errors + 1 <= Started
        BY <3>1, AliveFacts DEF DispatchIInv, WavesOK
      <3>3. Started <= Cardinality(Leases) /\ Waves = 1 .. Cardinality(Leases) /\ Cardinality(Leases) \in Nat
        BY <1>0, StartedType, LeaseFacts DEF DispatchIInv, TypeOK
      <3>4. Cardinality(Waves) = Cardinality(Leases)
        BY <3>3, FS_Interval
      <3> QED BY <1>1, <3>2, <3>3, <3>4, AliveFacts
    <2> QED BY <1>0, <1>1, <1>2, <2>1 DEF TypeOK
  <1>5. LoopOK'
    <2>1. active_waves # {}
      BY <1>1 DEF DispatchIInv, WavesOK
    <2> QED BY <1>0, <1>1, <1>2, <2>1 DEF DispatchIInv, LoopOK
  <1>6. LostOK'
    BY <1>1, AliveFacts DEF LostOK
  <1>7. GroupsOK'
    <2>1. Dispatched' = Dispatched
      BY <1>0, <1>1 DEF Dispatched
    <2> QED BY <1>0, <1>1, <2>1 DEF DispatchIInv, GroupsOK
  <1> QED BY <1>1, <1>2, <1>3, <1>4, <1>5, <1>6, <1>7 DEF DispatchIInv, DrainReturnsIdle, ExitSealsAll, Ended

-----------------------------------------------------------------------------
(* The loop.                                                               *)

\* A step of the loop that leaves the waves alone, but for those it reaped.
LEMMA LoopFrame ==
    ASSUME DispatchIInv, scope' = scope, Restatuses, UNCHANGED <<alive, completed, reported, wave_errors, running>>,
           active_waves' = active_waves \/ active_waves' = active_waves \cap alive,
           why # "none" => why' # "none",
           status' \in [Jobs -> {"absent", "queued", "leased", "canceling", "canceled", "finished", "budget_exhausted"}],
           expired' \subseteq Active', active' \subseteq Jobs,
           UNCHANGED <<usable, cancel_waits, stop_event, deadline>>, cancel_threads' \subseteq Jobs,
           {queued_seen', running_seen'} \subseteq BOOLEAN,
           pc' \in Looping \cup {"cancel", "grace"} \cup Ended,
           why' \in {"none", "stopped", "deadline", "wave", "max_waves", "no_runnable", "append"},
           LoopOK', DrainReturnsIdle', ExitSealsAll'
    PROVE  DispatchIInv'
  <1>0. TypeOK /\ Leases' = Leases /\ Waves' = Waves /\ MaxAttempts' = MaxAttempts
    BY LeasesStay DEF DispatchIInv
  <1>1. JobsOK' /\ OrphansOK'
    BY StatusFrame
  <1>2. Started' = Started /\ Dispatched' = Dispatched
    BY <1>0 DEF Started, Dispatched, Restatuses
  <1>3. WavesOK'
    BY <1>0, <1>2 DEF DispatchIInv, WavesOK, Restatuses
  <1>4. GroupsOK'
    BY <1>0, <1>2 DEF DispatchIInv, GroupsOK
  <1>5. LostOK'
    BY LostFrame DEF Restatuses
  <1>6. TypeOK'
    <2>1. active_waves' \subseteq Waves /\ orphans' \subseteq Jobs
      BY <1>0 DEF TypeOK, Restatuses
    <2> QED BY <1>0, <2>1 DEF TypeOK, Looping, Restatuses
  <1> QED BY <1>1, <1>3, <1>4, <1>5, <1>6 DEF DispatchIInv

\* Reconciling takes what has lapsed out of the active leases.
LEMMA ReconcileFacts ==
    ASSUME DispatchIInv, scope' = scope, NEW retry \in SUBSET Lapsed, status' = Reconciled(retry),
           expired' = expired \ Lapsed, UNCHANGED <<attempts, orphans, wave>>
    PROVE  /\ Restatuses /\ expired' \subseteq Active'
           /\ status' \in [Jobs -> {"absent", "queued", "leased", "canceling", "canceled", "finished", "budget_exhausted"}]
  <1>0. TypeOK
    BY DEF DispatchIInv
  <1>1. \A j \in Jobs : \/ j \notin Lapsed /\ status'[j] = status[j]
                        \/ j \in Lapsed /\ status[j] = "canceling" /\ status'[j] = "canceled"
                        \/ /\ j \in Lapsed /\ status[j] = "leased" /\ j \notin orphans
                           /\ status'[j] = "finished" \/ (status'[j] = "queued" /\ MayRetry(j))
    BY DEF Reconciled, Lapsed
  <1>2. status' \in [Jobs -> {"absent", "queued", "leased", "canceling", "canceled", "finished", "budget_exhausted"}]
    <2>1. status' = [j \in Jobs |-> status'[j]]
      BY DEF Reconciled
    <2>2. \A j \in Jobs : status'[j] \in {"absent", "queued", "leased", "canceling", "canceled", "finished", "budget_exhausted"}
      BY <1>0, <1>1 DEF TypeOK
    <2> QED BY <2>1, <2>2
  <1>3. expired' \subseteq Active'
    BY <1>0, <1>1 DEF TypeOK, Active, Busy
  <1>4. Restatuses
    <2>1. /\ \A k \in orphans : k \in Jobs /\ status[k] \in Busy \cup {"canceled"}
          /\ \A k \in Jobs : status[k] \in {"absent", "queued"} => attempts[k] < MaxAttempts[k]
      BY <1>0 DEF DispatchIInv, OrphansOK, JobsOK, TypeOK
    <2> QED BY <1>1, <2>1 DEF Restatuses, Busy, MayRetry
  <1> QED BY <1>2, <1>3, <1>4

LEMMA QuietLoopSteps ==
    ASSUME DispatchIInv, scope' = scope, pc \notin Ended, Poll \/ Reap \/ Recount \/ LoopAppendRaises \/ CancelActive \/ SealRaises
    PROVE  DispatchIInv'
  <1> USE DEF jobVars, waveVars, cancelVars, readVars, inputVars
  <1>0. TypeOK /\ Serving' = Serving
    BY LeasesStay DEF DispatchIInv
  <1>1. /\ UNCHANGED <<status, attempts, expired, orphans, usable, wave, alive, wave_errors, running, reported,
                       completed, cancel_waits, queued_seen, running_seen, stop_event, deadline>>
        /\ cancel_threads' \subseteq Jobs
        /\ active_waves' = active_waves \/ active_waves' = active_waves \cap alive
        /\ \/ /\ pc \in Looping /\ pc' \in {"poll", "reap", "errors"} /\ why' = why /\ active' = active
           \/ /\ pc \in Looping /\ pc' = "cancel" /\ active' = active
              /\ why' \in {"stopped", "deadline", "no_runnable", "append"}
           \/ pc = "cancel" /\ pc' = "grace" /\ why' = why /\ active' = Active
           \/ pc = "grace" /\ pc' = "raised" /\ ~usable /\ why' = why /\ active' = active
    <2>1. CASE Poll
      BY <1>0, <2>1 DEF Poll, Raise, TypeOK, Looping
    <2>2. CASE Reap
      BY <1>0, <2>2 DEF Reap, TypeOK, Looping
    <2>3. CASE Recount
      BY <1>0, <2>3 DEF Recount, Raise, TypeOK, Looping
    <2>4. CASE LoopAppendRaises
      BY <1>0, <2>4 DEF LoopAppendRaises, Raise, TypeOK, Looping
    <2>5. CASE CancelActive
      BY <1>0, <2>5 DEF CancelActive, TypeOK, Active
    <2>6. CASE SealRaises
      BY <1>0, <2>6 DEF SealRaises, TypeOK
    <2> QED BY <2>1, <2>2, <2>3, <2>4, <2>5, <2>6
  <1>2. Restatuses /\ Active' = Active
    BY <1>1, SameStatus
  <1>3. LoopOK'
    BY <1>0, <1>1, <1>2 DEF DispatchIInv, LoopOK, Looping, Ended
  <1>4. DrainReturnsIdle' /\ ExitSealsAll'
    BY <1>1 DEF DrainReturnsIdle, ExitSealsAll, Ended
  <1>5. /\ why # "none" => why' # "none"
        /\ why' \in {"none", "stopped", "deadline", "wave", "max_waves", "no_runnable", "append"}
        /\ active' \subseteq Jobs /\ {queued_seen', running_seen'} \subseteq BOOLEAN
        /\ pc' \in Looping \cup {"cancel", "grace"} \cup Ended
    BY <1>0, <1>1 DEF TypeOK, Active, Looping, Ended
  <1>6. expired' \subseteq Active'
    BY <1>0, <1>1, <1>2 DEF TypeOK
  <1>7. status' \in [Jobs -> {"absent", "queued", "leased", "canceling", "canceled", "finished", "budget_exhausted"}]
    BY <1>0, <1>1 DEF TypeOK
  <1> QED BY <1>1, <1>2, <1>3, <1>4, <1>5, <1>6, <1>7, LoopFrame

LEMMA ReconcileStep ==
    ASSUME DispatchIInv, scope' = scope, pc \notin Ended, Reconcile \/ GracePoll
    PROVE  DispatchIInv'
  <1> USE DEF jobVars, waveVars, cancelVars, readVars, inputVars
  <1>0. TypeOK /\ Serving' = Serving
    BY LeasesStay DEF DispatchIInv
  <1>1. /\ UNCHANGED <<attempts, orphans, usable, wave, alive, wave_errors, active_waves, running, reported, active, why,
                       completed, cancel_waits, cancel_threads, queued_seen, running_seen, stop_event, deadline>>
        /\ \E retry \in SUBSET Lapsed : status' = Reconciled(retry)
        /\ expired' = expired \ Lapsed
    BY DEF Reconcile, GracePoll
  <1>2. /\ \/ pc = "reconcile" /\ pc' \in {"claim", "counts"}
           \/ pc = "grace" /\ pc' = "grace"
           \/ pc = "grace" /\ pc' = "raised" /\ \A j \in active : status'[j] \notin Busy
           \/ pc = "grace" /\ pc' = "returned" /\ Serving /\ \A j \in active : status'[j] \notin Busy
    BY DEF Reconcile, GracePoll, Leave
  <1>3. /\ Restatuses /\ expired' \subseteq Active'
        /\ status' \in [Jobs -> {"absent", "queued", "leased", "canceling", "canceled", "finished", "budget_exhausted"}]
    BY <1>1, ReconcileFacts
  <1>4. Active' \subseteq Active
    BY <1>3, StatusFrame
  <1>5. LoopOK'
    BY <1>0, <1>1, <1>2, <1>4 DEF DispatchIInv, LoopOK, Looping, Ended
  <1>6. DrainReturnsIdle'
    BY <1>0, <1>2 DEF DrainReturnsIdle
  <1>7. ExitSealsAll'
    <2>1. pc = "grace" /\ (\A j \in active : status'[j] \notin Busy) => Active' = {}
      BY <1>4 DEF DispatchIInv, LoopOK, Active
    <2> QED BY <1>2, <2>1 DEF ExitSealsAll, Ended
  <1>8. /\ why # "none" => why' # "none"
        /\ why' \in {"none", "stopped", "deadline", "wave", "max_waves", "no_runnable", "append"}
        /\ active' \subseteq Jobs /\ {queued_seen', running_seen'} \subseteq BOOLEAN /\ cancel_threads' \subseteq Jobs
        /\ pc' \in Looping \cup {"cancel", "grace"} \cup Ended
    BY <1>0, <1>1, <1>2 DEF TypeOK, Looping, Ended
  <1> QED BY <1>1, <1>3, <1>5, <1>6, <1>7, <1>8, LoopFrame

LEMMA SealStep ==
    ASSUME DispatchIInv, scope' = scope, pc \notin Ended, Seal
    PROVE  DispatchIInv'
  <1> USE DEF jobVars, waveVars, cancelVars, readVars, inputVars
  <1>0. TypeOK /\ Serving' = Serving
    BY LeasesStay DEF DispatchIInv
  <1>1. /\ UNCHANGED <<attempts, orphans, usable, wave, alive, wave_errors, active_waves, running, reported, active, why,
                       completed, cancel_waits, cancel_threads, queued_seen, running_seen, stop_event, deadline>>
        /\ status' = [j \in Jobs |-> IF j \in Unsealed THEN "canceled" ELSE status[j]]
        /\ expired' = {j \in expired : status'[j] \in Busy}
        /\ pc = "grace" /\ (pc' = "raised" \/ (pc' = "returned" /\ Serving))
    BY DEF Seal, Leave
  <1>2. Active' = {}
    <2>1. Active \subseteq active
      BY <1>1 DEF DispatchIInv, LoopOK
    <2> QED BY <1>1, <2>1 DEF Active, Unsealed, Busy
  <1>3. Restatuses
    <2>1. /\ \A k \in orphans : k \in Jobs /\ status[k] \in Busy \cup {"canceled"}
          /\ \A k \in Jobs : status[k] \in {"absent", "queued"} => attempts[k] < MaxAttempts[k]
      BY <1>0 DEF DispatchIInv, OrphansOK, JobsOK, TypeOK
    <2>2. \A k \in Jobs : status'[k] = status[k] \/ status'[k] = "canceled"
      BY <1>1
    <2> QED BY <1>1, <2>1, <2>2 DEF Restatuses, Busy
  <1>4. /\ expired' \subseteq Active'
        /\ status' \in [Jobs -> {"absent", "queued", "leased", "canceling", "canceled", "finished", "budget_exhausted"}]
    BY <1>0, <1>1 DEF TypeOK, Active
  <1>5. LoopOK' /\ DrainReturnsIdle' /\ ExitSealsAll'
    BY <1>0, <1>1, <1>2 DEF DispatchIInv, LoopOK, Looping, Ended, DrainReturnsIdle, ExitSealsAll
  <1>8. /\ why # "none" => why' # "none"
        /\ why' \in {"none", "stopped", "deadline", "wave", "max_waves", "no_runnable", "append"}
        /\ active' \subseteq Jobs /\ {queued_seen', running_seen'} \subseteq BOOLEAN /\ cancel_threads' \subseteq Jobs
        /\ pc' \in Looping \cup {"cancel", "grace"} \cup Ended
    BY <1>0, <1>1 DEF TypeOK, Looping, Ended
  <1> QED BY <1>1, <1>3, <1>4, <1>5, <1>8, LoopFrame

\* The error that is taken out ends the loop.
LEMMA CheckErrorsStep ==
    ASSUME DispatchIInv, scope' = scope, pc \notin Ended, CheckErrors
    PROVE  DispatchIInv'
  <1> USE DEF jobVars, cancelVars, readVars, inputVars
  <1>0. TypeOK /\ Leases' = Leases /\ Waves' = Waves /\ MaxAttempts' = MaxAttempts /\ Serving' = Serving
    BY LeasesStay DEF DispatchIInv
  <1>1. /\ UNCHANGED <<status, attempts, expired, orphans, usable, wave, alive, active_waves, active, running, reported,
                       completed, cancel_threads, cancel_waits, queued_seen, running_seen, stop_event, deadline>>
        /\ pc = "errors"
        /\ \/ wave_errors > 0 /\ pc' = "cancel" /\ why' = "wave" /\ wave_errors' = wave_errors - 1
           \/ ~(wave_errors > 0) /\ pc' = "reconcile" /\ why' = why /\ wave_errors' = wave_errors
    BY DEF CheckErrors, ErrorPending, Raise
  <1>2. JobsOK' /\ OrphansOK' /\ Active' = Active
    BY <1>1, SameStatus, StatusFrame
  <1>3. wave_errors \in 0 .. Cardinality(Waves) /\ Cardinality(Waves) \in Nat
    <2>1. Waves = 1 .. Cardinality(Leases) /\ Cardinality(Leases) \in Nat
      BY LeaseFacts DEF DispatchIInv
    <2>2. Cardinality(Waves) \in Nat
      BY <2>1, FS_Interval, FS_CardinalityType
    <2> QED BY <1>0, <2>2 DEF TypeOK
  <1>4. WavesOK'
    <2>1. Started' = Started
      BY <1>0, <1>1 DEF Started
    <2> QED BY <1>0, <1>1, <2>1, <1>3, AliveFacts DEF DispatchIInv, WavesOK
  <1>5. TypeOK'
    <2>1. wave_errors' \in 0 .. Cardinality(Waves)
      BY <1>1, <1>3
    <2> QED BY <1>0, <1>1, <1>2, <2>1 DEF TypeOK
  <1>6. LoopOK'
    BY <1>0, <1>1, <1>3 DEF DispatchIInv, LoopOK, Looping, Ended
  <1>7. LostOK'
    BY <1>0, <1>1 DEF DispatchIInv, LostOK, Lost
  <1>8. GroupsOK'
    <2>1. Dispatched' = Dispatched
      BY <1>0, <1>1 DEF Dispatched
    <2> QED BY <1>0, <1>1, <2>1 DEF DispatchIInv, GroupsOK
  <1> QED BY <1>1, <1>2, <1>4, <1>5, <1>6, <1>7, <1>8 DEF DispatchIInv, DrainReturnsIdle, ExitSealsAll, Ended

\* The drain returns: no thread is left, no error came since they were looked at, and so no result was lost.
LEMMA CountsStep ==
    ASSUME DispatchIInv, scope' = scope, pc \notin Ended, Counts
    PROVE  DispatchIInv'
  <1> USE DEF jobVars, waveVars, cancelVars, inputVars
  <1>0. TypeOK /\ Leases' = Leases /\ Serving' = Serving
    BY LeasesStay DEF DispatchIInv
  <1>1. /\ UNCHANGED <<status, attempts, expired, orphans, usable, wave, alive, wave_errors, active_waves, active, running, reported,
                       completed, cancel_threads, cancel_waits, stop_event, deadline>>
        /\ {queued_seen', running_seen'} \subseteq BOOLEAN
        /\ pc = "counts"
        /\ \/ Idle /\ pc' = "returned" /\ why' = why
           \/ pc' = "cancel" /\ why' = "max_waves"
           \/ pc' \in {"claim", "poll"} /\ why' = why
    BY DEF Counts, Raise
  <1>2. Restatuses /\ Active' = Active
    BY <1>1, SameStatus
  <1>3. Queued' = Queued
    BY <1>1 DEF Queued
  <1>4. LoopOK'
    BY <1>0, <1>1, <1>2 DEF DispatchIInv, LoopOK, Looping, Ended
  <1>5. ExitSealsAll'
    BY <1>1, <1>2 DEF ExitSealsAll, Ended, Idle
  <1>6. DrainReturnsIdle'
    <2> SUFFICES ASSUME pc' = "returned" PROVE Active' = {} /\ Queued' = {} /\ alive' = {} /\ wave_errors' = 0
                                               /\ \A l \in Leases' : wave'[l] # 0 => l \in reported'
      BY DEF DrainReturnsIdle
    <2>1. Active = {} /\ Queued = {} /\ active_waves = {}
      BY <1>1 DEF Idle
    <2>2. alive = {} /\ wave_errors = 0 /\ why = "none"
      BY <1>1, <2>1 DEF DispatchIInv, WavesOK, LoopOK, Looping
    <2>3. \A l \in Leases : ~Lost(l)
      BY <2>2 DEF DispatchIInv, LostOK
    <2> QED BY <1>0, <1>1, <1>2, <1>3, <2>1, <2>2, <2>3 DEF Lost
  <1>7. /\ why # "none" => why' # "none"
        /\ why' \in {"none", "stopped", "deadline", "wave", "max_waves", "no_runnable", "append"}
        /\ active' \subseteq Jobs /\ cancel_threads' \subseteq Jobs
        /\ pc' \in Looping \cup {"cancel", "grace"} \cup Ended
    BY <1>0, <1>1 DEF TypeOK, Looping, Ended
  <1>8. expired' \subseteq Active'
    BY <1>0, <1>1, <1>2 DEF TypeOK
  <1>9. status' \in [Jobs -> {"absent", "queued", "leased", "canceling", "canceled", "finished", "budget_exhausted"}]
    BY <1>0, <1>1 DEF TypeOK
  <1> QED BY <1>1, <1>2, <1>4, <1>5, <1>6, <1>7, <1>8, <1>9, LoopFrame

\* A wave is claimed: its leases were not dispatched before, so there is a number for it.
LEMMA ClaimStep ==
    ASSUME DispatchIInv, scope' = scope, pc \notin Ended, Claim
    PROVE  DispatchIInv'
  <1> USE DEF cancelVars, inputVars
  <1>0. TypeOK /\ Leases' = Leases /\ Waves' = Waves /\ MaxAttempts' = MaxAttempts /\ Serving' = Serving
    BY LeasesStay DEF DispatchIInv
  <1> DEFINE resumed == orphans \cap expired \cap {j \in Jobs : status[j] = "leased"}
  <1>1. PICK taken \in SUBSET Runnable, ended \in SUBSET Exhausted :
          /\ attempts' = [j \in Jobs |-> IF j \in taken THEN attempts[j] + 1 ELSE attempts[j]]
          /\ status' = [j \in Jobs |-> IF j \in taken THEN "leased"
                                       ELSE IF j \in ended THEN "budget_exhausted" ELSE status[j]]
          /\ expired' = expired \ resumed /\ orphans' = {j \in orphans \ resumed : status[j] = "leased"}
          /\ IF resumed \cup taken # {}
               THEN /\ wave' = [l \in Leases |-> IF l \in {<<j, attempts'[j]>> : j \in resumed \cup taken}
                                                 THEN Started + 1 ELSE wave[l]]
                    /\ running' = running \cup {<<j, attempts'[j]>> : j \in resumed \cup taken}
                    /\ alive' = alive \cup {Started + 1} /\ active_waves' = active_waves \cup {Started + 1}
                    /\ pc' = "poll"
               ELSE pc' \in {"recount", "poll"} /\ UNCHANGED <<wave, running, alive, active_waves>>
    BY DEF Claim
  <1>2. /\ UNCHANGED <<usable, completed, reported, wave_errors, cancel_threads, cancel_waits, active, stop_event, deadline, why>>
        /\ queued_seen' = FALSE /\ running_seen' = FALSE /\ pc = "claim"
    BY DEF Claim
  <1> DEFINE assigned == resumed \cup taken
             New == {<<j, attempts'[j]>> : j \in assigned}
             n == Started + 1
  <1>3. /\ \A j \in taken : j \in Jobs /\ status[j] = "queued" /\ attempts[j] < MaxAttempts[j]
        /\ \A j \in ended : j \in Jobs /\ status[j] = "queued"
        /\ \A j \in orphans : j \in Jobs /\ attempts[j] >= 1 /\ status[j] \in Busy \cup {"canceled"} /\ wave[LeaseOf(j)] = 0
    BY <1>0 DEF DispatchIInv, JobsOK, OrphansOK, TypeOK, Runnable, Exhausted, Queued
  <1>4. \A j \in Jobs : attempts[j] \in 0 .. MaxAttempts[j] /\ MaxAttempts[j] \in Nat
    BY <1>0, LeaseFacts DEF DispatchIInv, TypeOK
  <1>5. /\ status' \in [Jobs -> {"absent", "queued", "leased", "canceling", "canceled", "finished", "budget_exhausted"}]
        /\ expired' \subseteq Active' /\ orphans' \subseteq Jobs
        /\ \A j \in Jobs : attempts'[j] \in 0 .. MaxAttempts[j]
    <2>1. status' \in [Jobs -> {"absent", "queued", "leased", "canceling", "canceled", "finished", "budget_exhausted"}]
      BY <1>0, <1>1 DEF TypeOK
    <2>2. expired' \subseteq Active'
      BY <1>0, <1>1, <1>3 DEF TypeOK, Active, Busy
    <2>3. \A j \in Jobs : attempts'[j] \in 0 .. MaxAttempts[j]
      BY <1>1, <1>3, <1>4
    <2> QED BY <1>1, <1>3, <2>1, <2>2, <2>3
  <1>6. ASSUME NEW l \in New
        PROVE  /\ l \in Leases /\ wave[l] = 0 /\ l[2] = attempts'[l[1]] /\ l[1] \in assigned
               /\ l[1] \in Jobs
    <2>1. PICK j \in assigned : l = <<j, attempts'[j]>>
      OBVIOUS
    <2>2. CASE j \in taken
      <3>1. j \in Jobs /\ attempts'[j] = attempts[j] + 1 /\ attempts[j] + 1 \in 1 .. MaxAttempts[j]
        BY <1>1, <1>3, <1>4, <2>2
      <3>2. l \in Leases
        BY <2>1, <3>1, LeaseFacts DEF DispatchIInv
      <3>3. wave[l] = 0
        <4>1. ~(l[2] <= attempts[l[1]])
          BY <1>4, <2>1, <3>1
        <4> QED BY <3>2, <4>1 DEF DispatchIInv, WavesOK
      <3> QED BY <2>1, <3>1, <3>2, <3>3
    <2>3. CASE j \notin taken
      <3>1. j \in orphans /\ j \in Jobs /\ attempts'[j] = attempts[j] /\ attempts[j] \in 1 .. MaxAttempts[j]
        BY <1>1, <1>3, <1>4, <2>1, <2>3
      <3>2. l \in Leases
        BY <2>1, <3>1, LeaseFacts DEF DispatchIInv
      <3> QED BY <1>3, <2>1, <3>1, <3>2 DEF LeaseOf
    <2> QED BY <2>2, <2>3
  <1>7. JobsOK'
    <2> SUFFICES ASSUME NEW j \in Jobs
                 PROVE  /\ status'[j] \in {"absent", "queued"} => attempts'[j] < MaxAttempts[j]
                        /\ status'[j] \in Busy => attempts'[j] >= 1
      BY <1>0 DEF JobsOK
    <2>1. /\ status[j] \in {"absent", "queued"} => attempts[j] < MaxAttempts[j]
          /\ status[j] \in Busy => attempts[j] >= 1
      BY DEF DispatchIInv, JobsOK
    <2> QED BY <1>1, <1>4, <2>1 DEF Busy
  <1>8. wave' \in [Leases -> Waves \cup {0}] /\ Started \in Nat /\ (assigned # {} => n \in Waves)
    <2>1. Started \in Nat /\ wave \in [Leases -> Waves \cup {0}]
      BY <1>0, StartedType DEF DispatchIInv, TypeOK
    <2>2. ASSUME assigned # {} PROVE n \in Waves
      <3>1. PICK l \in New : TRUE
        BY <2>2
      <3> QED BY <1>6, <2>1, <3>1, NextWave DEF DispatchIInv
    <2> HIDE DEF assigned
    <2> QED BY <1>1, <2>1, <2>2 DEF assigned
  <1>9. /\ \A l \in Leases : wave'[l] # wave[l] => l \in New /\ wave[l] = 0 /\ wave'[l] = n
        /\ \A l \in Leases : l \in New => wave'[l] = n
    <2>1. CASE assigned = {}
      BY <1>1, <2>1
    <2>2. CASE assigned # {}
      <3>1. wave' = [l \in Leases |-> IF l \in New THEN n ELSE wave[l]]
        BY <1>1, <2>2
      <3> HIDE DEF New, n
      <3> QED BY <1>6, <3>1
    <2> QED BY <2>1, <2>2
  <1> HIDE DEF New
  <1>10. OrphansOK'
    <2> SUFFICES ASSUME NEW j \in orphans'
                 PROVE  attempts'[j] >= 1 /\ status'[j] \in Busy \cup {"canceled"} /\ wave'[LeaseOf(j)'] = 0
      BY DEF OrphansOK
    <2>1. j \in orphans /\ j \notin resumed /\ j \notin taken /\ j \notin ended /\ j \in Jobs
      BY <1>1, <1>3 DEF Busy
    <2>2. attempts'[j] = attempts[j] /\ status'[j] = status[j] /\ LeaseOf(j)' = LeaseOf(j)
      BY <1>1, <2>1 DEF LeaseOf
    <2>3. LeaseOf(j) \in Leases /\ LeaseOf(j)[1] = j
      BY <1>3, <1>4, <2>1, LeaseFacts DEF LeaseOf, DispatchIInv
    <2>4. LeaseOf(j) \notin New
      BY <1>6, <2>1, <2>3
    <2> QED BY <1>3, <1>9, <2>1, <2>2, <2>3, <2>4
  <1> QED
    <2>1. WavesOK'
      <3>1. \A l \in Leases : wave'[l] # 0 => l[2] <= attempts'[l[1]]
        <4> SUFFICES ASSUME NEW l \in Leases, wave'[l] # 0 PROVE l[2] <= attempts'[l[1]]
          OBVIOUS
        <4>1. l[1] \in Jobs /\ l[2] \in Nat
          BY <1>4, LeaseFacts DEF DispatchIInv
        <4>2. CASE wave[l] # 0
          <5>1. l[2] <= attempts[l[1]]
            BY <4>2 DEF DispatchIInv, WavesOK
          <5> QED BY <1>1, <1>4, <4>1, <5>1
        <4>3. CASE wave[l] = 0
          <5>1. l[2] = attempts'[l[1]]
            BY <1>6, <1>9, <4>3
          <5> QED BY <1>5, <4>1, <5>1
        <4> QED BY <4>2, <4>3
      <3>2. CASE assigned = {}
        <4>1. Started' = Started
          BY <1>0, <1>1, <3>2 DEF Started
        <4> QED BY <1>0, <1>1, <1>2, <3>1, <3>2, <4>1 DEF DispatchIInv, WavesOK
      <3>3. CASE assigned # {}
        <4>1. PICK m \in New : TRUE
          BY <3>3 DEF New
        <4>2. n # 0 /\ {wave[l] : l \in Leases} \ {0} = 1 .. Started
          BY <1>8 DEF DispatchIInv, WavesOK
        <4>3. {wave'[l] : l \in Leases} \ {0} = (1 .. Started) \cup {n}
          <5>1. m \in Leases /\ wave'[m] = n
            BY <1>6, <1>9, <4>1
          <5>2. \A l \in Leases : wave[l] # 0 => wave'[l] = wave[l]
            BY <1>9
          <5>3. \A l \in Leases : wave'[l] = wave[l] \/ wave'[l] = n
            BY <1>9
          <5> HIDE DEF n
          <5>4. {wave'[l] : l \in Leases} \ {0} \subseteq (1 .. Started) \cup {n}
            BY <4>2, <5>3
          <5>5. n \in {wave'[l] : l \in Leases} \ {0}
            BY <4>2, <5>1
          <5>6. ASSUME NEW i \in 1 .. Started PROVE i \in {wave'[l] : l \in Leases} \ {0}
            <6>1. PICK l \in Leases : i = wave[l] /\ i # 0
              BY <4>2
            <6> QED BY <5>2, <6>1
          <5> QED BY <5>4, <5>5, <5>6
        <4>4. (1 .. Started) \cup {n} = 1 .. Started + 1
          BY <1>8
        <4>5. Started' = Started + 1
          <5>1. Started' = Cardinality({wave'[l] : l \in Leases} \ {0})
            BY <1>0 DEF Started
          <5>2. Cardinality(1 .. Started + 1) = Started + 1
            BY <1>8, FS_Interval
          <5> QED BY <4>3, <4>4, <5>1, <5>2
        <4>6. n \notin alive /\ Cardinality(alive') = Cardinality(alive) + 1
          <5>1. n \notin alive
            BY <1>8 DEF DispatchIInv, WavesOK
          <5> QED BY <1>1, <3>3, <5>1, AliveFacts, FS_AddElement
        <4>7. {wave'[l] : l \in Leases} \ {0} = 1 .. Started'
          BY <4>3, <4>4, <4>5
        <4>8. alive' = alive \cup {n} /\ active_waves' = active_waves \cup {n}
          BY <1>1, <3>3
        <4>9. alive' \subseteq active_waves' /\ active_waves' \subseteq 1 .. Started'
          BY <4>4, <4>5, <4>8 DEF DispatchIInv, WavesOK
        <4>10. wave_errors' + Cardinality(alive') <= Started'
          <5>1. wave_errors + Cardinality(alive) <= Started
            BY DEF DispatchIInv, WavesOK
          <5>2. wave_errors \in Nat /\ Cardinality(alive) \in Nat /\ Started \in Nat
            BY AliveFacts
          <5> QED BY <1>2, <4>5, <4>6, <5>1, <5>2
        <4>11. \A l \in Leases' : wave'[l] # 0 => l[2] <= attempts'[l[1]]
          BY <1>0, <3>1
        <4>12. {wave'[l] : l \in Leases'} \ {0} = 1 .. Started'
          BY <1>0, <4>7
        <4> QED BY <4>9, <4>10, <4>11, <4>12 DEF WavesOK
      <3> QED BY <3>2, <3>3
    <2>2. TypeOK'
      <3>0. New \subseteq Leases
        BY <1>6
      <3>1. running' \subseteq Leases /\ alive' \subseteq Waves /\ active_waves' \subseteq Waves
        <4>1. running \subseteq Leases /\ alive \subseteq Waves /\ active_waves \subseteq Waves
          BY <1>0 DEF TypeOK
        <4>2. CASE assigned = {}
          <5>1. running' = running /\ alive' = alive /\ active_waves' = active_waves
            BY <1>1, <4>2
          <5> QED BY <4>1, <5>1
        <4>3. CASE assigned # {}
          <5>1. running' = running \cup New /\ alive' = alive \cup {n} /\ active_waves' = active_waves \cup {n}
            BY <1>1, <4>3 DEF New
          <5> QED BY <1>8, <3>0, <4>1, <4>3, <5>1
        <4> QED BY <4>2, <4>3
      <3> QED BY <1>0, <1>1, <1>2, <1>5, <1>8, <3>1 DEF TypeOK
    <2>3. LoopOK'
      BY <1>0, <1>1, <1>2 DEF DispatchIInv, LoopOK, Looping, Ended
    <2>4. LostOK'
      <3> SUFFICES ASSUME NEW l \in Leases, Lost(l)' PROVE wave_errors > 0 \/ why # "none"
        BY <1>0, <1>2 DEF LostOK
      <3>1. alive \subseteq alive'
        BY <1>1
      <3>2. CASE wave'[l] = wave[l]
        BY <1>2, <3>1, <3>2 DEF Lost, DispatchIInv, LostOK
      <3>3. CASE wave'[l] # wave[l]
        <4>1. assigned # {} /\ wave'[l] = n
          BY <1>9, <3>3 DEF New
        <4> QED BY <1>1, <4>1 DEF Lost
      <3> QED BY <3>2, <3>3
    <2>5. GroupsOK'
      <3> DEFINE D == [group : SUBSET Dispatched, error : BOOLEAN]
                 E == [group : SUBSET Dispatched', error : BOOLEAN]
      <3>1. Dispatched \subseteq Dispatched'
        BY <1>0, <1>9 DEF Dispatched
      <3>2. D \subseteq E
        BY <3>1
      <3>3. completed \in [Waves -> Seq(D)]
        BY DEF DispatchIInv, GroupsOK
      <3> HIDE DEF D, E
      <3>4. Seq(D) \subseteq Seq(E)
        BY <3>2
      <3>5. completed' \in [Waves' -> Seq(E)]
        BY <1>0, <1>2, <3>3, <3>4
      <3> QED BY <3>5 DEF GroupsOK, E
    <2>6. DrainReturnsIdle' /\ ExitSealsAll'
      BY <1>1 DEF DrainReturnsIdle, ExitSealsAll, Ended
    <2> QED BY <1>7, <1>10, <2>1, <2>2, <2>3, <2>4, <2>5, <2>6 DEF DispatchIInv

-----------------------------------------------------------------------------
(* What the loops guarantee.                                               *)

LEMMA DispatchInit == Init => DispatchIInv
  <1> SUFFICES ASSUME Init PROVE DispatchIInv
    OBVIOUS
  <1> USE DEF Init
  <1>1. scope \in Scopes
    OBVIOUS
  <1>2. /\ MaxAttempts \in [Jobs -> Nat \ {0}] /\ Inherited \subseteq Jobs /\ Cardinality(Leases) \in Nat
        /\ \A j \in Jobs : \A a \in 1 .. MaxAttempts[j] : <<j, a>> \in Leases
    BY <1>1, LeaseFacts
  <1>3. Cardinality(Waves) \in Nat
    <2>1. Waves = 1 .. Cardinality(Leases)
      BY DEF Waves
    <2> QED BY <1>2, <2>1, FS_Interval, FS_CardinalityType
  <1>4. \A j \in Jobs : attempts[j] \in 0 .. MaxAttempts[j]
    BY <1>2
  <1>5. completed \in [Waves -> Seq([group : SUBSET Leases, error : BOOLEAN])]
    OBVIOUS
  <1>6. TypeOK
    <2>1. expired \subseteq Active /\ orphans \subseteq Jobs /\ usable \in BOOLEAN
      BY <1>2
    <2>2. wave \in [Leases -> Waves \cup {0}] /\ running \subseteq Leases /\ reported \subseteq Leases
      OBVIOUS
    <2>3. alive \subseteq Waves /\ wave_errors \in 0 .. Cardinality(Waves)
      BY <1>3
    <2>4. status \in [Jobs -> {"absent", "queued", "leased", "canceling", "canceled", "finished", "budget_exhausted"}]
      OBVIOUS
    <2> QED BY <1>4, <1>5, <2>1, <2>2, <2>3, <2>4 DEF TypeOK
  <1>7. JobsOK
    <2> SUFFICES ASSUME NEW j \in Jobs
                 PROVE  /\ status[j] \in {"absent", "queued"} => attempts[j] < MaxAttempts[j]
                        /\ status[j] \in Busy => attempts[j] >= 1
      BY DEF JobsOK
    <2>1. MaxAttempts[j] \in Nat \ {0}
      BY <1>2
    <2>2. CASE j \in Inherited
      BY <2>1, <2>2 DEF Busy
    <2>3. CASE j \notin Inherited
      BY <2>1, <2>3 DEF Busy
    <2> QED BY <2>2, <2>3
  <1>8. OrphansOK
    <2> SUFFICES ASSUME NEW j \in orphans
                 PROVE  attempts[j] >= 1 /\ status[j] \in Busy \cup {"canceled"} /\ wave[LeaseOf(j)] = 0
      BY DEF OrphansOK
    <2>1. j \in Jobs /\ j \in Inherited /\ MaxAttempts[j] \in Nat \ {0}
      BY <1>2
    <2>2. attempts[j] = 1 /\ status[j] = "leased"
      BY <2>1
    <2>3. LeaseOf(j) \in Leases
      <3>1. 1 \in 1 .. MaxAttempts[j]
        BY <2>1
      <3> QED BY <1>2, <2>1, <2>2, <3>1 DEF LeaseOf
    <2> QED BY <2>2, <2>3 DEF Busy
  <1>9. WavesOK
    <2>1. {wave[l] : l \in Leases} \ {0} = {}
      OBVIOUS
    <2>2. Started = 0
      BY <2>1, FS_EmptySet DEF Started
    <2>3. 1 .. Started = {}
      BY <2>2
    <2>4. Cardinality(alive) = 0
      BY FS_EmptySet
    <2>5. wave_errors + Cardinality(alive) <= Started
      BY <2>2, <2>4
    <2>6. \A l \in Leases : wave[l] = 0
      OBVIOUS
    <2> QED BY <2>1, <2>3, <2>5, <2>6 DEF WavesOK
  <1>10. GroupsOK
    BY DEF GroupsOK
  <1>11. LoopOK /\ LostOK /\ DrainReturnsIdle /\ ExitSealsAll
    BY DEF LoopOK, Looping, LostOK, Lost, DrainReturnsIdle, ExitSealsAll, Ended
  <1> QED BY <1>1, <1>6, <1>7, <1>8, <1>9, <1>10, <1>11 DEF DispatchIInv

LEMMA DispatchStutters ==
    ASSUME DispatchIInv, UNCHANGED <<vars, scope>>
    PROVE  DispatchIInv'
  <1> USE DEF vars, jobVars, waveVars, cancelVars, readVars, inputVars
  <1>0. Leases' = Leases /\ Waves' = Waves /\ MaxAttempts' = MaxAttempts /\ Serving' = Serving
    BY LeasesStay
  <1>1. Started' = Started /\ Dispatched' = Dispatched /\ Active' = Active /\ Queued' = Queued
    BY <1>0 DEF Started, Dispatched, Active, Queued
  <1>2. TypeOK'
    BY <1>0, <1>1 DEF DispatchIInv, TypeOK
  <1>3. JobsOK' /\ OrphansOK'
    BY <1>0 DEF DispatchIInv, JobsOK, OrphansOK, LeaseOf
  <1>4. WavesOK'
    BY <1>0, <1>1 DEF DispatchIInv, WavesOK
  <1>5. GroupsOK'
    BY <1>0, <1>1 DEF DispatchIInv, GroupsOK
  <1>6. LoopOK'
    BY <1>0, <1>1 DEF DispatchIInv, LoopOK
  <1>7. LostOK'
    BY <1>0 DEF DispatchIInv, LostOK, Lost
  <1>8. DrainReturnsIdle' /\ ExitSealsAll'
    BY <1>0, <1>1 DEF DispatchIInv, DrainReturnsIdle, ExitSealsAll
  <1> QED BY <1>2, <1>3, <1>4, <1>5, <1>6, <1>7, <1>8 DEF DispatchIInv

LEMMA DispatchStep == DispatchIInv /\ [Next]_<<vars, scope>> => DispatchIInv'
  <1> SUFFICES ASSUME DispatchIInv, [Next]_<<vars, scope>> PROVE DispatchIInv'
    OBVIOUS
  <1>1. CASE UNCHANGED <<vars, scope>>
    BY <1>1, DispatchStutters
  <1>2. CASE Exited /\ scope' = scope
    BY <1>2, DispatchStutters DEF Exited
  <1>3. ASSUME LoopStep, pc \notin Ended, scope' = scope PROVE DispatchIInv'
    BY <1>3, QuietLoopSteps, CheckErrorsStep, ReconcileStep, CountsStep, ClaimStep, SealStep DEF LoopStep
  <1>4. ASSUME Stop \/ DeadlinePasses \/ BecomeStale, pc \notin Ended, scope' = scope PROVE DispatchIInv'
    BY <1>4, QuietSteps
  <1>5. ASSUME NEW j \in Jobs, JobStep(j), pc \notin Ended, scope' = scope PROVE DispatchIInv'
    BY <1>5, EnqueueStep, QuietSteps, CancelSteps DEF JobStep
  <1>6. ASSUME NEW w \in Waves, WaveStep(w), pc \notin Ended, scope' = scope PROVE DispatchIInv'
    BY <1>6, ReportStep, WaveReturnsStep, WaveRaisesStep, QuietSteps, GroupEndsStep DEF WaveStep
  <1> QED BY <1>1, <1>2, <1>3, <1>4, <1>5, <1>6 DEF Next

LEMMA DispatchImplied == DispatchIInv => DispatchInv
  <1> SUFFICES ASSUME DispatchIInv PROVE LostIsNoticed
    BY DEF DispatchIInv, DispatchInv
  <1> SUFFICES ASSUME NEW j \in Active, Lost(LeaseOf(j)) PROVE wave_errors > 0 \/ why # "none"
    BY DEF LostIsNoticed
  <1>1. j \in Jobs /\ attempts[j] \in 0 .. MaxAttempts[j] /\ attempts[j] >= 1 /\ MaxAttempts[j] \in Nat
    BY LeaseFacts DEF DispatchIInv, TypeOK, JobsOK, Active
  <1>2. LeaseOf(j) \in Leases
    <2>1. attempts[j] \in 1 .. MaxAttempts[j]
      BY <1>1
    <2> QED BY <1>1, <2>1, LeaseFacts DEF LeaseOf, DispatchIInv
  <1> QED BY <1>2 DEF DispatchIInv, LostOK

\* The drain leaves nothing behind, a loop that ends in another way seals what is active, and a result
\* that no thread will report is noticed, for every set of jobs and every scope.
THEOREM DispatchSafe == Spec => []DispatchInv
  BY DispatchInit, DispatchStep, DispatchImplied, PTL DEF Spec

-----------------------------------------------------------------------------
(* The builders.                                                           *)

IsSeq(s) == s \in Seq({s[i] : i \in DOMAIN s})

EventsOf(type) == {i \in DOMAIN log : log[i].type = type}

\* What is settled in the log: who builds cannot configure it or bind it again, and its jobs are those of its plan.
LogOK ==
    /\ \A i \in DOMAIN log : log[i].type \in {"campaign_configured", "runtime_plan_bound",
                                             "worker_registered", "job_enqueued", "other"}
    /\ \A i, k \in EventsOf("campaign_configured") : i = k
    /\ \A i, k \in EventsOf("runtime_plan_bound") : i = k
    /\ Runtime!Bound \subseteq Runtime!Plans
    /\ Runtime!JobsFollowPlan

\* What a builder knows at its place.  That no plan is bound and its own fits is known only as long as it has applied
\* the whole log; if it has not, it can bind nothing.
BuilderOK(b) ==
    /\ builder_pc[b] \notin {"idle", "failed"} => plan[b] \in Runtime!Plans
    /\ builder_pc[b] \in {"validate", "bind", "workers", "jobs", "built"} =>
         plan[b].budget \in Runtime!Values(log, "campaign_configured")
    /\ builder_pc[b] = "bind" /\ view[b] = Len(log) /\ Runtime!Bound = {} => Runtime!Follows(log, plan[b])
    /\ builder_pc[b] \in {"workers", "jobs", "built"} => plan[b] \in Runtime!Bound
    /\ builder_pc[b] \in {"jobs", "built"} =>
         \A n \in DOMAIN plan[b].jobs : n < next_job[b] => plan[b].jobs[n] \in Runtime!Values(log, "job_enqueued")
    /\ builder_pc[b] \notin {"jobs", "built", "failed"} => next_job[b] = 1
    /\ builder_pc[b] = "built" => next_job[b] > Len(plan[b].jobs)

BuildersType ==
    /\ IsSeq(log) /\ campaign \in RuntimeScopes
    /\ view \in [Runtime!Builders -> Nat] /\ \A b \in Runtime!Builders : view[b] <= Len(log)
    /\ plan \in [Runtime!Builders -> Runtime!Plans \cup {None}]
    /\ builder_pc \in [Runtime!Builders -> {"idle", "configure", "validate", "bind", "workers", "jobs", "built", "failed"}]
    /\ next_job \in [Runtime!Builders -> Nat \ {0}] /\ faults \in 0 .. Runtime!MaxFaults

RuntimeIInv == BuildersType /\ LogOK /\ \A b \in Runtime!Builders : BuilderOK(b)

\* The instance counts as this module does.
LEMMA RuntimeCounts ==
    ASSUME NEW S
    PROVE  Runtime!Cardinality(S) = Cardinality(S)
  BY DEF Runtime!Cardinality, Cardinality

\* Everything a behaviour is about stays.
LEMMA CampaignStays ==
    ASSUME campaign' = campaign
    PROVE  /\ Runtime!Builders' = Runtime!Builders /\ Runtime!Plans' = Runtime!Plans
           /\ Runtime!MaxFaults' = Runtime!MaxFaults /\ Runtime!MaxOther' = Runtime!MaxOther
  BY DEF Runtime!Builders, Runtime!Plans, Runtime!MaxFaults, Runtime!MaxOther

LEMMA PlanFacts ==
    ASSUME campaign \in RuntimeScopes
    PROVE  /\ Runtime!MaxFaults \in Nat /\ None \notin Runtime!Plans
           /\ \A p \in Runtime!Plans :
                /\ Len(p.jobs) \in Nat /\ DOMAIN p.jobs = 1 .. Len(p.jobs)
                /\ \A i, k \in DOMAIN p.jobs : p.jobs[i].key = p.jobs[k].key => i = k
  <1>1. /\ Runtime!MaxFaults \in Nat /\ None \notin Runtime!Plans
        /\ \A p \in Runtime!Plans :
                /\ p.jobs \in Seq({p.jobs[i] : i \in DOMAIN p.jobs})
                /\ \A i, k \in DOMAIN p.jobs : p.jobs[i].key = p.jobs[k].key => i = k
    BY RuntimeAssumption DEF Runtime!ScopesAssumption, Runtime!PlanAssumption, Runtime!MaxFaults, Runtime!Plans
  <1>2. ASSUME NEW p \in Runtime!Plans PROVE Len(p.jobs) \in Nat /\ DOMAIN p.jobs = 1 .. Len(p.jobs)
    <2>1. PICK js, S : js = p.jobs /\ S = {p.jobs[i] : i \in DOMAIN p.jobs}
      OBVIOUS
    <2>2. js \in Seq(S)
      BY <1>1, <2>1
    <2> QED BY <2>1, <2>2
  <1> QED BY <1>1, <1>2

\* An event that is appended.
LEMMA AppendFacts ==
    ASSUME NEW s, IsSeq(s), NEW e
    PROVE  /\ IsSeq(Append(s, e)) /\ Len(Append(s, e)) = Len(s) + 1 /\ Len(s) \in Nat
           /\ DOMAIN s = 1 .. Len(s) /\ DOMAIN Append(s, e) = 1 .. Len(s) + 1
           /\ \A i \in 1 .. Len(s) : Append(s, e)[i] = s[i]
           /\ Append(s, e)[Len(s) + 1] = e
  <1>1. PICK S : S = {s[i] : i \in DOMAIN s} \cup {e}
    OBVIOUS
  <1>2. s \in Seq(S) /\ e \in S
    BY <1>1 DEF IsSeq
  <1>3. /\ Append(s, e) \in Seq(S) /\ Len(Append(s, e)) = Len(s) + 1 /\ Len(s) \in Nat
        /\ DOMAIN s = 1 .. Len(s) /\ DOMAIN Append(s, e) = 1 .. Len(s) + 1
        /\ \A i \in 1 .. Len(s) : Append(s, e)[i] = s[i]
        /\ Append(s, e)[Len(s) + 1] = e
    BY <1>2
  <1>4. IsSeq(Append(s, e))
    <2>1. PICK t : t = Append(s, e)
      OBVIOUS
    <2>2. t \in Seq(S)
      BY <1>3, <2>1
    <2>3. t \in Seq({t[i] : i \in DOMAIN t})
      BY <2>2
    <2> QED BY <2>1, <2>3 DEF IsSeq
  <1> QED BY <1>3, <1>4

\* The jobs of a log are finitely many, and each has a rank of its own, up to their number.
LEMMA RankFacts ==
    ASSUME NEW s, IsSeq(s)
    PROVE  /\ IsFiniteSet(Runtime!JobEvents(s)) /\ Cardinality(Runtime!JobEvents(s)) \in Nat
           /\ Runtime!JobEvents(s) \subseteq 1 .. Len(s)
           /\ \A i \in Runtime!JobEvents(s) : Runtime!Rank(s, i) \in 1 .. Cardinality(Runtime!JobEvents(s))
           /\ \A i, k \in Runtime!JobEvents(s) : Runtime!Rank(s, i) = Runtime!Rank(s, k) => i = k
  <1>1. Len(s) \in Nat /\ DOMAIN s = 1 .. Len(s)
    BY AppendFacts
  <1> DEFINE J == Runtime!JobEvents(s)
             Upto(i) == {k \in J : k <= i}
  <1>2. J \subseteq 1 .. Len(s)
    BY <1>1 DEF Runtime!JobEvents
  <1>9. \A i \in J : Runtime!Rank(s, i) = Cardinality(Upto(i))
    BY RuntimeCounts DEF Runtime!Rank
  <1> HIDE DEF J
  <1>3. IsFiniteSet(1 .. Len(s))
    BY <1>1, FS_Interval
  <1>4. IsFiniteSet(J)
    BY <1>2, <1>3, FS_Subset
  <1>5. Cardinality(J) \in Nat
    BY <1>4, FS_CardinalityType
  <1>6. ASSUME NEW i \in J
        PROVE  /\ IsFiniteSet(Upto(i)) /\ Cardinality(Upto(i)) \in Nat /\ Cardinality(Upto(i)) <= Cardinality(J)
    <2>1. Upto(i) \subseteq J
      OBVIOUS
    <2>2. IsFiniteSet(Upto(i)) /\ Cardinality(Upto(i)) <= Cardinality(J)
      BY <1>4, <2>1, FS_Subset
    <2> QED BY <2>2, FS_CardinalityType
  <1>7. ASSUME NEW i \in J, NEW k \in J, i < k
        PROVE  Cardinality(Upto(i)) < Cardinality(Upto(k))
    <2>0. i \in Nat /\ k \in Nat /\ \A m \in J : m \in Nat
      BY <1>1, <1>2
    <2>1. Upto(i) \subseteq Upto(k) /\ k \in Upto(k) /\ k \notin Upto(i)
      <3>1. \A m \in J : m <= i => m <= k
        BY <1>7, <2>0
      <3>2. ~(k <= i) /\ k <= k
        BY <1>7, <2>0
      <3> QED BY <3>1, <3>2
    <2>2. IsFiniteSet(Upto(k)) /\ Upto(i) # Upto(k)
      BY <1>6, <2>1
    <2>3. Cardinality(Upto(i)) <= Cardinality(Upto(k)) /\ (Cardinality(Upto(i)) = Cardinality(Upto(k)) => Upto(i) = Upto(k))
      BY <2>1, <2>2, FS_Subset
    <2> QED BY <1>6, <2>2, <2>3
  <1>8. ASSUME NEW i \in J PROVE Cardinality(Upto(i)) \in 1 .. Cardinality(J)
    <2>1. i \in Upto(i)
      BY <1>1, <1>2
    <2>2. Cardinality(Upto(i)) # 0
      BY <1>6, <2>1, FS_EmptySet
    <2> QED BY <1>5, <1>6, <2>2
  <1>10. \A i \in J : Runtime!Rank(s, i) \in 1 .. Cardinality(J)
    BY <1>8, <1>9
  <1>11. \A i, k \in J : i < k => Runtime!Rank(s, i) < Runtime!Rank(s, k)
    BY <1>7, <1>9
  <1>12. \A i, k \in J : Runtime!Rank(s, i) = Runtime!Rank(s, k) => i = k
    BY <1>2, <1>10, <1>11
  <1> QED BY <1>2, <1>4, <1>5, <1>10, <1>12 DEF J

\* Each of the numbers up to the number of jobs is the rank of one of them.
LEMMA EveryRank ==
    ASSUME NEW s, IsSeq(s), NEW n \in 1 .. Cardinality(Runtime!JobEvents(s))
    PROVE  \E i \in Runtime!JobEvents(s) : Runtime!Rank(s, i) = n
  <1> DEFINE J == Runtime!JobEvents(s)
             N == Cardinality(J)
             f == [i \in J |-> Runtime!Rank(s, i)]
  <1>1. IsFiniteSet(J) /\ N \in Nat
    BY RankFacts
  <1>2. f \in Injection(J, 1 .. N)
    BY RankFacts DEF Injection, IsInjective
  <1>3. IsFiniteSet(1 .. N) /\ Cardinality(1 .. N) = N
    BY <1>1, FS_Interval
  <1> HIDE DEF f, J
  <1>4. f \in Surjection(J, 1 .. N)
    BY <1>1, <1>2, <1>3, FS_Injection
  <1>5. \E i \in J : f[i] = n
    BY <1>4 DEF Surjection, J
  <1> QED BY <1>5 DEF f, J

\* What an event adds to a log.
Grows(s, t, type, value) ==
    /\ \A other : Runtime!Values(t, other) = Runtime!Values(s, other) \cup (IF other = type THEN {value} ELSE {})
    /\ Runtime!JobEvents(t) = Runtime!JobEvents(s) \cup (IF type = "job_enqueued" THEN {Len(s) + 1} ELSE {})
    /\ \A i \in Runtime!JobEvents(s) : Runtime!Rank(t, i) = Runtime!Rank(s, i) /\ t[i] = s[i]
    /\ type = "job_enqueued" => Runtime!Rank(t, Len(s) + 1) = Cardinality(Runtime!JobEvents(s)) + 1

LEMMA LogGrows ==
    ASSUME NEW s, IsSeq(s), NEW type, NEW value, NEW t, t = Append(s, Runtime!Event(type, value))
    PROVE  Grows(s, t, type, value)
  <1>0. PICK e : e = Runtime!Event(type, value) /\ e.type = type /\ e.value = value
    BY DEF Runtime!Event
  <1>1. t = Append(s, e)
    BY <1>0
  <1>2. /\ Len(s) \in Nat /\ Len(t) = Len(s) + 1 /\ DOMAIN s = 1 .. Len(s) /\ DOMAIN t = 1 .. Len(s) + 1
        /\ \A i \in 1 .. Len(s) : t[i] = s[i]
        /\ t[Len(s) + 1] = e
    BY <1>1, AppendFacts
  <1>3. DOMAIN t = DOMAIN s \cup {Len(s) + 1} /\ Len(s) + 1 \notin DOMAIN s
    BY <1>2
  <1>4. \A other : Runtime!Values(t, other) = Runtime!Values(s, other) \cup (IF other = type THEN {value} ELSE {})
    BY <1>0, <1>2, <1>3 DEF Runtime!Values
  <1>5. Runtime!JobEvents(t) = Runtime!JobEvents(s) \cup (IF type = "job_enqueued" THEN {Len(s) + 1} ELSE {})
    BY <1>0, <1>2, <1>3 DEF Runtime!JobEvents
  <1>6. IsFiniteSet(Runtime!JobEvents(s)) /\ Runtime!JobEvents(s) \subseteq 1 .. Len(s)
    BY RankFacts
  <1>7. \A i \in Runtime!JobEvents(s) : {k \in Runtime!JobEvents(t) : k <= i} = {k \in Runtime!JobEvents(s) : k <= i}
    BY <1>2, <1>5, <1>6
  <1>8. \A i \in Runtime!JobEvents(s) : Runtime!Rank(t, i) = Runtime!Rank(s, i) /\ t[i] = s[i]
    BY <1>2, <1>6, <1>7 DEF Runtime!Rank
  <1>9. ASSUME type = "job_enqueued"
        PROVE  Runtime!Rank(t, Len(s) + 1) = Cardinality(Runtime!JobEvents(s)) + 1
    <2>1. {k \in Runtime!JobEvents(t) : k <= Len(s) + 1} = Runtime!JobEvents(s) \cup {Len(s) + 1}
      BY <1>2, <1>5, <1>6, <1>9
    <2>2. Len(s) + 1 \notin Runtime!JobEvents(s)
      BY <1>2, <1>6
    <2>3. Cardinality(Runtime!JobEvents(s) \cup {Len(s) + 1}) = Cardinality(Runtime!JobEvents(s)) + 1
      BY <1>6, <2>2, FS_AddElement
    <2> QED BY <2>1, <2>3, RuntimeCounts DEF Runtime!Rank
  <1> QED BY <1>4, <1>5, <1>8, <1>9 DEF Grows

\* Only a job can make a log follow a plan no longer.
LEMMA FollowsStill ==
    ASSUME NEW s, IsSeq(s), NEW type, NEW value, NEW t, t = Append(s, Runtime!Event(type, value)),
           NEW p, Runtime!Follows(s, p),
           type = "job_enqueued" =>
             /\ Cardinality(Runtime!JobEvents(s)) + 1 \in DOMAIN p.jobs
             /\ p.jobs[Cardinality(Runtime!JobEvents(s)) + 1] = value
    PROVE  Runtime!Follows(t, p)
  <1>1. Grows(s, t, type, value)
    BY LogGrows
  <1>2. /\ Runtime!JobEvents(t) = Runtime!JobEvents(s) \cup (IF type = "job_enqueued" THEN {Len(s) + 1} ELSE {})
        /\ \A i \in Runtime!JobEvents(s) : Runtime!Rank(t, i) = Runtime!Rank(s, i) /\ t[i] = s[i]
        /\ type = "job_enqueued" => Runtime!Rank(t, Len(s) + 1) = Cardinality(Runtime!JobEvents(s)) + 1
    BY <1>1, Zenon DEF Grows
  <1>3. t[Len(s) + 1].value = value
    BY AppendFacts DEF Runtime!Event
  <1>4. ASSUME NEW i \in Runtime!JobEvents(t)
        PROVE  Runtime!Rank(t, i) \in DOMAIN p.jobs /\ p.jobs[Runtime!Rank(t, i)] = t[i].value
    BY <1>2, <1>3, <1>4 DEF Runtime!Follows
  <1> QED BY <1>4 DEF Runtime!Follows

\* The builder that has its first n jobs in a log of its plan, and not the next, is where the log ends.
LEMMA NextJob ==
    ASSUME NEW s, IsSeq(s), NEW p, Runtime!Follows(s, p),
           Len(p.jobs) \in Nat, DOMAIN p.jobs = 1 .. Len(p.jobs),
           \A i, k \in DOMAIN p.jobs : p.jobs[i].key = p.jobs[k].key => i = k,
           NEW n \in DOMAIN p.jobs,
           \A k \in DOMAIN p.jobs : k < n => p.jobs[k] \in Runtime!Values(s, "job_enqueued")
    PROVE  \/ Cardinality(Runtime!JobEvents(s)) + 1 = n
           \/ p.jobs[n] \in Runtime!Values(s, "job_enqueued")
  <1> DEFINE N == Cardinality(Runtime!JobEvents(s))
  <1>1. /\ N \in Nat /\ \A i \in Runtime!JobEvents(s) : Runtime!Rank(s, i) \in 1 .. N
        /\ Runtime!Values(s, "job_enqueued") = {s[i].value : i \in Runtime!JobEvents(s)}
    BY RankFacts DEF Runtime!Values, Runtime!JobEvents
  <1>2. ASSUME NEW k \in DOMAIN p.jobs, p.jobs[k] \in Runtime!Values(s, "job_enqueued") PROVE k <= N
    <2>1. PICK i \in Runtime!JobEvents(s) : s[i].value = p.jobs[k]
      BY <1>1, <1>2
    <2>2. Runtime!Rank(s, i) = k
      BY <2>1 DEF Runtime!Follows
    <2> QED BY <1>1, <2>2
  <1>3. ASSUME n <= N PROVE p.jobs[n] \in Runtime!Values(s, "job_enqueued")
    <2>1. PICK i \in Runtime!JobEvents(s) : Runtime!Rank(s, i) = n
      BY <1>1, <1>3, EveryRank
    <2> QED BY <1>1, <2>1 DEF Runtime!Follows
  <1>4. ASSUME n > 1 PROVE n - 1 <= N
    BY <1>2, <1>4
  <1> QED BY <1>1, <1>3, <1>4

Types == {"campaign_configured", "runtime_plan_bound", "worker_registered", "job_enqueued", "other"}
Places == {"idle", "configure", "validate", "bind", "workers", "jobs", "built", "failed"}

\* One event more may be written if it configures or binds for the first time, or is the next job of the plan.
LEMMA LogWritten ==
    ASSUME IsSeq(log), LogOK, campaign' = campaign, NEW type \in Types, NEW value,
           log' = Append(log, Runtime!Event(type, value)),
           type = "campaign_configured" => EventsOf("campaign_configured") = {},
           type = "runtime_plan_bound" =>
             EventsOf("runtime_plan_bound") = {} /\ value \in Runtime!Plans /\ Runtime!Follows(log, value),
           type = "job_enqueued" => \A p \in Runtime!Bound :
             /\ Cardinality(Runtime!JobEvents(log)) + 1 \in DOMAIN p.jobs
             /\ p.jobs[Cardinality(Runtime!JobEvents(log)) + 1] = value
    PROVE  LogOK'
  <1>1. /\ Len(log) \in Nat /\ DOMAIN log = 1 .. Len(log) /\ DOMAIN log' = 1 .. Len(log) + 1
        /\ \A i \in 1 .. Len(log) : log'[i] = log[i]
        /\ log'[Len(log) + 1] = Runtime!Event(type, value)
    BY AppendFacts
  <1>2. DOMAIN log' = DOMAIN log \cup {Len(log) + 1} /\ \A i \in DOMAIN log : log'[i] = log[i]
    BY <1>1
  <1>3. log'[Len(log) + 1].type = type
    BY <1>1 DEF Runtime!Event
  <1>4. \A i \in DOMAIN log' : log'[i].type \in Types
    BY <1>2, <1>3 DEF LogOK, Types
  <1>5. \A other : EventsOf(other)' = EventsOf(other) \cup (IF other = type THEN {Len(log) + 1} ELSE {})
    BY <1>1, <1>2, <1>3 DEF EventsOf
  <1>6. \A i, k \in EventsOf("campaign_configured")' : i = k
    BY <1>5 DEF LogOK
  <1>7. \A i, k \in EventsOf("runtime_plan_bound")' : i = k
    BY <1>5 DEF LogOK
  <1>8. Grows(log, log', type, value)
    BY LogGrows
  <1>9. Runtime!Bound' = Runtime!Bound \cup (IF type = "runtime_plan_bound" THEN {value} ELSE {})
    BY <1>8, Zenon DEF Grows, Runtime!Bound
  <1>10. (Runtime!Bound \subseteq Runtime!Plans)'
    BY <1>9, CampaignStays DEF LogOK
  <1>11. \A p \in Runtime!Bound' : Runtime!Follows(log', p)
    <2> SUFFICES ASSUME NEW p \in Runtime!Bound' PROVE Runtime!Follows(log', p)
      OBVIOUS
    <2>1. Runtime!Follows(log, p)
      BY <1>9 DEF LogOK, Runtime!JobsFollowPlan
    <2>2. type = "job_enqueued" => p \in Runtime!Bound
      BY <1>9
    <2> QED BY <2>1, <2>2, FollowsStill
  <1> QED BY <1>4, <1>6, <1>7, <1>10, <1>11 DEF LogOK, Types, Runtime!JobsFollowPlan

\* A step of one builder: what it wrote is one event, and the others lose nothing by it.
LogMoves == log' = log \/ \E type, value : log' = Append(log, Runtime!Event(type, value))

LEMMA BuilderStays ==
    ASSUME BuildersType, campaign' = campaign, LogMoves, NEW b \in Runtime!Builders, BuilderOK(b),
           plan'[b] = plan[b], builder_pc'[b] = builder_pc[b], view'[b] = view[b], next_job'[b] = next_job[b]
    PROVE  BuilderOK(b)'
  <1>1. CASE log' = log
    BY <1>1, CampaignStays DEF BuilderOK, Runtime!Bound
  <1>2. CASE log' # log
    <2>1. PICK type, value : log' = Append(log, Runtime!Event(type, value))
      BY <1>2 DEF LogMoves
    <2>2. Grows(log, log', type, value) /\ Len(log') = Len(log) + 1 /\ Len(log) \in Nat
      BY <2>1, LogGrows, AppendFacts DEF BuildersType
    <2>3. \A other : Runtime!Values(log, other) \subseteq Runtime!Values(log', other)
      BY <2>2, Zenon DEF Grows
    <2>4. view'[b] # Len(log')
      BY <2>2 DEF BuildersType
    <2>5. Runtime!Bound \subseteq Runtime!Bound'
      BY <2>3 DEF Runtime!Bound
    <2> QED BY <2>3, <2>4, <2>5, CampaignStays DEF BuilderOK
  <1> QED BY <1>1, <1>2

LEMMA RuntimeFrame ==
    ASSUME RuntimeIInv, campaign' = campaign, LogMoves, BuildersType', LogOK', NEW b \in Runtime!Builders, BuilderOK(b)',
           \A c \in Runtime!Builders \ {b} :
             plan'[c] = plan[c] /\ builder_pc'[c] = builder_pc[c] /\ view'[c] = view[c] /\ next_job'[c] = next_job[c]
    PROVE  RuntimeIInv'
  <1>1. \A c \in Runtime!Builders \ {b} : BuilderOK(c)'
    BY BuilderStays DEF RuntimeIInv
  <1>2. Runtime!Builders' = Runtime!Builders
    BY CampaignStays
  <1> QED BY <1>1, <1>2 DEF RuntimeIInv

\* _record, of a builder that goes on to the next place, or fails.
LEMMA AppendStep ==
    ASSUME RuntimeIInv, campaign' = campaign, plan' = plan, NEW b \in Runtime!Builders,
           NEW type \in Types, NEW value, NEW to \in Places,
           Runtime!Append1(b, Runtime!Event(type, value), to),
           next_job' \in [Runtime!Builders -> Nat \ {0}],
           \A c \in Runtime!Builders \ {b} : next_job'[c] = next_job[c],
           view[b] = Len(log) /\ log' = Append(log, Runtime!Event(type, value)) => LogOK',
           view[b] = Len(log) /\ log' = Append(log, Runtime!Event(type, value)) /\ builder_pc'[b] = to => BuilderOK(b)'
    PROVE  RuntimeIInv'
  <1>1. BuildersType /\ LogOK /\ Len(log) \in Nat /\ Runtime!MaxFaults \in Nat
    BY AppendFacts, PlanFacts DEF RuntimeIInv, BuildersType
  <1>2. LogMoves
    BY DEF Runtime!Append1, LogMoves
  <1>3. builder_pc' = [builder_pc EXCEPT ![b] = to] \/ builder_pc' = [builder_pc EXCEPT ![b] = "failed"]
    BY DEF Runtime!Append1, Runtime!Goto
  <1>4. \/ log' = log /\ view' = view /\ faults' = faults /\ builder_pc'[b] = "failed"
        \/ /\ view[b] = Len(log) /\ log' = Append(log, Runtime!Event(type, value))
           /\ view' \in {view, [view EXCEPT ![b] = @ + 1]}
           /\ faults' \in 0 .. Runtime!MaxFaults
           /\ builder_pc'[b] \in {to, "failed"}
    BY <1>1 DEF Runtime!Append1, Runtime!Goto, BuildersType
  <1>5. IsSeq(log') /\ Len(log') \in Nat /\ Len(log') >= Len(log) /\ (log' # log => Len(log') = Len(log) + 1)
    <2>1. IsSeq(log)
      BY <1>1 DEF BuildersType
    <2>2. CASE log' = log
      BY <1>1, <2>1, <2>2
    <2>3. CASE log' = Append(log, Runtime!Event(type, value))
      BY <1>1, <2>1, <2>3, AppendFacts
    <2> QED BY <1>4, <2>2, <2>3
  <1>6. BuildersType'
    <2>1. view' \in [Runtime!Builders -> Nat] /\ \A c \in Runtime!Builders : view'[c] <= Len(log')
      <3>1. CASE log' = log /\ view' = view
        BY <1>1, <3>1 DEF BuildersType
      <3>2. CASE view[b] = Len(log) /\ Len(log') = Len(log) + 1 /\ view' \in {view, [view EXCEPT ![b] = @ + 1]}
        <4>1. CASE view' = view
          BY <1>1, <3>2, <4>1 DEF BuildersType
        <4>2. CASE view' = [view EXCEPT ![b] = @ + 1]
          BY <1>1, <3>2, <4>2 DEF BuildersType
        <4> QED BY <3>2, <4>1, <4>2
      <3>3. log' = Append(log, Runtime!Event(type, value)) => Len(log') = Len(log) + 1
        BY <1>1, AppendFacts DEF BuildersType
      <3> QED BY <1>4, <3>1, <3>2, <3>3
    <2>2. builder_pc' \in [Runtime!Builders -> Places]
      BY <1>1, <1>3 DEF BuildersType, Places
    <2> QED BY <1>1, <1>4, <1>5, <2>1, <2>2, CampaignStays DEF BuildersType, Places
  <1>7. LogOK'
    <2>1. log' = log => LogOK'
      BY <1>1, CampaignStays DEF LogOK, EventsOf, Runtime!Bound, Runtime!JobsFollowPlan
    <2> QED BY <1>4, <2>1
  <1>8. builder_pc'[b] = "failed" => BuilderOK(b)'
    BY DEF BuilderOK
  <1>9. BuilderOK(b)'
    BY <1>4, <1>8
  <1>10. \A c \in Runtime!Builders \ {b} : builder_pc'[c] = builder_pc[c] /\ view'[c] = view[c]
    BY <1>1, <1>3, <1>4 DEF BuildersType
  <1> QED BY <1>2, <1>6, <1>7, <1>9, <1>10, RuntimeFrame

\* A builder that only looks.
LEMMA SkipStep ==
    ASSUME RuntimeIInv, campaign' = campaign, plan' = plan, NEW b \in Runtime!Builders, NEW to \in Places,
           Runtime!Skip(b, to),
           next_job' \in [Runtime!Builders -> Nat \ {0}],
           \A c \in Runtime!Builders \ {b} : next_job'[c] = next_job[c],
           builder_pc'[b] = to /\ log' = log /\ view'[b] = view[b] => BuilderOK(b)'
    PROVE  RuntimeIInv'
  <1>1. BuildersType /\ LogOK
    BY DEF RuntimeIInv
  <1>2. LogMoves /\ log' = log /\ view' = view /\ faults' = faults /\ builder_pc' = [builder_pc EXCEPT ![b] = to]
    BY DEF Runtime!Skip, Runtime!Goto, LogMoves
  <1>3. BuildersType'
    BY <1>1, <1>2, CampaignStays DEF BuildersType, Places
  <1>4. LogOK'
    BY <1>1, <1>2, CampaignStays DEF LogOK, EventsOf, Runtime!Bound, Runtime!JobsFollowPlan
  <1>5. builder_pc'[b] = to /\ \A c \in Runtime!Builders \ {b} : builder_pc'[c] = builder_pc[c] /\ view'[c] = view[c]
    BY <1>1, <1>2 DEF BuildersType
  <1>6. BuilderOK(b)'
    BY <1>2, <1>5
  <1> QED BY <1>2, <1>3, <1>4, <1>5, <1>6, RuntimeFrame

\* _configure_once: who configures the log finds no configuration, and who finds one has its budget.
LEMMA ConfigureStep ==
    ASSUME RuntimeIInv, campaign' = campaign, NEW b \in Runtime!Builders, Runtime!Configure(b)
    PROVE  RuntimeIInv'
  <1>1. /\ BuildersType /\ LogOK /\ BuilderOK(b) /\ IsSeq(log) /\ plan[b] \in Runtime!Plans /\ plan' = plan /\ next_job' = next_job
        /\ next_job[b] = 1
    BY DEF RuntimeIInv, BuildersType, BuilderOK, Runtime!Configure
  <1>2. next_job' \in [Runtime!Builders -> Nat \ {0}]
    BY <1>1 DEF BuildersType
  <1>3. CASE EventsOf("campaign_configured") = {} /\ Runtime!Append1(b, Runtime!Event("campaign_configured", plan[b].budget), "validate")
    <2>1. ASSUME log' = Append(log, Runtime!Event("campaign_configured", plan[b].budget))
          PROVE  LogOK' /\ (builder_pc'[b] = "validate" => BuilderOK(b)')
      <3>1. LogOK'
        BY <1>1, <1>3, <2>1, LogWritten DEF Types
      <3>2. Grows(log, log', "campaign_configured", plan[b].budget)
        BY <1>1, <2>1, LogGrows
      <3>3. plan'[b].budget \in Runtime!Values(log', "campaign_configured")
        BY <1>1, <3>2, Zenon DEF Grows
      <3> QED BY <1>1, <3>1, <3>3, CampaignStays DEF BuilderOK
    <2> QED BY <1>1, <1>2, <1>3, <2>1, AppendStep DEF Types, Places
  <1>4. ASSUME NEW latest \in EventsOf("campaign_configured"),
               Runtime!Skip(b, IF log[latest].value = plan[b].budget THEN "validate" ELSE "failed")
        PROVE  RuntimeIInv'
    <2>1. CASE log[latest].value = plan[b].budget
      <3>1. Runtime!Skip(b, "validate")
        BY <1>4, <2>1
      <3>2. plan[b].budget \in Runtime!Values(log, "campaign_configured")
        BY <2>1 DEF EventsOf, Runtime!Values
      <3>3. builder_pc'[b] = "validate" /\ log' = log => BuilderOK(b)'
        BY <1>1, <3>2, CampaignStays DEF BuilderOK
      <3> QED BY <1>1, <1>2, <3>1, <3>3, SkipStep DEF Places
    <2>2. CASE log[latest].value # plan[b].budget
      <3>1. Runtime!Skip(b, "failed")
        BY <1>4, <2>2
      <3>2. builder_pc'[b] = "failed" => BuilderOK(b)'
        BY DEF BuilderOK
      <3> QED BY <1>1, <1>2, <3>1, <3>2, SkipStep DEF Places
    <2> QED BY <2>1, <2>2
  <1> QED BY <1>3, <1>4 DEF Runtime!Configure, EventsOf

\* _validate_legacy_job_state: whoever goes on to bind the first plan of a log has jobs that fit it.
LEMMA ValidateStep ==
    ASSUME RuntimeIInv, campaign' = campaign, NEW b \in Runtime!Builders, Runtime!Validate(b)
    PROVE  RuntimeIInv'
  <1>1. BuildersType /\ LogOK /\ BuilderOK(b) /\ builder_pc[b] = "validate" /\ plan' = plan /\ next_job' = next_job
    BY DEF RuntimeIInv, Runtime!Validate
  <1>2. next_job' \in [Runtime!Builders -> Nat \ {0}]
    BY <1>1 DEF BuildersType
  <1>3. CASE Runtime!Bound # {} \/ Runtime!Follows(log, plan[b])
    <2>1. Runtime!Skip(b, "bind")
      BY <1>3 DEF Runtime!Validate, Runtime!Bound
    <2>2. builder_pc'[b] = "bind" /\ log' = log => BuilderOK(b)'
      BY <1>1, <1>3, CampaignStays DEF BuilderOK, Runtime!Bound
    <2> QED BY <1>1, <1>2, <2>1, <2>2, SkipStep DEF Places
  <1>4. CASE ~(Runtime!Bound # {} \/ Runtime!Follows(log, plan[b]))
    <2>1. Runtime!Skip(b, "failed")
      BY <1>4 DEF Runtime!Validate, Runtime!Bound
    <2>2. builder_pc'[b] = "failed" => BuilderOK(b)'
      BY DEF BuilderOK
    <2> QED BY <1>1, <1>2, <2>1, <2>2, SkipStep DEF Places
  <1> QED BY <1>3, <1>4

\* What a builder has applied is the log, unless it is stale.
LEMMA AppliedAll ==
    ASSUME BuildersType, NEW b \in Runtime!Builders
    PROVE  /\ \A type : Runtime!Values(Runtime!Applied(b), type) \subseteq Runtime!Values(log, type)
           /\ view[b] = Len(log) => Runtime!Applied(b) = log
  <1>1. PICK S : S = {log[i] : i \in DOMAIN log}
    OBVIOUS
  <1>2. log \in Seq(S) /\ view[b] \in 0 .. Len(log)
    BY <1>1 DEF BuildersType, IsSeq
  <1>3. PICK t : t = SubSeq(log, 1, view[b])
    OBVIOUS
  <1>4. /\ DOMAIN t = 1 .. view[b] /\ \A i \in 1 .. view[b] : t[i] = log[i]
        /\ DOMAIN log = 1 .. Len(log) /\ Len(log) \in Nat /\ t \in Seq(S) /\ Len(t) = view[b]
    BY <1>2, <1>3
  <1>5. DOMAIN t \subseteq DOMAIN log /\ \A i \in DOMAIN t : t[i] = log[i]
    BY <1>2, <1>4
  <1>6. \A type : Runtime!Values(t, type) \subseteq Runtime!Values(log, type)
    BY <1>5 DEF Runtime!Values
  <1>7. view[b] = Len(log) => t = log
    BY <1>2, <1>4
  <1> QED BY <1>3, <1>6, <1>7 DEF Runtime!Applied

\* bind_runtime_plan.
LEMMA BindStep ==
    ASSUME RuntimeIInv, campaign' = campaign, NEW b \in Runtime!Builders, Runtime!Bind(b)
    PROVE  RuntimeIInv'
  <1>1. /\ BuildersType /\ LogOK /\ BuilderOK(b) /\ IsSeq(log) /\ builder_pc[b] = "bind" /\ plan' = plan /\ next_job' = next_job
        /\ plan[b] \in Runtime!Plans
    BY DEF RuntimeIInv, BuildersType, BuilderOK, Runtime!Bind
  <1>2. next_job' \in [Runtime!Builders -> Nat \ {0}]
    BY <1>1 DEF BuildersType
  <1>3. CASE /\ Runtime!Values(Runtime!Applied(b), "runtime_plan_bound") = {}
             /\ Runtime!Append1(b, Runtime!Event("runtime_plan_bound", plan[b]), "workers")
    <2>1. ASSUME view[b] = Len(log), log' = Append(log, Runtime!Event("runtime_plan_bound", plan[b]))
          PROVE  LogOK' /\ (builder_pc'[b] = "workers" => BuilderOK(b)')
      <3>1. Runtime!Bound = {}
        BY <1>1, <1>3, <2>1, AppliedAll DEF Runtime!Bound
      <3>2. EventsOf("runtime_plan_bound") = {}
        BY <3>1 DEF EventsOf, Runtime!Bound, Runtime!Values
      <3>3. Runtime!Follows(log, plan[b])
        BY <1>1, <2>1, <3>1 DEF BuilderOK
      <3>4. LogOK'
        BY <1>1, <2>1, <3>2, <3>3, LogWritten DEF Types
      <3>5. Grows(log, log', "runtime_plan_bound", plan[b])
        BY <1>1, <2>1, LogGrows
      <3>6. plan'[b] \in Runtime!Bound' /\ plan'[b].budget \in Runtime!Values(log', "campaign_configured")
        <4>1. plan[b].budget \in Runtime!Values(log, "campaign_configured")
          BY <1>1 DEF BuilderOK
        <4> QED BY <1>1, <3>5, <4>1, Zenon DEF Grows, Runtime!Bound
      <3> QED BY <1>1, <3>4, <3>6, CampaignStays DEF BuilderOK
    <2> QED BY <1>1, <1>2, <1>3, <2>1, AppendStep DEF Types, Places
  <1>4. CASE Runtime!Skip(b, "workers") /\ plan[b] \in Runtime!Values(Runtime!Applied(b), "runtime_plan_bound")
    <2>1. plan[b] \in Runtime!Bound
      BY <1>1, <1>4, AppliedAll DEF Runtime!Bound
    <2>2. builder_pc'[b] = "workers" /\ log' = log => BuilderOK(b)'
      BY <1>1, <2>1, CampaignStays DEF BuilderOK, Runtime!Bound
    <2> QED BY <1>1, <1>2, <1>4, <2>2, SkipStep DEF Places
  <1>5. CASE Runtime!Skip(b, "failed")
    <2>1. builder_pc'[b] = "failed" => BuilderOK(b)'
      BY DEF BuilderOK
    <2> QED BY <1>1, <1>2, <1>5, <2>1, SkipStep DEF Places
  <1> QED BY <1>3, <1>4, <1>5 DEF Runtime!Bind

\* register_worker: nothing of the plan has been enqueued yet.
LEMMA RegisterStep ==
    ASSUME RuntimeIInv, campaign' = campaign, NEW b \in Runtime!Builders, Runtime!Register(b)
    PROVE  RuntimeIInv'
  <1>1. /\ BuildersType /\ LogOK /\ BuilderOK(b) /\ IsSeq(log) /\ builder_pc[b] = "workers" /\ plan' = plan /\ next_job' = next_job
        /\ plan[b] \in Runtime!Plans /\ plan[b] \in Runtime!Bound /\ next_job[b] = 1
        /\ plan[b].budget \in Runtime!Values(log, "campaign_configured")
    BY DEF RuntimeIInv, BuildersType, BuilderOK, Runtime!Register
  <1>2. next_job' \in [Runtime!Builders -> Nat \ {0}]
    BY <1>1 DEF BuildersType
  <1>3. \A n \in DOMAIN plan[b].jobs : ~(n < 1)
    BY <1>1, PlanFacts DEF BuildersType
  <1>4. CASE Runtime!Append1(b, Runtime!Event("worker_registered", "worker"), "jobs")
    <2>1. ASSUME log' = Append(log, Runtime!Event("worker_registered", "worker"))
          PROVE  LogOK' /\ (builder_pc'[b] = "jobs" => BuilderOK(b)')
      <3>1. LogOK'
        BY <1>1, <2>1, LogWritten DEF Types
      <3>2. Grows(log, log', "worker_registered", "worker")
        BY <1>1, <2>1, LogGrows
      <3>3. plan'[b].budget \in Runtime!Values(log', "campaign_configured") /\ plan'[b] \in Runtime!Bound'
        BY <1>1, <3>2, Zenon DEF Grows, Runtime!Bound
      <3> QED BY <1>1, <1>3, <3>1, <3>3, CampaignStays DEF BuilderOK
    <2> QED BY <1>1, <1>2, <1>4, <2>1, AppendStep DEF Types, Places
  <1>5. CASE Runtime!Skip(b, "jobs")
    <2>1. builder_pc'[b] = "jobs" /\ log' = log => BuilderOK(b)'
      BY <1>1, <1>3, CampaignStays DEF BuilderOK, Runtime!Bound
    <2> QED BY <1>1, <1>2, <1>5, <2>1, SkipStep DEF Places
  <1> QED BY <1>4, <1>5 DEF Runtime!Register

\* enqueue: a job whose key is not in the log is the next one of the plan the log is bound to.
LEMMA EnqueueNextStep ==
    ASSUME RuntimeIInv, campaign' = campaign, NEW b \in Runtime!Builders, Runtime!EnqueueNext(b)
    PROVE  RuntimeIInv'
  <1>1. /\ BuildersType /\ LogOK /\ BuilderOK(b) /\ IsSeq(log) /\ builder_pc[b] = "jobs" /\ plan' = plan
        /\ plan[b] \in Runtime!Plans /\ plan[b] \in Runtime!Bound
        /\ plan[b].budget \in Runtime!Values(log, "campaign_configured")
        /\ next_job[b] \in Nat \ {0} /\ next_job[b] <= Len(plan[b].jobs)
        /\ next_job' = [next_job EXCEPT ![b] = @ + 1]
        /\ \A n \in DOMAIN plan[b].jobs : n < next_job[b] => plan[b].jobs[n] \in Runtime!Values(log, "job_enqueued")
    BY DEF RuntimeIInv, BuildersType, BuilderOK, Runtime!EnqueueNext
  <1>2. PICK p, n : p = plan[b] /\ n = next_job[b]
    OBVIOUS
  <1>3. /\ Len(p.jobs) \in Nat /\ DOMAIN p.jobs = 1 .. Len(p.jobs) /\ n \in DOMAIN p.jobs
        /\ \A i, k \in DOMAIN p.jobs : p.jobs[i].key = p.jobs[k].key => i = k
    BY <1>1, <1>2, PlanFacts DEF BuildersType
  <1>4. /\ next_job' \in [Runtime!Builders -> Nat \ {0}] /\ next_job'[b] = n + 1
        /\ \A c \in Runtime!Builders \ {b} : next_job'[c] = next_job[c]
    BY <1>1, <1>2 DEF BuildersType
  <1>5. ASSUME NEW values, \A k \in DOMAIN p.jobs : k < n => p.jobs[k] \in values, p.jobs[n] \in values
        PROVE  \A k \in DOMAIN p.jobs : k < n + 1 => p.jobs[k] \in values
    <2>1. \A k \in DOMAIN p.jobs : k < n + 1 => k < n \/ k = n
      BY <1>3
    <2> QED BY <1>5, <2>1
  <1>6. CASE /\ \A j \in Runtime!Values(Runtime!Applied(b), "job_enqueued") : j.key # p.jobs[n].key
             /\ Runtime!Append1(b, Runtime!Event("job_enqueued", p.jobs[n]), "jobs")
    <2>1. ASSUME view[b] = Len(log), log' = Append(log, Runtime!Event("job_enqueued", p.jobs[n]))
          PROVE  LogOK' /\ (builder_pc'[b] = "jobs" => BuilderOK(b)')
      <3>1. p.jobs[n] \notin Runtime!Values(log, "job_enqueued")
        BY <1>1, <1>6, <2>1, AppliedAll
      <3>2. Runtime!Follows(log, p)
        BY <1>1, <1>2 DEF LogOK, Runtime!JobsFollowPlan
      <3>3. Cardinality(Runtime!JobEvents(log)) + 1 = n
        BY <1>1, <1>2, <1>3, <3>1, <3>2, NextJob
      <3>4. \A q \in Runtime!Bound : q = p
        BY <1>1, <1>2 DEF LogOK, EventsOf, Runtime!Bound, Runtime!Values
      <3>5. LogOK'
        BY <1>1, <1>3, <2>1, <3>3, <3>4, LogWritten DEF Types
      <3>6. Grows(log, log', "job_enqueued", p.jobs[n])
        BY <1>1, <2>1, LogGrows
      <3>7. /\ plan[b].budget \in Runtime!Values(log', "campaign_configured") /\ plan[b] \in Runtime!Bound'
            /\ Runtime!Values(log, "job_enqueued") \subseteq Runtime!Values(log', "job_enqueued")
            /\ p.jobs[n] \in Runtime!Values(log', "job_enqueued")
        BY <1>1, <3>6, Zenon DEF Grows, Runtime!Bound
      <3>8. \A k \in DOMAIN p.jobs : k < n + 1 => p.jobs[k] \in Runtime!Values(log', "job_enqueued")
        BY <1>1, <1>2, <1>5, <3>7
      <3> QED BY <1>1, <1>2, <1>4, <3>5, <3>7, <3>8, CampaignStays DEF BuilderOK
    <2> QED BY <1>1, <1>4, <1>6, <2>1, AppendStep DEF Types, Places
  <1>7. CASE p.jobs[n] \in Runtime!Values(Runtime!Applied(b), "job_enqueued") /\ Runtime!Skip(b, "jobs")
    <2>1. p.jobs[n] \in Runtime!Values(log, "job_enqueued")
      BY <1>1, <1>7, AppliedAll
    <2>2. \A k \in DOMAIN p.jobs : k < n + 1 => p.jobs[k] \in Runtime!Values(log, "job_enqueued")
      BY <1>1, <1>2, <1>5, <2>1
    <2>3. builder_pc'[b] = "jobs" /\ log' = log => BuilderOK(b)'
      BY <1>1, <1>2, <1>4, <2>2, CampaignStays DEF BuilderOK, Runtime!Bound
    <2> QED BY <1>1, <1>4, <1>7, <2>3, SkipStep DEF Places
  <1>8. CASE Runtime!Skip(b, "failed")
    <2>1. builder_pc'[b] = "failed" => BuilderOK(b)'
      BY DEF BuilderOK
    <2> QED BY <1>1, <1>4, <1>8, <2>1, SkipStep DEF Places
  <1> QED BY <1>2, <1>6, <1>7, <1>8 DEF Runtime!EnqueueNext

LEMMA ReturnStep ==
    ASSUME RuntimeIInv, campaign' = campaign, NEW b \in Runtime!Builders, Runtime!Return(b)
    PROVE  RuntimeIInv'
  <1>1. /\ BuildersType /\ BuilderOK(b) /\ builder_pc[b] = "jobs" /\ plan' = plan /\ next_job' = next_job
        /\ next_job[b] > Len(plan[b].jobs) /\ Runtime!Skip(b, "built")
    BY DEF RuntimeIInv, Runtime!Return, Runtime!Skip
  <1>2. next_job' \in [Runtime!Builders -> Nat \ {0}]
    BY <1>1 DEF BuildersType
  <1>3. builder_pc'[b] = "built" /\ log' = log => BuilderOK(b)'
    BY <1>1, CampaignStays DEF BuilderOK, Runtime!Bound
  <1> QED BY <1>1, <1>2, <1>3, SkipStep DEF Places

\* Events of a scheduler at work are none of the plan's.
LEMMA WorkStep ==
    ASSUME RuntimeIInv, campaign' = campaign, NEW b \in Runtime!Builders, Runtime!Work(b)
    PROVE  RuntimeIInv'
  <1>1. /\ BuildersType /\ LogOK /\ BuilderOK(b) /\ IsSeq(log) /\ builder_pc[b] = "built" /\ plan' = plan /\ next_job' = next_job
        /\ log' = Append(log, Runtime!Event("other", None)) /\ view[b] = Len(log)
        /\ Runtime!Append1(b, Runtime!Event("other", None), "built")
    BY DEF RuntimeIInv, BuildersType, Runtime!Work, Runtime!Append1, Runtime!Goto
  <1>2. next_job' \in [Runtime!Builders -> Nat \ {0}]
    BY <1>1 DEF BuildersType
  <1>3. LogOK'
    BY <1>1, LogWritten DEF Types
  <1>4. Grows(log, log', "other", None)
    BY <1>1, LogGrows
  <1>5. \A type : Runtime!Values(log, type) \subseteq Runtime!Values(log', type)
    BY <1>4, Zenon DEF Grows
  <1>6. builder_pc'[b] = "built" => BuilderOK(b)'
    BY <1>1, <1>5, CampaignStays DEF BuilderOK, Runtime!Bound
  <1> QED BY <1>1, <1>2, <1>3, <1>6, AppendStep DEF Types, Places

\* A builder that begins again, or is gone.
Begins(b, to, q, v) ==
    /\ builder_pc' = [builder_pc EXCEPT ![b] = to] /\ plan' = [plan EXCEPT ![b] = q]
    /\ view' = [view EXCEPT ![b] = v] /\ next_job' = [next_job EXCEPT ![b] = 1]
    /\ log' = log /\ faults' \in 0 .. Runtime!MaxFaults

LEMMA BeginStep ==
    ASSUME RuntimeIInv, campaign' = campaign, NEW b \in Runtime!Builders, NEW to, NEW q, NEW v, Begins(b, to, q, v),
           to \in {"idle", "configure"}, q \in Runtime!Plans \cup {None}, v \in {0, Len(log)},
           to = "configure" => q \in Runtime!Plans
    PROVE  RuntimeIInv'
  <1>1. BuildersType /\ LogOK /\ IsSeq(log) /\ Len(log) \in Nat
    BY AppendFacts DEF RuntimeIInv, BuildersType
  <1>2. Begins(b, to, q, v)
    OBVIOUS
  <1>3. BuildersType'
    <2>1. to \in {"idle", "configure"} /\ q \in Runtime!Plans \cup {None} /\ v \in Nat /\ v <= Len(log)
      BY <1>1, <1>2
    <2>2. view' \in [Runtime!Builders -> Nat] /\ \A c \in Runtime!Builders : view'[c] <= Len(log)
      BY <1>1, <1>2, <2>1 DEF BuildersType, Begins
    <2>3. next_job' \in [Runtime!Builders -> Nat \ {0}] /\ plan' \in [Runtime!Builders -> Runtime!Plans \cup {None}]
      BY <1>1, <1>2, <2>1 DEF BuildersType, Begins
    <2>4. builder_pc' \in [Runtime!Builders -> Places]
      BY <1>1, <1>2, <2>1 DEF BuildersType, Begins, Places
    <2> QED BY <1>1, <1>2, <2>2, <2>3, <2>4, CampaignStays DEF BuildersType, Begins, Places
  <1>4. LogOK' /\ LogMoves
    BY <1>1, <1>2, CampaignStays DEF LogOK, EventsOf, Runtime!Bound, Runtime!JobsFollowPlan, LogMoves, Begins
  <1>5. BuilderOK(b)'
    BY <1>1, <1>2, CampaignStays DEF BuilderOK, BuildersType, Begins
  <1>6. \A c \in Runtime!Builders \ {b} :
          plan'[c] = plan[c] /\ builder_pc'[c] = builder_pc[c] /\ view'[c] = view[c] /\ next_job'[c] = next_job[c]
    BY <1>1, <1>2 DEF BuildersType, Begins
  <1> QED BY <1>3, <1>4, <1>5, <1>6, RuntimeFrame

LEMMA StartAndCrashStep ==
    ASSUME RuntimeIInv, campaign' = campaign, NEW b \in Runtime!Builders,
           Runtime!Crash(b) \/ \E p \in Runtime!Plans : Runtime!Start(b, p)
    PROVE  RuntimeIInv'
  <1>1. BuildersType /\ Runtime!MaxFaults \in Nat
    BY PlanFacts DEF RuntimeIInv, BuildersType
  <1>2. ASSUME Runtime!Crash(b) PROVE Begins(b, "idle", None, 0)
    BY <1>1, <1>2 DEF Runtime!Crash, Runtime!Goto, BuildersType, Begins
  <1>3. ASSUME NEW p \in Runtime!Plans, Runtime!Start(b, p) PROVE Begins(b, "configure", p, Len(log))
    BY <1>1, <1>3 DEF Runtime!Start, Runtime!Goto, BuildersType, Begins
  <1>4. CASE Runtime!Crash(b)
    <2>1. Begins(b, "idle", None, 0)
      BY <1>2, <1>4
    <2> QED BY <2>1, BeginStep
  <1>5. ASSUME NEW p \in Runtime!Plans, Runtime!Start(b, p) PROVE RuntimeIInv'
    <2>1. Begins(b, "configure", p, Len(log))
      BY <1>3, <1>5
    <2> QED BY <2>1, BeginStep
  <1> QED BY <1>4, <1>5

LEMMA RuntimeInit == Runtime!Init => RuntimeIInv
  <1> SUFFICES ASSUME Runtime!Init PROVE RuntimeIInv
    OBVIOUS
  <1>1. campaign \in RuntimeScopes /\ log \in campaign.LegacyLogs
    BY DEF Runtime!Init, Runtime!LegacyLogs
  <1>2. /\ IsSeq(log)
        /\ \A i \in DOMAIN log : log[i].type \in {"campaign_configured", "worker_registered", "job_enqueued", "other"}
        /\ \A i, k \in DOMAIN log : log[i].type = "campaign_configured" /\ log[k].type = "campaign_configured" => i = k
    BY <1>1, RuntimeAssumption DEF Runtime!ScopesAssumption, Runtime!LegacyLogAssumption, IsSeq
  <1>3. EventsOf("runtime_plan_bound") = {} /\ Runtime!Bound = {}
    BY <1>2 DEF EventsOf, Runtime!Bound, Runtime!Values
  <1>4. LogOK
    BY <1>2, <1>3 DEF LogOK, EventsOf, Runtime!JobsFollowPlan
  <1>5. Len(log) \in Nat /\ Runtime!MaxFaults \in Nat
    BY <1>1, <1>2, AppendFacts, PlanFacts
  <1>6. BuildersType
    BY <1>1, <1>2, <1>5 DEF Runtime!Init, BuildersType
  <1>7. \A b \in Runtime!Builders : BuilderOK(b)
    BY DEF Runtime!Init, BuilderOK
  <1> QED BY <1>4, <1>6, <1>7 DEF RuntimeIInv

LEMMA RuntimeStep == RuntimeIInv /\ [Runtime!Next]_<<Runtime!vars, campaign>> => RuntimeIInv'
  <1> SUFFICES ASSUME RuntimeIInv, [Runtime!Next]_<<Runtime!vars, campaign>> PROVE RuntimeIInv'
    OBVIOUS
  <1>1. CASE UNCHANGED <<Runtime!vars, campaign>>
    BY <1>1, CampaignStays
       DEF Runtime!vars, RuntimeIInv, BuildersType, LogOK, BuilderOK, EventsOf, Runtime!Bound, Runtime!JobsFollowPlan
  <1>2. ASSUME NEW b \in Runtime!Builders, campaign' = campaign,
               Runtime!Build(b) \/ Runtime!Work(b) \/ Runtime!Crash(b) \/ \E p \in Runtime!Plans : Runtime!Start(b, p)
        PROVE  RuntimeIInv'
    BY <1>2, ConfigureStep, ValidateStep, BindStep, RegisterStep, EnqueueNextStep, ReturnStep, WorkStep, StartAndCrashStep
       DEF Runtime!Build
  <1>3. CASE Runtime!Settled /\ campaign' = campaign
    BY <1>1, <1>3 DEF Runtime!Settled
  <1> QED BY <1>1, <1>2, <1>3 DEF Runtime!Next

\* Of several that are alike there is one at most.
LEMMA AtMostOne ==
    ASSUME NEW S, \A i, k \in S : i = k
    PROVE  Cardinality(S) <= 1
  <1>1. CASE S = {}
    BY <1>1, FS_EmptySet
  <1>2. CASE S # {}
    <2>1. PICK x : S = {x}
      BY <1>2
    <2> QED BY <2>1, FS_Singleton
  <1> QED BY <1>1, <1>2

LEMMA RuntimeImplied == RuntimeIInv => RuntimeInv
  <1> SUFFICES ASSUME RuntimeIInv PROVE RuntimeInv
    OBVIOUS
  <1>1. /\ BuildersType /\ LogOK /\ IsSeq(log) /\ Len(log) \in Nat
        /\ \A b \in Runtime!Builders : BuilderOK(b)
    BY AppendFacts DEF RuntimeIInv, BuildersType
  <1>2. Runtime!TypeOK
    <2>1. view \in [Runtime!Builders -> 0 .. Len(log)]
      BY <1>1 DEF BuildersType
    <2> QED BY <1>1, <2>1 DEF BuildersType, LogOK, Runtime!TypeOK
  <1>3. Runtime!OnePlanPerLog
    BY <1>1, AtMostOne, RuntimeCounts DEF LogOK, EventsOf, Runtime!OnePlanPerLog
  <1>4. Runtime!JobsFollowPlan
    BY <1>1 DEF LogOK
  <1>5. ASSUME NEW b \in Runtime!Builders, builder_pc[b] = "built"
        PROVE  /\ Runtime!Bound = {plan[b]} /\ Runtime!Values(log, "campaign_configured") = {plan[b].budget}
               /\ Runtime!Follows(log, plan[b]) /\ Runtime!Cardinality(Runtime!JobEvents(log)) = Len(plan[b].jobs)
    <2>1. /\ plan[b] \in Runtime!Plans /\ plan[b] \in Runtime!Bound
          /\ plan[b].budget \in Runtime!Values(log, "campaign_configured")
          /\ next_job[b] \in Nat /\ next_job[b] > Len(plan[b].jobs)
          /\ \A n \in DOMAIN plan[b].jobs : n < next_job[b] => plan[b].jobs[n] \in Runtime!Values(log, "job_enqueued")
      BY <1>1, <1>5 DEF BuilderOK, BuildersType
    <2>2. Runtime!Bound = {plan[b]} /\ Runtime!Values(log, "campaign_configured") = {plan[b].budget}
      BY <1>1, <2>1 DEF LogOK, EventsOf, Runtime!Bound, Runtime!Values
    <2>3. Runtime!Follows(log, plan[b])
      BY <1>4, <2>1 DEF Runtime!JobsFollowPlan
    <2>4. PICK p, N : p = plan[b] /\ N = Cardinality(Runtime!JobEvents(log))
      OBVIOUS
    <2>5. /\ Len(p.jobs) \in Nat /\ DOMAIN p.jobs = 1 .. Len(p.jobs)
          /\ \A i, k \in DOMAIN p.jobs : p.jobs[i].key = p.jobs[k].key => i = k
      BY <1>1, <2>1, <2>4, PlanFacts DEF BuildersType
    <2>6. N \in Nat /\ \A i \in Runtime!JobEvents(log) : Runtime!Rank(log, i) \in 1 .. N
      BY <1>1, <2>4, RankFacts
    <2>7. ASSUME N # 0 PROVE N <= Len(p.jobs)
      <3>1. N \in 1 .. Cardinality(Runtime!JobEvents(log))
        BY <2>4, <2>6, <2>7
      <3>2. PICK i \in Runtime!JobEvents(log) : Runtime!Rank(log, i) = N
        BY <1>1, <3>1, EveryRank
      <3> QED BY <2>3, <2>4, <2>5, <3>2 DEF Runtime!Follows
    <2>8. ASSUME Len(p.jobs) # 0 PROVE Len(p.jobs) <= N
      <3>1. Len(p.jobs) \in DOMAIN p.jobs /\ Len(p.jobs) < next_job[b]
        BY <2>1, <2>4, <2>5, <2>8
      <3>2. p.jobs[Len(p.jobs)] \in Runtime!Values(log, "job_enqueued")
        BY <2>1, <2>4, <3>1
      <3>3. PICK i \in Runtime!JobEvents(log) : log[i].value = p.jobs[Len(p.jobs)]
        BY <3>2 DEF Runtime!Values, Runtime!JobEvents
      <3>4. Runtime!Rank(log, i) = Len(p.jobs)
        BY <2>3, <2>4, <2>5, <3>1, <3>3 DEF Runtime!Follows
      <3> QED BY <2>6, <3>3, <3>4
    <2>9. N = Len(p.jobs)
      BY <2>5, <2>6, <2>7, <2>8
    <2> QED BY <2>2, <2>3, <2>4, <2>9, RuntimeCounts
  <1>6. Runtime!BuiltIsPlanned
    BY <1>5 DEF Runtime!BuiltIsPlanned
  <1> QED BY <1>2, <1>3, <1>4, <1>6 DEF RuntimeInv, Runtime!RuntimeInv

\* Whoever races, dies or is refused between reading the log and appending to it: a log is bound to one plan and one
\* budget, its jobs are those of the plan in order, and a runtime that was returned has all of them; for any builders,
\* plans and legacy logs.
THEOREM RuntimeSafe == Runtime!Spec => []RuntimeInv
  BY RuntimeInit, RuntimeStep, RuntimeImplied, PTL DEF Runtime!Spec
=============================================================================
