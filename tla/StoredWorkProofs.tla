--------------------------- MODULE StoredWorkProofs ---------------------------
(***************************************************************************)
(* Proofs about StoredWork.  Missions and the campaigns over them, for     *)
(* every scope: any number of processes, steps, crashes and restores.  The *)
(* task queue, for any number of tasks, runners, attempts, crashes, faults *)
(* and slow tasks.                                                         *)
(***************************************************************************)
EXTENDS StoredWork, FiniteSetTheorems, TLAPS

-----------------------------------------------------------------------------
(* Missions.                                                               *)

Bound == MaxSteps + Cardinality(Runners) - 1
StepStatuses == {"completed", "failed", "blocked"}
SubgoalStatuses == {"pending", "active", "completed", "failed", "skipped"}
Closed(gs) == Cardinality({s \in Subgoals : gs[s] = "completed"})
Done(ss) == Cardinality({i \in DOMAIN ss : ss[i] = "completed"})

\* A process that has begun a step has a round of its loop left.
Stepping == {"stepping", "budgeting", "executing", "closing", "advancing", "marking", "rebudgeting", "verifying",
             "validating", "recording"}
Labels == {"off", "round", "setting", "writing", "completing", "saving"} \cup Stepping

Shots == [read : 1 .. 4, status : MissionStatuses, steps : Seq(StepStatuses),
          subgoals : [Subgoals -> SubgoalStatuses], passed : BOOLEAN, latest : Results \cup {None}]

LocalType ==
    /\ pc \in [Procs -> Labels] /\ iter \in [Procs -> 0 .. MaxIterations]
    /\ want \in [Procs -> MissionStatuses \cup {None}]
    /\ outcome \in [Procs -> StepStatuses \cup Results \cup {None}]
    /\ shot \in [Procs -> Shots \cup {None}]
    /\ crashes \in Nat /\ checkpoint \in Shots \cup {None}

\* What a process knows where it is.  Nobody but a verified run sets a mission to completed.
LocalOK(p) ==
    /\ p \notin Runners => pc[p] \in {"off", "setting", "writing"}
    /\ pc[p] \in {"setting", "writing"} => want[p] \in MissionStatuses \ {"completed"}
    /\ pc[p] \in Stepping => iter[p] < MaxIterations
    /\ pc[p] = "closing" => outcome[p] = "completed"
    /\ pc[p] = "advancing" => outcome[p] \in StepStatuses
    /\ pc[p] = "marking" => outcome[p] \in {"failed", "blocked"}
    /\ pc[p] \in {"validating", "recording"} => outcome[p] \in Results
    /\ pc[p] = "completing" => passed

\* A checkpoint that is being collected: the verifications, read last, can only have gained a pass.
ShotOK(p) ==
    shot[p] # None =>
        /\ pc[p] = "saving" /\ shot[p].read <= 3
        /\ shot[p].status = "completed" => passed
        /\ Len(shot[p].steps) <= Bound
        /\ scope.Serial => /\ shot[p].read >= 2 => shot[p].steps = steps
                           /\ shot[p].read >= 3 => shot[p].subgoals = subgoals

CheckpointOK ==
    checkpoint # None =>
        /\ checkpoint.status = "completed" => checkpoint.passed
        /\ Len(checkpoint.steps) <= Bound
        /\ scope.Serial => Closed(checkpoint.subgoals) <= Done(checkpoint.steps) + crashes

\* Every runner that has looked at the budget may add a step.
Budgeted == {p \in Runners : pc[p] \in {"executing", "closing", "advancing"}}
BudgetOK == Len(steps) + Cardinality(Budgeted) <= Bound

\* Without a database nobody is at work, and there is a checkpoint to begin with.
LostOK == status = None => checkpoint # None /\ \A p \in Procs : pc[p] = "off"

\* Where one process works at a time, the status is as it was read.
SerialOK ==
    scope.Serial => /\ \A p, q \in Procs : pc[p] # "off" /\ pc[q] # "off" => p = q
                    /\ \A p \in Procs : pc[p] = "writing" => can_transition_mission_status(status, want[p])

\* There too, a subgoal that was closed has its step, or will have it; a step that is to be marked as failed
\* is no subgoal's.
AdvancingOne == IF \E p \in Procs : pc[p] = "advancing" /\ outcome[p] = "completed" THEN 1 ELSE 0
MarkingOne == IF \E p \in Procs : pc[p] = "marking" THEN 1 ELSE 0
AccountOK == scope.Serial => Closed(subgoals) + MarkingOne <= Done(steps) + crashes + AdvancingOne

MissionIInv ==
    /\ scope \in Scopes /\ TypeOK /\ LocalType /\ CompletedIsVerified
    /\ \A p \in Procs : LocalOK(p) /\ ShotOK(p)
    /\ CheckpointOK /\ BudgetOK /\ LostOK /\ SerialOK /\ AccountOK

-----------------------------------------------------------------------------
(* What a scope says, and how subgoals, steps and runners are counted.     *)

LEMMA MissionScope ==
    ASSUME scope \in Scopes
    PROVE  /\ IsFiniteSet(Runners) /\ Cardinality(Runners) \in Nat /\ IsFiniteSet(Subgoals) /\ Subgoals \subseteq Nat
           /\ IsFiniteSet(Procs) /\ MaxSteps \in Nat \ {0} /\ MaxIterations \in Nat \ {0} /\ Bound \in Nat
           /\ Outcomes \subseteq StepStatuses /\ Verdicts \subseteq Results /\ None \notin MissionStatuses
  <1>1. /\ IsFiniteSet(Runners) /\ IsFiniteSet(Operators) /\ IsFiniteSet(Subgoals) /\ Subgoals \subseteq Nat
        /\ MaxSteps \in Nat \ {0} /\ MaxIterations \in Nat \ {0}
        /\ Outcomes \subseteq StepStatuses /\ Verdicts \subseteq Results /\ None \notin MissionStatuses
    BY MissionAssumption DEF Runners, Operators, Subgoals, MaxSteps, MaxIterations, Outcomes, Verdicts, StepStatuses
  <1>2. IsFiniteSet(Procs)
    BY <1>1, FS_Union DEF Procs
  <1>3. Cardinality(Runners) \in Nat
    BY <1>1, FS_CardinalityType
  <1>4. Bound \in Nat
    BY <1>1, <1>3 DEF Bound
  <1> QED BY <1>1, <1>2, <1>3, <1>4

\* The scope stays, and with it what it determines.
LEMMA MissionStays ==
    ASSUME scope' = scope
    PROVE  /\ Procs' = Procs /\ Runners' = Runners /\ Operators' = Operators /\ Subgoals' = Subgoals
           /\ MaxSteps' = MaxSteps /\ MaxIterations' = MaxIterations /\ Bound' = Bound
  BY DEF Procs, Runners, Operators, Subgoals, MaxSteps, MaxIterations, Bound

LEMMA ClosedCounts ==
    ASSUME scope \in Scopes, NEW gs \in [Subgoals -> SubgoalStatuses]
    PROVE  /\ Closed(gs) \in Nat
           /\ \A s : Closed([gs EXCEPT ![s] = "completed"]) <= Closed(gs) + 1
  <1> DEFINE C == {s \in Subgoals : gs[s] = "completed"}
  <1>1. IsFiniteSet(C) /\ Cardinality(C) \in Nat
    BY MissionScope, FS_Subset, FS_CardinalityType
  <1>2. ASSUME NEW s PROVE Closed([gs EXCEPT ![s] = "completed"]) <= Closed(gs) + 1
    <2> DEFINE D == {u \in Subgoals : [gs EXCEPT ![s] = "completed"][u] = "completed"}
    <2>1. D \subseteq C \cup {s}
      OBVIOUS
    <2>4. IsFiniteSet(C \cup {s}) /\ Cardinality(C \cup {s}) \in Nat
      BY <1>1, FS_AddElement, FS_CardinalityType
    <2>5. Cardinality(D) <= Cardinality(C \cup {s}) /\ IsFiniteSet(D)
      BY <2>1, <2>4, FS_Subset
    <2>6. Cardinality(D) \in Nat
      BY <2>5, FS_CardinalityType
    <2>2. Cardinality(C \cup {s}) <= Cardinality(C) + 1
      <3> HIDE DEF C
      <3>1. Cardinality(C \cup {s}) = IF s \in C THEN Cardinality(C) ELSE Cardinality(C) + 1
        BY <1>1, FS_AddElement
      <3> QED BY <1>1, <3>1
    <2>3. Closed([gs EXCEPT ![s] = "completed"]) = Cardinality(D) /\ Closed(gs) = Cardinality(C)
      BY DEF Closed
    <2> HIDE DEF C, D
    <2> QED BY <1>1, <2>2, <2>3, <2>4, <2>5, <2>6
  <1> QED BY <1>1, <1>2 DEF Closed

LEMMA DoneCounts ==
    ASSUME NEW ss \in Seq(StepStatuses)
    PROVE  /\ Done(ss) \in Nat
           /\ Done(Append(ss, "completed")) = Done(ss) + 1
           /\ \A i : \A x \in StepStatuses : /\ [ss EXCEPT ![i] = x] \in Seq(StepStatuses)
                                            /\ Len([ss EXCEPT ![i] = x]) = Len(ss)
                                            /\ Done(ss) <= Done([ss EXCEPT ![i] = x]) + 1
  <1> DEFINE C == {i \in DOMAIN ss : ss[i] = "completed"}
  <1>1. DOMAIN ss = 1 .. Len(ss) /\ Len(ss) \in Nat
    OBVIOUS
  <1>2. IsFiniteSet(C) /\ Cardinality(C) \in Nat
    <2>1. C \subseteq 1 .. Len(ss)
      BY <1>1
    <2> HIDE DEF C
    <2>8. IsFiniteSet(1 .. Len(ss))
      BY <1>1, FS_Interval
    <2>9. IsFiniteSet(C)
      BY <2>1, <2>8, FS_Subset
    <2> QED BY <2>9, FS_CardinalityType
  <1>3. Done(Append(ss, "completed")) = Done(ss) + 1
    <2> DEFINE D == {i \in DOMAIN Append(ss, "completed") : Append(ss, "completed")[i] = "completed"}
    <2>1. D = C \cup {Len(ss) + 1}
      BY <1>1
    <2>2. Len(ss) + 1 \notin C
      BY <1>1
    <2>3. Cardinality(C \cup {Len(ss) + 1}) = Cardinality(C) + 1
      BY <1>2, <2>2, FS_AddElement
    <2>4. Done(Append(ss, "completed")) = Cardinality(D) /\ Done(ss) = Cardinality(C)
      BY DEF Done
    <2> QED BY <2>1, <2>3, <2>4
  <1>5. ASSUME NEW i, NEW x \in StepStatuses
        PROVE  [ss EXCEPT ![i] = x] \in Seq(StepStatuses) /\ Len([ss EXCEPT ![i] = x]) = Len(ss)
    <2> DEFINE t == [ss EXCEPT ![i] = x]
    <2>1. t \in [1 .. Len(ss) -> StepStatuses]
      <3>1. ss \in [1 .. Len(ss) -> StepStatuses]
        OBVIOUS
      <3> DEFINE I == 1 .. Len(ss)
      <3> HIDE DEF I
      <3>2. ASSUME NEW f \in [I -> StepStatuses] PROVE [f EXCEPT ![i] = x] \in [I -> StepStatuses]
        OBVIOUS
      <3> QED BY <3>1, <3>2 DEF I
    <2> HIDE DEF t
    <2>2. t \in Seq(StepStatuses) /\ Len(t) = Len(ss)
      BY <1>1, <2>1
    <2> QED BY <2>2 DEF t
  <1>4. ASSUME NEW i, NEW x \in StepStatuses PROVE Done(ss) <= Done([ss EXCEPT ![i] = x]) + 1
    <2> DEFINE t == [ss EXCEPT ![i] = x]
               D == {k \in DOMAIN t : t[k] = "completed"}
    <2>1. C \ {i} \subseteq D
      OBVIOUS
    <2>2. DOMAIN t = 1 .. Len(ss)
      BY <1>1
    <2>3. IsFiniteSet(D) /\ Cardinality(D) \in Nat
      <3>1. D \subseteq 1 .. Len(ss)
        BY <2>2
      <3> HIDE DEF D
      <3>8. IsFiniteSet(1 .. Len(ss))
        BY <1>1, FS_Interval
      <3>9. IsFiniteSet(D)
        BY <3>1, <3>8, FS_Subset
      <3> QED BY <3>9, FS_CardinalityType
    <2>4. Cardinality(C \ {i}) <= Cardinality(D)
      BY <2>1, <2>3, FS_Subset
    <2>5. Cardinality(C) <= Cardinality(C \ {i}) + 1
      <3> HIDE DEF C
      <3>1. Cardinality(C \ {i}) = IF i \in C THEN Cardinality(C) - 1 ELSE Cardinality(C)
        BY <1>2, FS_RemoveElement
      <3> QED BY <1>2, <3>1
    <2>6. IsFiniteSet(C \ {i}) /\ Cardinality(C \ {i}) \in Nat
      BY <1>2, FS_Subset, FS_CardinalityType
    <2>7. Done(t) = Cardinality(D) /\ Done(ss) = Cardinality(C)
      BY DEF Done
    <2> HIDE DEF C, D, t
    <2>8. Cardinality(C) <= Cardinality(D) + 1
      BY <1>2, <2>3, <2>4, <2>5, <2>6
    <2> QED BY <2>7, <2>8 DEF t
  <1> QED BY <1>2, <1>3, <1>4, <1>5 DEF Done

LEMMA NothingCounts ==
    ASSUME scope \in Scopes
    PROVE  Done(<<>>) = 0 /\ Closed(Fresh) = 0 /\ Fresh \in [Subgoals -> SubgoalStatuses]
  <1>1. {i \in DOMAIN <<>> : <<>>[i] = "completed"} = {} /\ {s \in Subgoals : Fresh[s] = "completed"} = {}
    BY DEF Fresh
  <1> QED BY <1>1, FS_EmptySet DEF Done, Closed, Fresh, SubgoalStatuses

\* One process at a time.
LEMMA OneFact ==
    ASSUME scope \in Scopes, scope' = scope, OneAtATime
    PROVE  \A p, q \in Procs : pc'[p] # "off" /\ pc'[q] # "off" => p = q
  <1> DEFINE B == {p \in Procs : pc'[p] # "off"}
  <1>1. IsFiniteSet(B) /\ Cardinality(B) <= 1
    <2>1. Cardinality({p \in Procs : pc'[p] # "off"}) <= 1
      BY DEF OneAtATime
    <2> QED BY <2>1, MissionScope, FS_Subset
  <1> SUFFICES ASSUME NEW p \in B, NEW q \in B, p # q PROVE FALSE
    OBVIOUS
  <1> HIDE DEF B
  <1>2. IsFiniteSet({p}) /\ Cardinality({p}) = 1
    BY FS_Singleton
  <1>3. IsFiniteSet({p} \cup {q}) /\ Cardinality({p} \cup {q}) = 2
    <2>1. q \notin {p}
      OBVIOUS
    <2>2. Cardinality({p} \cup {q}) = Cardinality({p}) + 1
      BY <1>2, <2>1, FS_AddElement
    <2> QED BY <1>2, <2>2, FS_AddElement
  <1>4. Cardinality({p} \cup {q}) <= Cardinality(B) /\ Cardinality(B) \in Nat
    BY <1>1, FS_Subset, FS_CardinalityType
  <1> QED BY <1>1, <1>3, <1>4

-----------------------------------------------------------------------------
(* A step of one process.                                                  *)

Adv(p) == IF pc[p] = "advancing" /\ outcome[p] = "completed" THEN 1 ELSE 0
Mark(p) == IF pc[p] = "marking" THEN 1 ELSE 0
Plans(p) == p \in Runners /\ pc[p] \in {"executing", "closing", "advancing"}

\* What the others hold stays.
OthersStay(p) ==
    \A q \in Procs \ {p} : /\ pc'[q] = pc[q] /\ iter'[q] = iter[q] /\ want'[q] = want[q]
                           /\ outcome'[q] = outcome[q] /\ shot'[q] = shot[q]

\* Where one process works at a time, it is alone.
LEMMA Alone ==
    ASSUME MissionIInv, scope' = scope, scope.Serial, OneAtATime, NEW p \in Procs, OthersStay(p),
           pc[p] # "off" \/ pc'[p] # "off"
    PROVE  /\ \A q \in Procs \ {p} : pc[q] = "off" /\ pc'[q] = "off"
           /\ AdvancingOne = Adv(p) /\ AdvancingOne' = Adv(p)' /\ MarkingOne = Mark(p) /\ MarkingOne' = Mark(p)'
  <1>0. \A q, r \in Procs : pc'[q] # "off" /\ pc'[r] # "off" => q = r
    BY OneFact DEF MissionIInv
  <1>1. \A q \in Procs \ {p} : pc[q] = "off" /\ pc'[q] = "off"
    BY <1>0 DEF MissionIInv, SerialOK, OthersStay
  <1>2. Procs' = Procs
    BY MissionStays
  <1>3. AdvancingOne = Adv(p) /\ MarkingOne = Mark(p)
    BY <1>1 DEF AdvancingOne, MarkingOne, Adv, Mark
  <1>4. AdvancingOne' = Adv(p)' /\ MarkingOne' = Mark(p)'
    BY <1>1, <1>2 DEF AdvancingOne, MarkingOne, Adv, Mark
  <1> QED BY <1>1, <1>3, <1>4

LEMMA BudgetedCounts ==
    ASSUME MissionIInv
    PROVE  IsFiniteSet(Budgeted) /\ Cardinality(Budgeted) \in Nat /\ Len(steps) \in Nat
  <1>1. Budgeted \subseteq Runners
    BY DEF Budgeted
  <1> QED BY <1>1, MissionScope, FS_Subset, FS_CardinalityType DEF MissionIInv, TypeOK

\* The budget: a process that plans a step has looked at it; one that takes the step no longer plans it.
LEMMA BudgetFrame ==
    ASSUME MissionIInv, scope' = scope, NEW p \in Procs, OthersStay(p), steps' \in Seq(StepStatuses),
           \/ steps' = steps /\ (Plans(p)' => Plans(p) \/ Len(steps) < MaxSteps)
           \/ Len(steps') = Len(steps) + 1 /\ Plans(p) /\ ~Plans(p)'
           \/ Len(steps') = Len(steps) /\ ~Plans(p)'
    PROVE  BudgetOK'
  <1>0. /\ Runners' = Runners /\ Procs' = Procs /\ Bound' = Bound /\ Bound \in Nat /\ Runners \subseteq Procs
        /\ IsFiniteSet(Runners) /\ Cardinality(Runners) \in Nat /\ MaxSteps \in Nat \ {0}
    BY MissionStays, MissionScope DEF MissionIInv, Procs
  <1>1. IsFiniteSet(Budgeted) /\ Cardinality(Budgeted) \in Nat /\ Len(steps) \in Nat
    BY BudgetedCounts
  <1>2. Len(steps) + Cardinality(Budgeted) <= Bound
    BY DEF MissionIInv, BudgetOK
  <1>3. Budgeted' \subseteq Runners /\ IsFiniteSet(Budgeted') /\ Cardinality(Budgeted') \in Nat /\ Cardinality(Budgeted') <= Cardinality(Runners)
    <2>1. Budgeted' \subseteq Runners
      BY <1>0 DEF Budgeted
    <2> QED BY <1>0, <2>1, FS_Subset, FS_CardinalityType
  <1>4. \A q \in Runners \ {p} : q \in Budgeted' <=> q \in Budgeted
    BY <1>0 DEF OthersStay, Budgeted
  <1>5. (p \in Budgeted <=> Plans(p)) /\ (p \in Budgeted' <=> Plans(p)')
    BY <1>0 DEF Budgeted, Plans
  <1>6. Budgeted \subseteq Runners
    BY DEF Budgeted
  <1> HIDE DEF Budgeted
  <1>7. CASE steps' = steps /\ (Plans(p)' => Plans(p))
    <2>1. Budgeted' \subseteq Budgeted
      BY <1>3, <1>4, <1>5, <1>7
    <2>2. Cardinality(Budgeted') <= Cardinality(Budgeted)
      BY <1>1, <2>1, FS_Subset
    <2> QED BY <1>0, <1>1, <1>2, <1>3, <1>7, <2>2 DEF BudgetOK
  <1>8. CASE steps' = steps /\ Len(steps) < MaxSteps
    <2>1. Len(steps) + Cardinality(Budgeted') <= MaxSteps - 1 + Cardinality(Runners)
      BY <1>0, <1>1, <1>3, <1>8
    <2>2. Bound = MaxSteps + Cardinality(Runners) - 1
      BY DEF Bound
    <2> QED BY <1>0, <1>1, <1>3, <1>8, <2>1, <2>2 DEF BudgetOK
  <1>9. CASE Len(steps') = Len(steps) + 1 /\ Plans(p) /\ ~Plans(p)'
    <2>1. Budgeted' = Budgeted \ {p} /\ p \in Budgeted
      BY <1>3, <1>4, <1>5, <1>6, <1>9
    <2>2. Cardinality(Budgeted') = Cardinality(Budgeted) - 1
      BY <1>1, <2>1, FS_RemoveElement
    <2> QED BY <1>0, <1>1, <1>2, <1>3, <1>9, <2>2 DEF BudgetOK
  <1>10. CASE Len(steps') = Len(steps) /\ ~Plans(p)'
    <2>1. Budgeted' \subseteq Budgeted
      BY <1>3, <1>4, <1>5, <1>10
    <2>2. Cardinality(Budgeted') <= Cardinality(Budgeted)
      BY <1>1, <2>1, FS_Subset
    <2> QED BY <1>0, <1>1, <1>2, <1>3, <1>10, <2>2 DEF BudgetOK
  <1> QED BY <1>7, <1>8, <1>9, <1>10

\* The account: what a step adds to the closed subgoals it must add to the steps, or to what is owed.
LEMMA WorkFrame ==
    ASSUME MissionIInv, scope' = scope, scope.Serial => OneAtATime, NEW p \in Procs, OthersStay(p),
           pc[p] # "off" \/ (pc'[p] # "off" /\ UNCHANGED <<steps, subgoals>>),
           TypeOK', LocalType', CompletedIsVerified', CheckpointOK', BudgetOK', status' # None, passed => passed',
           LocalOK(p)', ShotOK(p)',
           scope.Serial => /\ Closed(subgoals)' + Mark(p)' + Done(steps) + crashes + Adv(p)
                                <= Closed(subgoals) + Mark(p) + Done(steps)' + crashes' + Adv(p)'
                           /\ pc'[p] = "writing" => can_transition_mission_status(status, want[p])'
    PROVE  MissionIInv'
  <1>0. /\ Procs' = Procs /\ Runners' = Runners /\ Subgoals' = Subgoals /\ Bound' = Bound /\ MaxIterations' = MaxIterations
        /\ crashes \in Nat /\ crashes' \in Nat
    BY MissionStays DEF MissionIInv, LocalType
  <1>1. scope.Serial => \A q \in Procs \ {p} : pc[q] = "off" /\ pc'[q] = "off"
    BY Alone
  <1>2. ASSUME NEW q \in Procs, q # p PROVE LocalOK(q)' /\ ShotOK(q)'
    <2>1. /\ pc'[q] = pc[q] /\ iter'[q] = iter[q] /\ want'[q] = want[q]
          /\ outcome'[q] = outcome[q] /\ shot'[q] = shot[q]
      BY <1>2 DEF OthersStay
    <2>2. LocalOK(q) /\ ShotOK(q)
      BY DEF MissionIInv
    <2>3. LocalOK(q)'
      BY <1>0, <2>1, <2>2 DEF LocalOK
    <2>4. ShotOK(q)'
      BY <1>0, <1>1, <1>2, <2>1, <2>2 DEF ShotOK
    <2> QED BY <2>3, <2>4
  <1>3. LostOK'
    BY DEF LostOK
  <1>4. SerialOK'
    BY <1>0, <1>1 DEF SerialOK
  <1>5. AccountOK'
    <2> SUFFICES ASSUME scope.Serial PROVE Closed(subgoals)' + MarkingOne' <= Done(steps)' + crashes' + AdvancingOne'
      BY DEF AccountOK
    <2>1. AdvancingOne = Adv(p) /\ AdvancingOne' = Adv(p)' /\ MarkingOne = Mark(p) /\ MarkingOne' = Mark(p)'
      BY Alone
    <2>2. Closed(subgoals) + Mark(p) <= Done(steps) + crashes + Adv(p)
      BY <2>1 DEF MissionIInv, AccountOK
    <2>3. Closed(subgoals) \in Nat /\ Done(steps) \in Nat
      BY ClosedCounts, DoneCounts DEF MissionIInv, TypeOK, SubgoalStatuses, StepStatuses
    <2>4. Closed(subgoals)' \in Nat /\ Done(steps)' \in Nat
      <3>1. subgoals' \in [Subgoals -> SubgoalStatuses] /\ steps' \in Seq(StepStatuses)
        BY <1>0 DEF TypeOK, SubgoalStatuses, StepStatuses
      <3>2. Closed(subgoals') \in Nat /\ Done(steps') \in Nat
        BY <3>1, ClosedCounts, DoneCounts DEF MissionIInv
      <3> QED BY <1>0, <3>2 DEF Closed, Done
    <2>5. {Adv(p), Adv(p)', Mark(p), Mark(p)'} \subseteq 0 .. 1
      BY DEF Adv, Mark
    <2> QED BY <1>0, <2>1, <2>2, <2>3, <2>4, <2>5
  <1> QED BY <1>0, <1>2, <1>3, <1>4, <1>5 DEF MissionIInv

\* A step that leaves the rows alone.
LEMMA QuietFrame ==
    ASSUME MissionIInv, scope' = scope, scope.Serial => OneAtATime, NEW p \in Procs, OthersStay(p),
           UNCHANGED <<tables, checkpoint>>, crashes' \in Nat, crashes' >= crashes, LocalType',
           pc[p] # "off" \/ pc'[p] # "off", status # None,
           LocalOK(p)', ShotOK(p)', Plans(p)' => Plans(p) \/ Len(steps) < MaxSteps,
           scope.Serial => /\ Mark(p)' + crashes + Adv(p) <= Mark(p) + crashes' + Adv(p)'
                           /\ pc'[p] = "writing" => can_transition_mission_status(status, want'[p])
    PROVE  MissionIInv'
  <1> USE DEF tables
  <1>0. Procs' = Procs /\ Runners' = Runners /\ Subgoals' = Subgoals /\ Bound' = Bound /\ MaxIterations' = MaxIterations
    BY MissionStays
  <1>1. TypeOK'
    BY <1>0 DEF MissionIInv, TypeOK, LocalType
  <1>2. CompletedIsVerified'
    BY DEF MissionIInv, CompletedIsVerified
  <1>3. Closed(subgoals) \in Nat /\ Done(steps) \in Nat /\ Closed(subgoals)' = Closed(subgoals) /\ Done(steps)' = Done(steps)
    BY <1>0, ClosedCounts, DoneCounts DEF MissionIInv, TypeOK, SubgoalStatuses, StepStatuses, Closed, Done
  <1>4. CheckpointOK'
    <2> SUFFICES ASSUME checkpoint # None
                 PROVE  /\ checkpoint.status = "completed" => checkpoint.passed
                        /\ Len(checkpoint.steps) <= Bound
                        /\ scope.Serial => Closed(checkpoint.subgoals)' <= Done(checkpoint.steps)' + crashes'
      BY <1>0 DEF CheckpointOK
    <2>1. checkpoint \in Shots
      BY DEF MissionIInv, LocalType
    <2>2. Closed(checkpoint.subgoals) \in Nat /\ Done(checkpoint.steps) \in Nat
      BY <2>1, ClosedCounts, DoneCounts DEF Shots, MissionIInv
    <2>3. Closed(checkpoint.subgoals)' = Closed(checkpoint.subgoals) /\ Done(checkpoint.steps)' = Done(checkpoint.steps)
      BY <1>0 DEF Closed, Done
    <2>4. crashes \in Nat
      BY DEF MissionIInv, LocalType
    <2> QED BY <2>2, <2>3, <2>4 DEF MissionIInv, CheckpointOK
  <1>5. BudgetOK'
    <2>1. steps' \in Seq(StepStatuses)
      BY <1>1 DEF TypeOK, StepStatuses
    <2> QED BY <2>1, BudgetFrame
  <1>6. scope.Serial => /\ Closed(subgoals)' + Mark(p)' + Done(steps) + crashes + Adv(p)
                                <= Closed(subgoals) + Mark(p) + Done(steps)' + crashes' + Adv(p)'
                        /\ pc'[p] = "writing" => can_transition_mission_status(status, want[p])'
    <2>1. {Adv(p), Adv(p)', Mark(p), Mark(p)'} \subseteq 0 .. 1 /\ crashes \in Nat
      BY DEF Adv, Mark, MissionIInv, LocalType
    <2>2. scope.Serial => (pc'[p] = "writing" => can_transition_mission_status(status, want[p])')
      BY DEF can_transition_mission_status
    <2> QED BY <1>3, <2>1, <2>2
  <1> QED BY <1>1, <1>2, <1>4, <1>5, <1>6, WorkFrame

\* A process that is gone.
LEMMA ExitFacts ==
    ASSUME MissionIInv, scope' = scope, NEW p \in Procs, Exit(p), crashes' \in Nat, checkpoint' \in Shots \cup {None}
    PROVE  /\ LocalType' /\ LocalOK(p)' /\ ShotOK(p)' /\ OthersStay(p) /\ pc'[p] = "off"
           /\ Adv(p)' = 0 /\ Mark(p)' = 0 /\ ~Plans(p)'
  <1>0. Procs' = Procs /\ Runners' = Runners /\ Subgoals' = Subgoals /\ Bound' = Bound /\ MaxIterations' = MaxIterations
    BY MissionStays
  <1>1. LocalType /\ MaxIterations \in Nat
    BY MissionScope DEF MissionIInv
  <1>2. LocalType'
    BY <1>0, <1>1 DEF LocalType, Exit, Goto, Labels, Shots
  <1>3. pc'[p] = "off" /\ shot'[p] = None
    BY <1>1 DEF Exit, Goto, LocalType
  <1>4. OthersStay(p)
    BY <1>1 DEF OthersStay, Exit, Goto, LocalType
  <1> QED BY <1>2, <1>3, <1>4 DEF LocalOK, ShotOK, Stepping, Adv, Mark, Plans

\* Nobody works where there is no mission.
LEMMA Working ==
    ASSUME MissionIInv, NEW p \in Procs, pc[p] # "off"
    PROVE  status # None /\ status \in MissionStatuses
  BY DEF MissionIInv, LostOK, TypeOK

LEMMA StartSteps ==
    ASSUME MissionIInv, scope' = scope, scope.Serial => OneAtATime, NEW p \in Procs,
           Launch(p) \/ \E s \in {"paused", "active", "canceled"} : Ask(p, s)
    PROVE  MissionIInv'
  <1> USE DEF tables, local, bounds
  <1>0. Procs' = Procs /\ Runners' = Runners /\ Subgoals' = Subgoals /\ Bound' = Bound /\ MaxIterations' = MaxIterations
    BY MissionStays
  <1>1. LocalType /\ LocalOK(p) /\ ShotOK(p)
    BY DEF MissionIInv
  <1>2. /\ UNCHANGED <<tables, checkpoint, iter, outcome, mine, shot, crashes>> /\ pc[p] = "off" /\ status # None
        /\ \/ p \in Runners /\ pc' = [pc EXCEPT ![p] = "round"] /\ want' = want
           \/ /\ pc' = [pc EXCEPT ![p] = "setting"]
              /\ \E s \in {"paused", "active", "canceled"} : want' = [want EXCEPT ![p] = s]
    BY DEF Launch, Ask, Set, Goto
  <1>3. LocalType'
    BY <1>0, <1>1, <1>2 DEF LocalType, Labels, Shots, MissionStatuses
  <1>4. OthersStay(p) /\ ((p \in Runners /\ pc'[p] = "round") \/ (pc'[p] = "setting" /\ want'[p] \in {"paused", "active", "canceled"}))
    BY <1>1, <1>2 DEF OthersStay, LocalType
  <1>5. LocalOK(p)' /\ ShotOK(p)'
    BY <1>0, <1>1, <1>2, <1>4 DEF LocalOK, ShotOK, Stepping, MissionStatuses
  <1>6. ~Plans(p)' /\ Mark(p)' = 0 /\ Mark(p) = 0 /\ Adv(p) = 0 /\ Adv(p)' = 0
    BY <1>2, <1>4 DEF Plans, Mark, Adv
  <1>7. crashes \in Nat
    BY <1>1 DEF LocalType
  <1> QED BY <1>2, <1>3, <1>4, <1>5, <1>6, <1>7, QuietFrame

LEMMA CrashStep ==
    ASSUME MissionIInv, scope' = scope, scope.Serial => OneAtATime, NEW p \in Procs, Crash(p)
    PROVE  MissionIInv'
  <1>1. UNCHANGED <<tables, checkpoint>> /\ pc[p] # "off" /\ crashes' = crashes + 1 /\ Exit(p)
    BY DEF Crash
  <1>2. crashes \in Nat /\ checkpoint \in Shots \cup {None}
    BY DEF MissionIInv, LocalType
  <1>3. /\ LocalType' /\ LocalOK(p)' /\ ShotOK(p)' /\ OthersStay(p) /\ pc'[p] = "off"
        /\ Adv(p)' = 0 /\ Mark(p)' = 0 /\ ~Plans(p)'
    <2>1. crashes' \in Nat /\ checkpoint' \in Shots \cup {None}
      BY <1>1, <1>2
    <2> QED BY <1>1, <2>1, ExitFacts
  <1>4. Adv(p) \in 0 .. 1 /\ Mark(p) \in 0 .. 1
    BY DEF Adv, Mark
  <1>5. Mark(p)' + crashes + Adv(p) <= Mark(p) + crashes' + Adv(p)'
    BY <1>1, <1>2, <1>3, <1>4
  <1> QED BY <1>1, <1>2, <1>3, <1>5, Working, QuietFrame

\* The steps of a run that only look.
LEMMA LookSteps ==
    ASSUME MissionIInv, scope' = scope, scope.Serial => OneAtATime, NEW p \in Procs,
           ReadStatus(p) \/ Round(p) \/ StartStep(p) \/ CheckBudget(p) \/ Validate(p)
    PROVE  MissionIInv'
  <1> USE DEF local
  <1>0. Procs' = Procs /\ Runners' = Runners /\ Subgoals' = Subgoals /\ Bound' = Bound /\ MaxIterations' = MaxIterations
    BY MissionStays
  <1>1. LocalType /\ LocalOK(p) /\ ShotOK(p) /\ MaxIterations \in Nat /\ crashes \in Nat /\ checkpoint \in Shots \cup {None}
    BY MissionScope DEF MissionIInv, LocalType
  <1>2. /\ UNCHANGED <<tables, checkpoint, crashes>>
        /\ pc[p] \in {"setting", "round", "stepping", "budgeting", "rebudgeting", "validating"}
    BY DEF ReadStatus, Round, StartStep, CheckBudget, Validate, bounds
  <1>3. Mark(p) = 0 /\ Adv(p) = 0 /\ ~Plans(p) /\ status # None
    BY <1>2, Working DEF Mark, Adv, Plans
  <1>4. CASE Exit(p)
    <2>1. crashes' \in Nat /\ checkpoint' \in Shots \cup {None}
      BY <1>1, <1>2
    <2>2. /\ LocalType' /\ LocalOK(p)' /\ ShotOK(p)' /\ OthersStay(p) /\ pc'[p] = "off"
          /\ Adv(p)' = 0 /\ Mark(p)' = 0 /\ ~Plans(p)'
      BY <1>4, <2>1, ExitFacts
    <2> QED BY <1>1, <1>2, <1>3, <2>2, QuietFrame
  <1>5. CASE ~Exit(p)
    <2>1. /\ UNCHANGED <<iter, outcome, mine, shot>>
          /\ \/ /\ pc[p] = "setting" /\ pc' = [pc EXCEPT ![p] = "writing"] /\ want' = want
                /\ can_transition_mission_status(status, want[p])
             \/ /\ pc[p] = "round" /\ pc' = [pc EXCEPT ![p] = "setting"] /\ want' = [want EXCEPT ![p] = "failed"]
             \/ /\ pc[p] = "round" /\ pc' = [pc EXCEPT ![p] = "saving"] /\ want' = want
             \/ /\ pc[p] = "round" /\ pc' = [pc EXCEPT ![p] = "stepping"] /\ want' = want /\ iter[p] # MaxIterations
             \/ /\ pc[p] = "stepping" /\ pc' = [pc EXCEPT ![p] = "budgeting"] /\ want' = want
             \/ /\ pc[p] = "stepping" /\ pc' = [pc EXCEPT ![p] = "saving"] /\ want' = want
             \/ /\ pc[p] \in {"budgeting", "rebudgeting"} /\ pc' = [pc EXCEPT ![p] = "setting"]
                /\ want' = [want EXCEPT ![p] = "budget_exhausted"]
             \/ /\ pc[p] = "budgeting" /\ pc' = [pc EXCEPT ![p] = "executing"] /\ want' = want /\ ~exhausted
             \/ /\ pc[p] = "rebudgeting" /\ pc' = [pc EXCEPT ![p] = "verifying"] /\ want' = want
             \/ /\ pc[p] = "validating" /\ pc' = [pc EXCEPT ![p] = "recording"] /\ want' = want
      <3>1. CASE ReadStatus(p)
        BY <1>5, <3>1 DEF ReadStatus, Goto
      <3>2. CASE Round(p)
        BY <3>2 DEF Round, Set, Goto
      <3>3. CASE StartStep(p)
        BY <3>3 DEF StartStep, Goto
      <3>4. CASE CheckBudget(p)
        BY <3>4 DEF CheckBudget, Set, Goto
      <3>5. CASE Validate(p)
        BY <1>5, <3>5 DEF Validate, Goto
      <3> QED BY <3>1, <3>2, <3>3, <3>4, <3>5
    <2>2. LocalType'
      <3>1. pc' \in [Procs -> Labels]
        BY <1>1, <2>1 DEF LocalType, Labels, Stepping
      <3>2. want' \in [Procs -> MissionStatuses \cup {None}]
        BY <1>1, <2>1 DEF LocalType, MissionStatuses
      <3>3. shot' \in [Procs' -> (Shots \cup {None})'] /\ checkpoint' \in (Shots \cup {None})'
        BY <1>0, <1>1, <1>2, <2>1 DEF LocalType, Shots
      <3> QED BY <1>0, <1>1, <1>2, <2>1, <3>1, <3>2, <3>3 DEF LocalType
    <2>3. OthersStay(p)
      BY <1>1, <2>1 DEF OthersStay, LocalType
    <2>4. LocalOK(p)' /\ ShotOK(p)'
      <3>1. pc'[p] \in {"writing", "setting", "saving", "stepping", "budgeting", "executing", "verifying", "recording"}
            /\ (pc'[p] \in {"writing", "setting"} => want'[p] \in MissionStatuses \ {"completed"})
            /\ (pc'[p] \in Stepping => iter[p] < MaxIterations)
            /\ (pc'[p] = "recording" => outcome[p] \in Results)
            /\ (p \notin Runners => pc'[p] \in {"off", "setting", "writing"})
        BY <1>1, <2>1 DEF LocalType, LocalOK, Stepping, MissionStatuses
      <3>2. shot[p] = None
        BY <1>1, <1>2 DEF ShotOK
      <3> QED BY <1>0, <2>1, <3>1, <3>2 DEF LocalOK, ShotOK
    <2>5. Mark(p)' = 0 /\ Adv(p)' = 0 /\ (Plans(p)' => Len(steps) < MaxSteps) /\ pc'[p] # "off"
          /\ (pc'[p] = "writing" => can_transition_mission_status(status, want'[p]))
      <3>1. Len(steps) \in Nat /\ MaxSteps \in Nat
        BY MissionScope DEF MissionIInv, TypeOK
      <3>2. ~exhausted => Len(steps) < MaxSteps
        BY <3>1 DEF exhausted
      <3>3. pc'[p] # "marking" /\ pc'[p] # "advancing" /\ pc'[p] # "closing" /\ pc'[p] # "off" /\ (pc'[p] = "executing" => ~exhausted)
        BY <1>1, <2>1 DEF LocalType
      <3>4. pc'[p] = "writing" => can_transition_mission_status(status, want'[p])
        BY <1>1, <2>1 DEF LocalType
      <3> QED BY <3>2, <3>3, <3>4 DEF Mark, Adv, Plans
    <2> QED BY <1>1, <1>2, <1>3, <2>2, <2>3, <2>4, <2>5, QuietFrame
  <1> QED BY <1>4, <1>5

\* The executor and the verifier.
LEMMA OutcomeSteps ==
    ASSUME MissionIInv, scope' = scope, scope.Serial => OneAtATime, NEW p \in Procs,
           (\E o \in Outcomes : Execute(p, o)) \/ (\E r \in Results : Verify(p, r))
    PROVE  MissionIInv'
  <1>0. Procs' = Procs /\ Runners' = Runners /\ Subgoals' = Subgoals /\ Bound' = Bound /\ MaxIterations' = MaxIterations
    BY MissionStays
  <1>1. /\ LocalType /\ LocalOK(p) /\ ShotOK(p) /\ MaxIterations \in Nat /\ crashes \in Nat /\ checkpoint \in Shots \cup {None}
        /\ Outcomes \subseteq StepStatuses
    BY MissionScope DEF MissionIInv, LocalType
  <1>2. /\ UNCHANGED <<tables, checkpoint, crashes, iter, want, shot>>
        /\ \/ /\ pc[p] = "executing"
              /\ \E o \in Outcomes : /\ outcome' = [outcome EXCEPT ![p] = o]
                                     /\ \/ pc' = [pc EXCEPT ![p] = "closing"] /\ o = "completed"
                                        \/ pc' = [pc EXCEPT ![p] = "advancing"]
           \/ /\ pc[p] = "verifying"
              /\ \E r \in Results : /\ outcome' = [outcome EXCEPT ![p] = r]
                                    /\ \/ pc' = [pc EXCEPT ![p] = "validating"]
                                       \/ pc' = [pc EXCEPT ![p] = "recording"]
    BY DEF Execute, Verify, Goto, bounds
  <1>3. LocalType'
    <2>1. pc' \in [Procs -> Labels]
      BY <1>1, <1>2 DEF LocalType, Labels, Stepping
    <2>2. outcome' \in [Procs -> StepStatuses \cup Results \cup {None}]
      BY <1>1, <1>2 DEF LocalType
    <2>4. shot' \in [Procs' -> (Shots \cup {None})'] /\ checkpoint' \in (Shots \cup {None})'
      BY <1>0, <1>1, <1>2 DEF LocalType, Shots
    <2> QED BY <1>0, <1>1, <1>2, <2>1, <2>2, <2>4 DEF LocalType
  <1>4. OthersStay(p)
    BY <1>1, <1>2 DEF OthersStay, LocalType
  <1>5. /\ \/ pc[p] = "executing" /\ pc'[p] = "closing" /\ outcome'[p] = "completed"
           \/ pc[p] = "executing" /\ pc'[p] = "advancing" /\ outcome'[p] \in StepStatuses
           \/ pc[p] = "verifying" /\ pc'[p] \in {"validating", "recording"} /\ outcome'[p] \in Results
    BY <1>1, <1>2 DEF LocalType
  <1>6. LocalOK(p)' /\ ShotOK(p)'
    BY <1>0, <1>1, <1>2, <1>5 DEF LocalOK, ShotOK, Stepping
  <1>7. Mark(p) = 0 /\ Adv(p) = 0 /\ Mark(p)' = 0 /\ Adv(p)' \in 0 .. 1 /\ (Plans(p)' => Plans(p)) /\ status # None
    BY <1>0, <1>5, Working DEF Mark, Adv, Plans
  <1>8. Mark(p)' + crashes + Adv(p) <= Mark(p) + crashes' + Adv(p)'
    BY <1>1, <1>2, <1>7
  <1> QED BY <1>1, <1>2, <1>3, <1>4, <1>5, <1>6, <1>7, <1>8, QuietFrame

\* The run's other writes.
LEMMA WriteSteps ==
    ASSUME MissionIInv, scope' = scope, scope.Serial => OneAtATime, NEW p \in Procs,
           WriteStatus(p) \/ Complete(p)
    PROVE  MissionIInv'
  <1> USE DEF local
  <1>0. Procs' = Procs /\ Runners' = Runners /\ Subgoals' = Subgoals /\ Bound' = Bound /\ MaxIterations' = MaxIterations
    BY MissionStays
  <1>1. /\ LocalType /\ LocalOK(p) /\ ShotOK(p) /\ crashes \in Nat /\ checkpoint \in Shots \cup {None} /\ TypeOK
        /\ None \notin MissionStatuses
    BY MissionScope DEF MissionIInv, LocalType
  <1>2. /\ UNCHANGED <<steps, subgoals, passed, latest, checkpoint, crashes>>
        /\ \/ pc[p] = "writing" /\ status' = want[p]
           \/ pc[p] = "completing" /\ status' = "completed"
        /\ Exit(p) \/ (pc' = [pc EXCEPT ![p] = "saving"] /\ p \in Runners /\ UNCHANGED <<iter, want, outcome, shot>>)
    BY <1>1 DEF WriteStatus, Complete, Goto, bounds, LocalOK, Procs
  <1>3. Mark(p) = 0 /\ Adv(p) = 0 /\ ~Plans(p) /\ shot[p] = None /\ pc[p] # "off"
    BY <1>1, <1>2 DEF Mark, Adv, Plans, ShotOK
  <1>4. /\ LocalType' /\ LocalOK(p)' /\ ShotOK(p)' /\ OthersStay(p) /\ pc'[p] # "writing"
        /\ Adv(p)' = 0 /\ Mark(p)' = 0 /\ ~Plans(p)'
    <2>1. CASE Exit(p)
      <3>1. crashes' \in Nat /\ checkpoint' \in Shots \cup {None}
        BY <1>1, <1>2
      <3>2. /\ LocalType' /\ LocalOK(p)' /\ ShotOK(p)' /\ OthersStay(p) /\ pc'[p] = "off"
            /\ Adv(p)' = 0 /\ Mark(p)' = 0 /\ ~Plans(p)'
        BY <2>1, <3>1, ExitFacts
      <3> QED BY <3>2
    <2>2. CASE ~Exit(p)
      <3>1. pc' = [pc EXCEPT ![p] = "saving"] /\ p \in Runners /\ UNCHANGED <<iter, want, outcome, shot>>
        BY <1>2, <2>2
      <3>2. LocalType'
        BY <1>0, <1>1, <1>2, <3>1 DEF LocalType, Labels, Shots
      <3>3. OthersStay(p) /\ pc'[p] = "saving"
        BY <1>1, <3>1 DEF OthersStay, LocalType
      <3> QED BY <1>0, <1>3, <3>1, <3>2, <3>3 DEF LocalOK, ShotOK, Stepping, Adv, Mark, Plans
    <2> QED BY <2>1, <2>2
  <1>5. status' \in MissionStatuses /\ (status' = "completed" => passed)
    <2>1. CASE pc[p] = "writing"
      BY <1>1, <1>2, <2>1 DEF LocalOK
    <2>2. CASE pc[p] = "completing"
      BY <1>1, <1>2, <2>2 DEF LocalOK, MissionStatuses
    <2> QED BY <1>2, <2>1, <2>2
  <1>6. TypeOK' /\ CompletedIsVerified' /\ status' # None
    BY <1>0, <1>1, <1>2, <1>4, <1>5 DEF TypeOK, LocalType, CompletedIsVerified
  <1>7. Closed(subgoals)' = Closed(subgoals) /\ Done(steps)' = Done(steps) /\ Closed(subgoals) \in Nat /\ Done(steps) \in Nat
    BY <1>0, <1>1, <1>2, ClosedCounts, DoneCounts DEF MissionIInv, TypeOK, SubgoalStatuses, StepStatuses, Closed, Done
  <1>8. CheckpointOK'
    <2>1. \A gs, ss : Closed(gs)' = Closed(gs') /\ Done(ss)' = Done(ss')
      BY <1>0 DEF Closed, Done
    <2> QED BY <1>0, <1>2, <2>1 DEF MissionIInv, CheckpointOK
  <1>9. BudgetOK'
    <2>1. steps' \in Seq(StepStatuses)
      BY <1>6 DEF TypeOK, StepStatuses
    <2> QED BY <1>2, <1>4, <2>1, BudgetFrame
  <1>10. Closed(subgoals)' + Mark(p)' + Done(steps) + crashes + Adv(p)
            <= Closed(subgoals) + Mark(p) + Done(steps)' + crashes' + Adv(p)'
    BY <1>1, <1>2, <1>3, <1>4, <1>7
  <1> QED BY <1>2, <1>3, <1>4, <1>6, <1>8, <1>9, <1>10, WorkFrame

\* The verification is recorded.
LEMMA RecordStep ==
    ASSUME MissionIInv, scope' = scope, scope.Serial => OneAtATime, NEW p \in Procs, record_verification(p)
    PROVE  MissionIInv'
  <1>0. Procs' = Procs /\ Runners' = Runners /\ Subgoals' = Subgoals /\ Bound' = Bound /\ MaxIterations' = MaxIterations
    BY MissionStays
  <1>1. /\ LocalType /\ LocalOK(p) /\ ShotOK(p) /\ crashes \in Nat /\ checkpoint \in Shots \cup {None} /\ TypeOK
        /\ None \notin MissionStatuses /\ MaxIterations \in Nat
    BY MissionScope DEF MissionIInv, LocalType
  <1>2. /\ UNCHANGED <<status, steps, subgoals, checkpoint, crashes, outcome, shot>>
        /\ pc[p] = "recording" /\ latest' = outcome[p] /\ passed' = (passed \/ outcome[p] = "passed")
        /\ outcome[p] \in Results /\ iter[p] < MaxIterations /\ p \in Runners /\ shot[p] = None
        /\ \/ pc' = [pc EXCEPT ![p] = "completing"] /\ UNCHANGED <<want, iter>> /\ outcome[p] = "passed"
           \/ pc' = [pc EXCEPT ![p] = "setting"] /\ want' = [want EXCEPT ![p] = "verifier_failed"] /\ UNCHANGED iter
           \/ pc' = [pc EXCEPT ![p] = "round"] /\ iter' = [iter EXCEPT ![p] = iter[p] + 1] /\ UNCHANGED want
    <2>1. outcome[p] \in Results /\ iter[p] < MaxIterations /\ p \in Runners /\ shot[p] = None /\ pc[p] = "recording"
      BY <1>1 DEF record_verification, LocalOK, ShotOK, Stepping
    <2> QED BY <2>1 DEF record_verification, Set, Goto, bounds, Results
  <1>3. LocalType'
    <2>1. pc' \in [Procs -> Labels]
      BY <1>1, <1>2 DEF LocalType, Labels, Stepping
    <2>2. want' \in [Procs -> MissionStatuses \cup {None}]
      BY <1>1, <1>2 DEF LocalType, MissionStatuses
    <2>3. iter' \in [Procs -> 0 .. MaxIterations]
      BY <1>1, <1>2 DEF LocalType
    <2>4. shot' \in [Procs' -> (Shots \cup {None})'] /\ checkpoint' \in (Shots \cup {None})'
      BY <1>0, <1>1, <1>2 DEF LocalType, Shots
    <2> QED BY <1>0, <1>1, <1>2, <2>1, <2>2, <2>3, <2>4 DEF LocalType
  <1>4. OthersStay(p)
    BY <1>1, <1>2 DEF OthersStay, LocalType
  <1>5. /\ pc'[p] \in {"completing", "setting", "round"} /\ (pc'[p] = "setting" => want'[p] = "verifier_failed")
        /\ (pc'[p] = "completing" => passed')
    BY <1>1, <1>2 DEF LocalType, TypeOK
  <1>6. LocalOK(p)' /\ ShotOK(p)' /\ Mark(p) = 0 /\ Mark(p)' = 0 /\ Adv(p) = 0 /\ Adv(p)' = 0 /\ ~Plans(p)'
    BY <1>0, <1>2, <1>5 DEF LocalOK, ShotOK, Stepping, Mark, Adv, Plans, MissionStatuses
  <1>7. status # None /\ (passed => passed')
    BY <1>2, Working
  <1>8. TypeOK' /\ CompletedIsVerified'
    <2>1. passed' \in BOOLEAN /\ latest' \in Results \cup {None}
      BY <1>1, <1>2 DEF TypeOK
    <2>2. iter' \in [Procs -> 0 .. MaxIterations] /\ want' \in [Procs -> MissionStatuses \cup {None}]
      BY <1>0, <1>3 DEF LocalType
    <2> QED BY <1>0, <1>1, <1>2, <1>7, <2>1, <2>2 DEF TypeOK, MissionIInv, CompletedIsVerified
  <1>9. Closed(subgoals)' = Closed(subgoals) /\ Done(steps)' = Done(steps) /\ Closed(subgoals) \in Nat /\ Done(steps) \in Nat
    BY <1>0, <1>1, <1>2, ClosedCounts, DoneCounts DEF MissionIInv, TypeOK, SubgoalStatuses, StepStatuses, Closed, Done
  <1>10. CheckpointOK'
    <2>1. \A gs, ss : Closed(gs)' = Closed(gs') /\ Done(ss)' = Done(ss')
      BY <1>0 DEF Closed, Done
    <2> QED BY <1>0, <1>2, <2>1 DEF MissionIInv, CheckpointOK
  <1>11. BudgetOK'
    <2>1. steps' \in Seq(StepStatuses)
      BY <1>8 DEF TypeOK, StepStatuses
    <2> QED BY <1>2, <1>4, <1>6, <2>1, BudgetFrame
  <1>12. Closed(subgoals)' + Mark(p)' + Done(steps) + crashes + Adv(p)
            <= Closed(subgoals) + Mark(p) + Done(steps)' + crashes' + Adv(p)'
    BY <1>1, <1>2, <1>6, <1>9
  <1> QED BY <1>2, <1>3, <1>4, <1>5, <1>6, <1>7, <1>8, <1>10, <1>11, <1>12, WorkFrame

\* A subgoal is closed, a step is added, or is marked.
LEMMA StepSteps ==
    ASSUME MissionIInv, scope' = scope, scope.Serial => OneAtATime, NEW p \in Procs,
           CloseSubgoal(p) \/ advance(p) \/ MarkStep(p)
    PROVE  MissionIInv'
  <1>0. Procs' = Procs /\ Runners' = Runners /\ Subgoals' = Subgoals /\ Bound' = Bound /\ MaxIterations' = MaxIterations
    BY MissionStays
  <1>1. /\ LocalType /\ LocalOK(p) /\ ShotOK(p) /\ crashes \in Nat /\ checkpoint \in Shots \cup {None} /\ TypeOK
        /\ None \notin MissionStatuses
        /\ steps \in Seq(StepStatuses) /\ subgoals \in [Subgoals -> SubgoalStatuses]
    BY MissionScope DEF MissionIInv, LocalType, TypeOK, StepStatuses, SubgoalStatuses
  <1>2. /\ UNCHANGED <<status, passed, latest, checkpoint, crashes, outcome, shot, iter>>
        /\ p \in Runners /\ shot[p] = None /\ (pc[p] \in Stepping => iter[p] < MaxIterations)
        /\ \/ /\ pc[p] = "closing" /\ outcome[p] = "completed" /\ pc' = [pc EXCEPT ![p] = "advancing"] /\ want' = want
              /\ subgoals' = [subgoals EXCEPT ![mine[p]] = "completed"] /\ steps' = steps
           \/ /\ pc[p] = "advancing" /\ want' = want /\ steps' = Append(steps, "completed") /\ subgoals' = subgoals
              /\ \/ outcome[p] = "completed" /\ pc' = [pc EXCEPT ![p] = "rebudgeting"]
                 \/ outcome[p] \in {"failed", "blocked"} /\ pc' = [pc EXCEPT ![p] = "marking"]
           \/ /\ pc[p] = "marking" /\ outcome[p] \in {"failed", "blocked"}
              /\ steps' = [steps EXCEPT ![mine[p]] = outcome[p]] /\ subgoals' = subgoals
              /\ \/ pc' = [pc EXCEPT ![p] = "setting"] /\ want' = [want EXCEPT ![p] = "blocked"]
                 \/ pc' = [pc EXCEPT ![p] = "verifying"] /\ want' = want
    <2>1. p \in Runners /\ shot[p] = None /\ (pc[p] \in Stepping => iter[p] < MaxIterations)
      BY <1>1 DEF CloseSubgoal, advance, MarkStep, LocalOK, ShotOK
    <2>2. CASE CloseSubgoal(p)
      BY <1>1, <2>1, <2>2 DEF CloseSubgoal, Goto, local, bounds, LocalOK
    <2>3. CASE advance(p)
      BY <1>1, <2>1, <2>3 DEF advance, Goto, bounds, LocalOK, StepStatuses
    <2>4. CASE MarkStep(p)
      BY <1>1, <2>1, <2>4 DEF MarkStep, Set, Goto, bounds, LocalOK
    <2> QED BY <2>2, <2>3, <2>4
  <1>3. LocalType'
    <2>1. pc' \in [Procs -> Labels]
      BY <1>1, <1>2 DEF LocalType, Labels, Stepping
    <2>2. want' \in [Procs -> MissionStatuses \cup {None}]
      BY <1>1, <1>2 DEF LocalType, MissionStatuses
    <2>4. shot' \in [Procs' -> (Shots \cup {None})'] /\ checkpoint' \in (Shots \cup {None})'
      BY <1>0, <1>1, <1>2 DEF LocalType, Shots
    <2> QED BY <1>0, <1>1, <1>2, <2>1, <2>2, <2>4 DEF LocalType
  <1>4. OthersStay(p)
    BY <1>1, <1>2 DEF OthersStay, LocalType
  <1>5. /\ \/ pc[p] = "closing" /\ pc'[p] = "advancing"
           \/ pc[p] = "advancing" /\ pc'[p] = "rebudgeting" /\ outcome[p] = "completed"
           \/ pc[p] = "advancing" /\ pc'[p] = "marking" /\ outcome[p] \in {"failed", "blocked"}
           \/ pc[p] = "marking" /\ pc'[p] = "setting" /\ want'[p] = "blocked"
           \/ pc[p] = "marking" /\ pc'[p] = "verifying"
    BY <1>1, <1>2 DEF LocalType
  <1>6. LocalOK(p)' /\ ShotOK(p)'
    <2>1. iter[p] < MaxIterations
      BY <1>2 DEF Stepping
    <2> QED BY <1>0, <1>2, <1>5, <2>1 DEF LocalOK, ShotOK, MissionStatuses, StepStatuses
  <1>7. status # None
    BY <1>2, Working
  <1>8. /\ Closed(subgoals) \in Nat /\ Done(steps) \in Nat
        /\ \A s : Closed([subgoals EXCEPT ![s] = "completed"]) <= Closed(subgoals) + 1
        /\ Done(Append(steps, "completed")) = Done(steps) + 1
        /\ \A i : \A x \in StepStatuses : /\ [steps EXCEPT ![i] = x] \in Seq(StepStatuses)
                                          /\ Len([steps EXCEPT ![i] = x]) = Len(steps)
                                          /\ Done(steps) <= Done([steps EXCEPT ![i] = x]) + 1
    BY <1>1, ClosedCounts, DoneCounts DEF MissionIInv
  <1>9. steps' \in Seq(StepStatuses) /\ subgoals' \in [Subgoals -> SubgoalStatuses]
    <2>1. steps' \in Seq(StepStatuses)
      BY <1>1, <1>2, <1>8 DEF StepStatuses
    <2>2. subgoals' \in [Subgoals -> SubgoalStatuses]
      BY <1>1, <1>2 DEF SubgoalStatuses
    <2> QED BY <2>1, <2>2
  <1>10. Closed(subgoals)' = Closed(subgoals') /\ Done(steps)' = Done(steps') /\ Closed(subgoals') \in Nat /\ Done(steps') \in Nat
    BY <1>0, <1>9, ClosedCounts, DoneCounts DEF MissionIInv, Closed, Done
  <1>11. TypeOK' /\ CompletedIsVerified'
    <2>1. iter' \in [Procs' -> 0 .. MaxIterations'] /\ want' \in [Procs' -> MissionStatuses \cup {None}]
      BY <1>3 DEF LocalType
    <2> QED BY <1>0, <1>1, <1>2, <1>9, <2>1 DEF TypeOK, MissionIInv, CompletedIsVerified, StepStatuses, SubgoalStatuses
  <1>12. CheckpointOK'
    <2>1. \A gs, ss : Closed(gs)' = Closed(gs') /\ Done(ss)' = Done(ss')
      BY <1>0 DEF Closed, Done
    <2> QED BY <1>0, <1>2, <2>1 DEF MissionIInv, CheckpointOK
  <1>13. BudgetOK'
    <2>1. \/ steps' = steps /\ (Plans(p)' => Plans(p) \/ Len(steps) < MaxSteps)
          \/ Len(steps') = Len(steps) + 1 /\ Plans(p) /\ ~Plans(p)'
          \/ Len(steps') = Len(steps) /\ ~Plans(p)'
      <3>1. CASE pc[p] = "closing"
        BY <1>2, <1>5, <3>1 DEF Plans
      <3>2. CASE pc[p] = "advancing"
        BY <1>1, <1>2, <1>5, <3>2 DEF Plans
      <3>3. CASE pc[p] = "marking"
        BY <1>2, <1>5, <1>8, <3>3 DEF Plans, StepStatuses
      <3> QED BY <1>5, <3>1, <3>2, <3>3
    <2> QED BY <1>4, <1>9, <2>1, BudgetFrame
  <1>14. Closed(subgoals)' + Mark(p)' + Done(steps) + crashes + Adv(p)
            <= Closed(subgoals) + Mark(p) + Done(steps)' + crashes' + Adv(p)'
    <2>1. CASE pc[p] = "closing"
      <3>1. Closed(subgoals') <= Closed(subgoals) + 1 /\ steps' = steps
        BY <1>2, <1>8, <2>1
      <3>2. Mark(p) = 0 /\ Mark(p)' = 0 /\ Adv(p) = 0 /\ Adv(p)' = 1
        BY <1>2, <1>5, <2>1 DEF Mark, Adv
      <3> QED BY <1>1, <1>2, <1>8, <1>10, <3>1, <3>2
    <2>2. CASE pc[p] = "advancing"
      <3>1. subgoals' = subgoals /\ Done(steps') = Done(steps) + 1
        BY <1>2, <1>8, <2>2
      <3>2. Mark(p) = 0 /\ Adv(p)' = 0 /\ ((Mark(p)' = 0 /\ Adv(p) = 1) \/ (Mark(p)' = 1 /\ Adv(p) = 0))
        BY <1>2, <1>5, <2>2 DEF Mark, Adv
      <3> QED BY <1>1, <1>2, <1>8, <1>10, <3>1, <3>2
    <2>3. CASE pc[p] = "marking"
      <3>1. subgoals' = subgoals /\ Done(steps) <= Done(steps') + 1
        BY <1>2, <1>8, <2>3 DEF StepStatuses
      <3>2. Mark(p) = 1 /\ Mark(p)' = 0 /\ Adv(p) = 0 /\ Adv(p)' = 0
        BY <1>2, <1>5, <2>3 DEF Mark, Adv
      <3> QED BY <1>1, <1>2, <1>8, <1>10, <3>1, <3>2
    <2> QED BY <1>5, <2>1, <2>2, <2>3
  <1> QED BY <1>2, <1>3, <1>4, <1>5, <1>6, <1>7, <1>11, <1>12, <1>13, <1>14, WorkFrame

LEMMA FirstRead ==
    ASSUME NEW st, NEW ss, NEW gs, NEW ok, NEW res
    PROVE  [[read |-> 0, status |-> st, steps |-> ss, subgoals |-> gs, passed |-> ok, latest |-> res] EXCEPT !.read = 1]
             = [read |-> 1, status |-> st, steps |-> ss, subgoals |-> gs, passed |-> ok, latest |-> res]
  OBVIOUS

LEMMA ReadOn ==
    ASSUME NEW r \in Shots, NEW n \in 1 .. 4, NEW x, x = [r EXCEPT !.read = n]
    PROVE  /\ x \in Shots /\ x.read = n /\ x.status = r.status /\ x.steps = r.steps /\ x.subgoals = r.subgoals
           /\ x.passed = r.passed
  BY DEF Shots

\* A table is read into the checkpoint, or the checkpoint is written.
LEMMA SaveStep ==
    ASSUME MissionIInv, scope' = scope, scope.Serial => OneAtATime, NEW p \in Procs, Save(p)
    PROVE  MissionIInv'
  <1> DEFINE sofar == IF shot[p] = None THEN NewShot ELSE shot[p]
             next == [ReadPart(sofar, Parts[sofar.read + 1]) EXCEPT !.read = @ + 1]
  <1>0. Procs' = Procs /\ Runners' = Runners /\ Subgoals' = Subgoals /\ Bound' = Bound /\ MaxIterations' = MaxIterations
    BY MissionStays
  <1>1. /\ LocalType /\ LocalOK(p) /\ ShotOK(p) /\ crashes \in Nat /\ checkpoint \in Shots \cup {None} /\ TypeOK
        /\ Bound \in Nat /\ Len(steps) <= Bound /\ CompletedIsVerified
        /\ steps \in Seq(StepStatuses) /\ subgoals \in [Subgoals -> SubgoalStatuses]
    <2>1. Bound \in Nat
      BY MissionScope DEF MissionIInv
    <2>2. Len(steps) <= Bound
      <3>1. Cardinality(Budgeted) \in Nat /\ Len(steps) \in Nat
        BY BudgetedCounts
      <3> QED BY <2>1, <3>1 DEF MissionIInv, BudgetOK
    <2> QED BY <2>1, <2>2 DEF MissionIInv, LocalType, TypeOK, StepStatuses, SubgoalStatuses
  <1>2. pc[p] = "saving" /\ p \in Runners /\ status \in MissionStatuses /\ status # None /\ UNCHANGED <<tables, crashes>>
    <2>1. pc[p] = "saving" /\ UNCHANGED <<tables, crashes>>
      BY DEF Save, bounds
    <2> QED BY <1>1, <2>1, Working DEF LocalOK
  <1>3. \/ next.read < 4 /\ shot' = [shot EXCEPT ![p] = next] /\ UNCHANGED <<checkpoint, pc, iter, want, outcome>>
        \/ ~(next.read < 4) /\ checkpoint' = next /\ Exit(p)
    BY DEF Save, Parts
  <1>4. /\ next \in Shots
        /\ next.status = "completed" => passed /\ (next.read = 4 => next.passed)
        /\ Len(next.steps) <= Bound
        /\ scope.Serial => /\ next.read >= 2 => next.steps = steps
                           /\ next.read >= 3 => next.subgoals = subgoals
    <2>1. CASE shot[p] = None
      <3>1. next = [read |-> 1, status |-> status, steps |-> <<>>, subgoals |-> Fresh, passed |-> FALSE, latest |-> None]
        <4>1. sofar.read = 0 /\ Parts[sofar.read + 1] = "status"
          BY <2>1 DEF NewShot, Parts
        <4>2. ReadPart(NewShot, "status") = [NewShot EXCEPT !.status = status]
          BY DEF ReadPart
        <4>3. PICK ok : ok = FALSE
          OBVIOUS
        <4>4. PICK r : r = [read |-> 0, status |-> status, steps |-> <<>>, subgoals |-> Fresh, passed |-> ok, latest |-> None]
          OBVIOUS
        <4>5. ReadPart(NewShot, "status") = r
          BY <4>2, <4>3, <4>4 DEF NewShot
        <4>6. ReadPart(sofar, Parts[sofar.read + 1]) = r
          BY <2>1, <4>1, <4>5, Zenon
        <4>7. r.read + 1 = 1
          BY <4>4
        <4> HIDE DEF sofar
        <4>8. next = [r EXCEPT !.read = r.read + 1]
          BY <4>6
        <4> HIDE DEF next
        <4>9. next = [r EXCEPT !.read = 1]
          BY <4>7, <4>8
        <4>10. [r EXCEPT !.read = 1]
                 = [read |-> 1, status |-> status, steps |-> <<>>, subgoals |-> Fresh, passed |-> ok, latest |-> None]
          BY <4>4, FirstRead
        <4> QED BY <4>3, <4>9, <4>10
      <3>2. Fresh \in [Subgoals -> SubgoalStatuses]
        BY DEF Fresh, SubgoalStatuses
      <3>3. <<>> \in Seq(StepStatuses) /\ Len(<<>>) = 0
        OBVIOUS
      <3>4. next \in Shots
        <4> HIDE DEF next
        <4> QED BY <1>2, <3>1, <3>2, <3>3 DEF Shots
      <3>5. next.read = 1 /\ next.status = status /\ next.steps = <<>>
        BY <3>1
      <3> HIDE DEF next
      <3> QED BY <1>1, <3>3, <3>4, <3>5 DEF CompletedIsVerified
    <2>2. CASE shot[p] # None
      <3>1. shot[p] \in Shots /\ shot[p].read \in 1 .. 3
        BY <1>1, <2>2 DEF LocalType, ShotOK, Shots
      <3>2. PICK sh \in Shots : sh = shot[p]
        BY <3>1
      <3>3. /\ sh.status = "completed" => passed
            /\ Len(sh.steps) <= Bound
            /\ scope.Serial => /\ sh.read >= 2 => sh.steps = steps
                               /\ sh.read >= 3 => sh.subgoals = subgoals
        BY <1>1, <2>2, <3>2 DEF ShotOK
      <3>4. next = [ReadPart(sh, Parts[sh.read + 1]) EXCEPT !.read = @ + 1]
        BY <2>2, <3>2
      <3> HIDE DEF next
      <3>5. sh \in [read : 1 .. 4, status : MissionStatuses, steps : Seq(StepStatuses),
                    subgoals : [Subgoals -> SubgoalStatuses], passed : BOOLEAN, latest : Results \cup {None}]
        BY <3>2 DEF Shots
      <3>6. CASE sh.read = 1
        <4>1. Parts[sh.read + 1] = "steps"
          BY <3>6 DEF Parts
        <4>0. ReadPart(sh, "steps") = [sh EXCEPT !.steps = steps]
          BY DEF ReadPart
        <4>2. PICK r \in Shots : r = [sh EXCEPT !.steps = steps]
          <5>1. passed \in BOOLEAN /\ latest \in Results \cup {None}
            BY <1>1 DEF TypeOK
          <5> QED BY <1>1, <3>5, <5>1 DEF Shots
        <4>4. r.read = 1 /\ next = [r EXCEPT !.read = 2]
          <5>1. r.read = 1
            BY <3>5, <3>6, <4>2
          <5>2. next = [r EXCEPT !.read = r.read + 1]
            BY <3>4, <4>0, <4>1, <4>2
          <5> QED BY <5>1, <5>2
        <4>3. next \in Shots /\ next.read = 2 /\ next.steps = steps /\ next.status = sh.status
          <5>1. r.steps = steps /\ r.status = sh.status
            BY <3>5, <4>2
          <5> QED BY <4>4, <5>1, ReadOn
        <4> QED BY <1>1, <3>3, <4>3
      <3>7. CASE sh.read = 2
        <4>1. Parts[sh.read + 1] = "subgoals"
          BY <3>7 DEF Parts
        <4>0. ReadPart(sh, "subgoals") = [sh EXCEPT !.subgoals = subgoals]
          BY DEF ReadPart
        <4>2. PICK r \in Shots : r = [sh EXCEPT !.subgoals = subgoals]
          <5>1. passed \in BOOLEAN /\ latest \in Results \cup {None}
            BY <1>1 DEF TypeOK
          <5> QED BY <1>1, <3>5, <5>1 DEF Shots
        <4>4. r.read = 2 /\ next = [r EXCEPT !.read = 3]
          <5>1. r.read = 2
            BY <3>5, <3>7, <4>2
          <5>2. next = [r EXCEPT !.read = r.read + 1]
            BY <3>4, <4>0, <4>1, <4>2
          <5> QED BY <5>1, <5>2
        <4>3. next \in Shots /\ next.read = 3 /\ next.steps = sh.steps /\ next.status = sh.status /\ next.subgoals = subgoals
          <5>1. r.subgoals = subgoals /\ r.steps = sh.steps /\ r.status = sh.status
            BY <3>5, <4>2
          <5> QED BY <4>4, <5>1, ReadOn
        <4> QED BY <1>1, <3>3, <3>7, <4>3
      <3>8. CASE sh.read = 3
        <4>1. Parts[sh.read + 1] = "verifications"
          BY <3>8 DEF Parts
        <4>0. ReadPart(sh, "verifications") = [sh EXCEPT !.passed = passed, !.latest = latest]
          BY DEF ReadPart
        <4>2. PICK r \in Shots : r = [sh EXCEPT !.passed = passed, !.latest = latest]
          <5>1. passed \in BOOLEAN /\ latest \in Results \cup {None}
            BY <1>1 DEF TypeOK
          <5> QED BY <1>1, <3>5, <5>1 DEF Shots
        <4>4. r.read = 3 /\ next = [r EXCEPT !.read = 4]
          <5>1. r.read = 3
            BY <3>5, <3>8, <4>2
          <5>2. next = [r EXCEPT !.read = r.read + 1]
            BY <3>4, <4>0, <4>1, <4>2
          <5> QED BY <5>1, <5>2
        <4>3. /\ next \in Shots /\ next.read = 4 /\ next.steps = sh.steps /\ next.status = sh.status
              /\ next.subgoals = sh.subgoals /\ next.passed = passed
          <5>1. r.passed = passed /\ r.steps = sh.steps /\ r.status = sh.status /\ r.subgoals = sh.subgoals
            BY <3>5, <4>2
          <5> QED BY <4>4, <5>1, ReadOn
        <4> QED BY <1>1, <3>3, <3>8, <4>3
      <3> QED BY <3>1, <3>2, <3>6, <3>7, <3>8
    <2> QED BY <2>1, <2>2
  <1> HIDE DEF next, sofar
  <1>5. CASE next.read < 4 /\ shot' = [shot EXCEPT ![p] = next] /\ UNCHANGED <<checkpoint, pc, iter, want, outcome>>
    <2>1. LocalType'
      BY <1>0, <1>1, <1>2, <1>4, <1>5 DEF LocalType, Shots
    <2>2. OthersStay(p) /\ shot'[p] = next
      BY <1>1, <1>5 DEF OthersStay, LocalType
    <2>3. LocalOK(p)'
      BY <1>0, <1>1, <1>2, <1>5 DEF LocalOK, tables
    <2>4. ShotOK(p)'
      <3>1. next.read <= 3
        BY <1>4, <1>5 DEF Shots
      <3> QED BY <1>0, <1>2, <1>4, <1>5, <2>2, <3>1 DEF ShotOK, tables
    <2>5. Mark(p)' = Mark(p) /\ Adv(p)' = Adv(p) /\ (Plans(p)' => Plans(p)) /\ pc'[p] # "writing"
      BY <1>0, <1>2, <1>5 DEF Mark, Adv, Plans
    <2>6. Mark(p)' + crashes + Adv(p) <= Mark(p) + crashes' + Adv(p)'
      <3>1. {Adv(p), Mark(p)} \subseteq 0 .. 1
        BY DEF Adv, Mark
      <3> QED BY <1>1, <1>2, <2>5, <3>1
    <2> QED BY <1>1, <1>2, <1>5, <2>1, <2>2, <2>3, <2>4, <2>5, <2>6, QuietFrame
  <1>6. CASE ~(next.read < 4) /\ checkpoint' = next /\ Exit(p)
    <2>1. next.read = 4
      BY <1>4, <1>6 DEF Shots
    <2>2. /\ LocalType' /\ LocalOK(p)' /\ ShotOK(p)' /\ OthersStay(p) /\ pc'[p] = "off"
          /\ Adv(p)' = 0 /\ Mark(p)' = 0 /\ ~Plans(p)'
      <3>1. crashes' \in Nat /\ checkpoint' \in Shots \cup {None}
        BY <1>1, <1>2, <1>4, <1>6
      <3> QED BY <1>6, <3>1, ExitFacts
    <2>3. TypeOK' /\ CompletedIsVerified'
      <3>1. iter' \in [Procs' -> 0 .. MaxIterations'] /\ want' \in [Procs' -> MissionStatuses \cup {None}]
        BY <2>2 DEF LocalType
      <3> QED BY <1>0, <1>1, <1>2, <3>1 DEF TypeOK, CompletedIsVerified, tables
    <2>4. Adv(p) = 0 /\ Mark(p) = 0
      BY <1>2 DEF Adv, Mark
    <2>5. Closed(subgoals)' = Closed(subgoals) /\ Done(steps)' = Done(steps) /\ Closed(subgoals) \in Nat /\ Done(steps) \in Nat
      BY <1>0, <1>1, <1>2, ClosedCounts, DoneCounts DEF MissionIInv, Closed, Done, tables
    <2>6. CheckpointOK'
      <3>1. scope.Serial => Closed(subgoals) <= Done(steps) + crashes
        <4> SUFFICES ASSUME scope.Serial PROVE Closed(subgoals) <= Done(steps) + crashes
          OBVIOUS
        <4>1. AdvancingOne = 0 /\ MarkingOne = 0
          BY <1>2, <2>2, <2>4, Alone
        <4> QED BY <1>1, <2>5, <4>1 DEF MissionIInv, AccountOK
      <3>2. scope.Serial => next.steps = steps /\ next.subgoals = subgoals
        BY <1>4, <2>1
      <3>3. scope.Serial => Closed(next.subgoals) <= Done(next.steps) + crashes
        BY <3>1, <3>2
      <3>4. \A gs, ss : Closed(gs)' = Closed(gs') /\ Done(ss)' = Done(ss')
        BY <1>0 DEF Closed, Done
      <3>5. next.status = "completed" => next.passed
        BY <1>4, <2>1
      <3>6. /\ checkpoint'.status = "completed" => checkpoint'.passed
            /\ Len(checkpoint'.steps) <= Bound
            /\ scope.Serial => Closed(checkpoint'.subgoals) <= Done(checkpoint'.steps) + crashes
        BY <1>4, <1>6, <3>3, <3>5
      <3> QED BY <1>0, <1>2, <3>4, <3>6 DEF CheckpointOK
    <2>7. BudgetOK'
      BY <1>1, <1>2, <2>2, BudgetFrame DEF tables
    <2>8. Closed(subgoals)' + Mark(p)' + Done(steps) + crashes + Adv(p)
            <= Closed(subgoals) + Mark(p) + Done(steps)' + crashes' + Adv(p)'
      BY <1>1, <1>2, <2>2, <2>4, <2>5
    <2>9. status' # None /\ (passed => passed')
      BY <1>2 DEF tables
    <2> QED BY <1>2, <2>2, <2>3, <2>6, <2>7, <2>8, <2>9, WorkFrame
  <1> QED BY <1>3, <1>5, <1>6

\* The database goes, and comes back from the checkpoint.
LEMMA RestoreSteps ==
    ASSUME MissionIInv, scope' = scope, LoseDatabase \/ load_checkpoint
    PROVE  MissionIInv'
  <1> USE DEF tables, local, bounds
  <1>0. Procs' = Procs /\ Runners' = Runners /\ Subgoals' = Subgoals /\ Bound' = Bound /\ MaxIterations' = MaxIterations
    BY MissionStays
  <1>1. /\ LocalType /\ crashes \in Nat /\ checkpoint \in Shots \cup {None} /\ TypeOK /\ Bound \in Nat
        /\ None \notin MissionStatuses
    BY MissionScope DEF MissionIInv, LocalType
  <1>2. /\ UNCHANGED <<checkpoint, pc, iter, want, outcome, shot, crashes>> /\ checkpoint # None
        /\ \A p \in Procs : pc[p] = "off"
        /\ \/ status' = None /\ steps' = <<>> /\ subgoals' = Fresh /\ passed' = FALSE /\ latest' = None
           \/ /\ status' = checkpoint.status /\ steps' = checkpoint.steps /\ subgoals' = checkpoint.subgoals
              /\ passed' = checkpoint.passed /\ latest' = checkpoint.latest
    BY DEF LoseDatabase, load_checkpoint, MissionIInv, LostOK
  <1>3. checkpoint \in Shots
    BY <1>1, <1>2
  <1>4. /\ steps' \in Seq(StepStatuses) /\ subgoals' \in [Subgoals -> SubgoalStatuses] /\ Len(steps') <= Bound
        /\ status' \in MissionStatuses \cup {None} /\ passed' \in BOOLEAN /\ latest' \in Results \cup {None}
        /\ status' = "completed" => passed'
        /\ scope.Serial => Closed(subgoals') <= Done(steps') + crashes
    <2>1. CASE status' = None /\ steps' = <<>> /\ subgoals' = Fresh /\ passed' = FALSE /\ latest' = None
      <3>1. Done(<<>>) = 0 /\ Closed(Fresh) = 0 /\ Fresh \in [Subgoals -> SubgoalStatuses]
        BY NothingCounts DEF MissionIInv
      <3>2. status' # "completed"
        BY <1>1, <2>1 DEF MissionStatuses
      <3>3. <<>> \in Seq(StepStatuses) /\ Len(<<>>) = 0
        OBVIOUS
      <3>4. steps' \in Seq(StepStatuses) /\ Len(steps') <= Bound
        BY <1>1, <2>1, <3>3
      <3>5. Done(steps') = 0 /\ Closed(subgoals') = 0 /\ subgoals' \in [Subgoals -> SubgoalStatuses]
        BY <2>1, <3>1
      <3>6. Closed(subgoals') <= Done(steps') + crashes
        BY <1>1, <3>5
      <3>7. status' \in MissionStatuses \cup {None} /\ passed' \in BOOLEAN /\ latest' \in Results \cup {None}
        BY <2>1
      <3> QED BY <3>2, <3>4, <3>5, <3>6, <3>7, Zenon
    <2>2. CASE /\ status' = checkpoint.status /\ steps' = checkpoint.steps /\ subgoals' = checkpoint.subgoals
               /\ passed' = checkpoint.passed /\ latest' = checkpoint.latest
      <3>1. /\ checkpoint.steps \in Seq(StepStatuses) /\ checkpoint.subgoals \in [Subgoals -> SubgoalStatuses]
            /\ checkpoint.status \in MissionStatuses /\ checkpoint.passed \in BOOLEAN
            /\ checkpoint.latest \in Results \cup {None}
        BY <1>3 DEF Shots
      <3>2. /\ checkpoint.status = "completed" => checkpoint.passed
            /\ Len(checkpoint.steps) <= Bound
            /\ scope.Serial => Closed(checkpoint.subgoals) <= Done(checkpoint.steps) + crashes
        BY <1>2 DEF MissionIInv, CheckpointOK
      <3> QED BY <2>2, <3>1, <3>2
    <2> QED BY <1>2, <2>1, <2>2
  <1>5. TypeOK' /\ LocalType' /\ CompletedIsVerified'
    <2>1. LocalType'
      BY <1>0, <1>1, <1>2 DEF LocalType, Shots
    <2>2. \A p \in Procs : iter'[p] \in 0..MaxIterations /\ want'[p] \in MissionStatuses \cup {None}
      BY <1>1, <1>2 DEF TypeOK
    <2> QED BY <1>0, <1>4, <2>1, <2>2 DEF TypeOK, CompletedIsVerified, StepStatuses, SubgoalStatuses
  <1>6. \A p \in Procs : LocalOK(p)' /\ ShotOK(p)'
    <2> SUFFICES ASSUME NEW p \in Procs PROVE LocalOK(p)' /\ ShotOK(p)'
      OBVIOUS
    <2>1. pc[p] = "off" /\ shot[p] = None
      BY <1>2 DEF MissionIInv, ShotOK
    <2> QED BY <1>2, <2>1 DEF LocalOK, ShotOK, Stepping
  <1>7. \A gs, ss : Closed(gs)' = Closed(gs') /\ Done(ss)' = Done(ss')
    BY <1>0 DEF Closed, Done
  <1>8. CheckpointOK'
    BY <1>0, <1>2, <1>7 DEF MissionIInv, CheckpointOK
  <1>9. BudgetOK'
    <2>1. Budgeted' = {}
      BY <1>0, <1>2 DEF Budgeted, Procs
    <2>2. Cardinality(Budgeted') = 0
      BY <2>1, FS_EmptySet
    <2> QED BY <1>0, <1>1, <1>4, <2>2 DEF BudgetOK
  <1>10. LostOK' /\ SerialOK'
    BY <1>0, <1>2 DEF LostOK, SerialOK
  <1>11. AccountOK'
    <2>1. MarkingOne' = 0 /\ AdvancingOne' = 0
      BY <1>0, <1>2 DEF MarkingOne, AdvancingOne
    <2>2. Closed(subgoals') \in Nat /\ Done(steps') \in Nat
      BY <1>4, ClosedCounts, DoneCounts DEF MissionIInv
    <2> QED BY <1>1, <1>2, <1>4, <1>7, <2>1, <2>2 DEF AccountOK
  <1>12. scope' \in Scopes
    BY DEF MissionIInv
  <1>13. \A p \in Procs' : LocalOK(p)' /\ ShotOK(p)'
    BY <1>0, <1>6
  <1> HIDE DEF tables, local, bounds
  <1> QED BY <1>5, <1>8, <1>9, <1>10, <1>11, <1>12, <1>13 DEF MissionIInv

LEMMA MissionInit == Init => MissionIInv
  <1> SUFFICES ASSUME Init PROVE MissionIInv
    OBVIOUS
  <1> USE DEF Init
  <1>1. /\ scope \in Scopes /\ Bound \in Nat /\ MaxIterations \in Nat
        /\ Done(<<>>) = 0 /\ Closed(Fresh) = 0 /\ Fresh \in [Subgoals -> SubgoalStatuses]
    BY MissionScope, NothingCounts
  <1>2. TypeOK
    <2>1. <<>> \in Seq({"completed", "failed", "blocked"})
      OBVIOUS
    <2>2. \A p \in Procs : iter[p] \in 0 .. MaxIterations /\ want[p] \in MissionStatuses \cup {None}
      BY <1>1
    <2>3. status \in MissionStatuses \cup {None} /\ passed \in BOOLEAN /\ latest \in Results \cup {None}
      BY DEF MissionStatuses
    <2> QED BY <1>1, <2>1, <2>2, <2>3 DEF TypeOK, SubgoalStatuses
  <1>3. LocalType
    BY <1>1 DEF LocalType, Labels
  <1>4. \A p \in Procs : LocalOK(p) /\ ShotOK(p)
    BY DEF LocalOK, ShotOK, Stepping
  <1>5. BudgetOK
    <2>1. Budgeted = {}
      BY DEF Budgeted, Procs
    <2>2. Cardinality(Budgeted) = 0
      BY <2>1, FS_EmptySet
    <2> QED BY <1>1, <2>2 DEF BudgetOK
  <1>6. AccountOK
    BY <1>1 DEF AccountOK, MarkingOne, AdvancingOne
  <1>7. status # None /\ status # "completed"
    BY MissionScope DEF MissionStatuses
  <1> QED BY <1>1, <1>2, <1>3, <1>4, <1>5, <1>6, <1>7 DEF MissionIInv, CompletedIsVerified, CheckpointOK, LostOK, SerialOK

LEMMA MissionStutters ==
    ASSUME MissionIInv, UNCHANGED <<vars, scope>>
    PROVE  MissionIInv'
  <1> USE DEF vars, tables, local, bounds
  <1>0. Procs' = Procs /\ Runners' = Runners /\ Subgoals' = Subgoals /\ Bound' = Bound /\ MaxIterations' = MaxIterations
    BY MissionStays
  <1>1. \A gs, ss : Closed(gs)' = Closed(gs') /\ Done(ss)' = Done(ss')
    BY <1>0 DEF Closed, Done
  <1>2. TypeOK' /\ CompletedIsVerified' /\ LostOK' /\ SerialOK'
    BY <1>0 DEF MissionIInv, TypeOK, CompletedIsVerified, LostOK, SerialOK
  <1>3. LocalType'
    BY <1>0 DEF MissionIInv, LocalType, Shots
  <1>4. \A p \in Procs : LocalOK(p)' /\ ShotOK(p)'
    BY <1>0 DEF MissionIInv, LocalOK, ShotOK
  <1>5. CheckpointOK' /\ BudgetOK' /\ AccountOK'
    BY <1>0, <1>1 DEF MissionIInv, CheckpointOK, BudgetOK, Budgeted, AccountOK, MarkingOne, AdvancingOne
  <1> QED BY <1>0, <1>2, <1>3, <1>4, <1>5 DEF MissionIInv

LEMMA MissionStep == MissionIInv /\ [Next]_<<vars, scope>> => MissionIInv'
  <1> SUFFICES ASSUME MissionIInv, [Next]_<<vars, scope>> PROVE MissionIInv'
    OBVIOUS
  <1>1. CASE UNCHANGED <<vars, scope>>
    BY <1>1, MissionStutters
  <1>2. ASSUME Next PROVE scope' = scope /\ (scope.Serial => OneAtATime)
    BY <1>2 DEF Next
  <1>3. ASSUME Next, LoseDatabase \/ load_checkpoint PROVE MissionIInv'
    BY <1>2, <1>3, RestoreSteps
  <1>4. ASSUME Next, NEW p \in Procs, Launch(p) \/ Step(p) \/ Crash(p) \/ \E s \in {"paused", "active", "canceled"} : Ask(p, s)
        PROVE  MissionIInv'
    <2>1. scope' = scope /\ (scope.Serial => OneAtATime)
      BY <1>2, <1>4
    <2>2. CASE Launch(p) \/ \E s \in {"paused", "active", "canceled"} : Ask(p, s)
      BY <2>1, <2>2, StartSteps
    <2>3. CASE Crash(p)
      BY <2>1, <2>3, CrashStep
    <2>4. CASE Step(p)
      BY <2>1, <2>4, LookSteps, OutcomeSteps, WriteSteps, RecordStep, StepSteps, SaveStep DEF Step
    <2> QED BY <1>4, <2>2, <2>3, <2>4
  <1> QED BY <1>1, <1>3, <1>4 DEF Next

LEMMA MissionImplied == MissionIInv => MissionInv
  <1> SUFFICES ASSUME MissionIInv PROVE StepsWithinBudget /\ SubgoalsAreAccounted
    BY DEF MissionInv, MissionIInv
  <1>1. StepsWithinBudget
    <2>1. Cardinality(Budgeted) \in Nat /\ Len(steps) \in Nat /\ Bound \in Nat
      BY BudgetedCounts, MissionScope DEF MissionIInv
    <2>2. Len(steps) <= Bound
      BY <2>1 DEF MissionIInv, BudgetOK
    <2> QED BY <2>2 DEF StepsWithinBudget, Bound
  <1>2. SubgoalsAreAccounted
    <2> DEFINE A == {p \in Runners : pc[p] = "advancing"}
    <2> SUFFICES ASSUME scope.Serial PROVE Closed(subgoals) <= Done(steps) + crashes + Cardinality(A)
      BY DEF SubgoalsAreAccounted, Closed, Done
    <2>1. IsFiniteSet(A) /\ Cardinality(A) \in Nat
      <3>1. A \subseteq Runners
        OBVIOUS
      <3> HIDE DEF A
      <3> QED BY <3>1, MissionScope, FS_Subset, FS_CardinalityType DEF MissionIInv
    <2>2. AdvancingOne <= Cardinality(A)
      <3>1. CASE AdvancingOne = 1
        <4>1. A # {}
          BY <3>1 DEF AdvancingOne, MissionIInv, LocalOK
        <4>2. Cardinality(A) # 0
          BY <2>1, <4>1, FS_EmptySet
        <4> QED BY <2>1, <3>1, <4>2
      <3>2. CASE AdvancingOne = 0
        BY <2>1, <3>2
      <3> QED BY <3>1, <3>2 DEF AdvancingOne
    <2>3. Closed(subgoals) + MarkingOne <= Done(steps) + crashes + AdvancingOne
      BY DEF MissionIInv, AccountOK
    <2>4. Closed(subgoals) \in Nat /\ Done(steps) \in Nat /\ crashes \in Nat
      BY ClosedCounts, DoneCounts DEF MissionIInv, TypeOK, SubgoalStatuses, StepStatuses, LocalType
    <2>5. MarkingOne \in Nat /\ AdvancingOne \in Nat
      BY DEF MarkingOne, AdvancingOne
    <2> HIDE DEF A
    <2> QED BY <2>1, <2>2, <2>3, <2>4, <2>5
  <1> QED BY <1>1, <1>2

\* A completed mission is verified, its steps are within the budget and its subgoals have their steps, for
\* every scope: any number of runners, operators, crashes and restores.
THEOREM MissionSafe == Spec => []MissionInv
  BY MissionInit, MissionStep, MissionImplied, PTL DEF Spec

\* Where one process works at a time, nothing but the loss of its database takes a mission out of completed.
THEOREM MissionCompletedIsFinal == Spec => CompletedIsFinal
  <1> DEFINE Final == scope.Serial /\ status = "completed" => status' \in {"completed", None}
  <1>1. MissionIInv /\ [Next]_<<vars, scope>> => [Final]_vars
    <2> SUFFICES ASSUME MissionIInv, Next, scope.Serial, status = "completed" PROVE status' \in {"completed", None}
      BY DEF vars
    <2>1. None # "completed"
      BY MissionScope DEF MissionIInv, MissionStatuses
    <2>2. ASSUME NEW p \in Procs, WriteStatus(p) PROVE status' = "completed"
      <3>1. can_transition_mission_status("completed", want[p]) /\ status' = want[p]
        BY <2>2 DEF WriteStatus, MissionIInv, SerialOK
      <3>2. _ALLOWED_TRANSITIONS["completed"] = {"completed"}
        BY DEF _ALLOWED_TRANSITIONS, MissionStatuses
      <3> QED BY <3>1, <3>2 DEF can_transition_mission_status
    <2>3. ASSUME NEW p \in Procs, Step(p), ~WriteStatus(p) PROVE status' = status \/ status' = "completed"
      BY <2>3 DEF Step, ReadStatus, Round, StartStep, CheckBudget, Execute, CloseSubgoal, advance, MarkStep, Verify,
                  Validate, record_verification, Complete, Save, tables
    <2>4. ASSUME NEW p \in Procs, Launch(p) \/ Crash(p) \/ \E s \in {"paused", "active", "canceled"} : Ask(p, s)
          PROVE  status' = status
      BY <2>4 DEF Launch, Crash, Ask, tables
    <2>5. LoseDatabase => status' = None
      BY DEF LoseDatabase
    <2>6. ~load_checkpoint
      BY <2>1 DEF load_checkpoint
    <2> QED BY <2>2, <2>3, <2>4, <2>5, <2>6 DEF Next
  <1> QED BY <1>1, MissionInit, MissionStep, PTL DEF Spec, CompletedIsFinal

-----------------------------------------------------------------------------
(* Campaigns.                                                              *)

Asks == {"paused", "active", "canceled"}
Places == {"off", "inserting", "setting", "reading", "listing", "collecting"}
Wants == (Campaign!Missions \X SUBSET Campaign!Missions) \cup {<<s>> : s \in Asks} \cup {None}

CallersType == cpc \in [Campaign!Callers -> Places] /\ cwant \in [Campaign!Callers -> Wants]

\* What a caller has validated stays true until it writes, where missions are only added.
WantOK(p) ==
    /\ cpc[p] = "inserting" => /\ cwant[p] \in Campaign!Missions \X SUBSET Campaign!Missions
                               /\ cwant[p][1] \notin cwant[p][2]
                               /\ ~Campaign!MayRemove => cwant[p][2] \subseteq Campaign!Entries
    /\ cpc[p] = "setting" => cwant[p] \in {<<s>> : s \in Asks}

Within == ~Campaign!MayRemove => \A m \in Campaign!Entries : depends[m] \subseteq Campaign!Entries

CampaignIInv == Campaign!TypeOK /\ Campaign!CanBeOrdered /\ CallersType /\ Within /\ \A p \in Campaign!Callers : WantOK(p)

\* Everything a behaviour is about stays.
LEMMA CampaignStays ==
    ASSUME cscope' = cscope
    PROVE  Campaign!Missions' = Campaign!Missions /\ Campaign!Callers' = Campaign!Callers /\ Campaign!MayRemove' = Campaign!MayRemove
  BY DEF Campaign!Missions, Campaign!Callers, Campaign!MayRemove

\* Where the missions of the campaign stay as they are, so does their order.
LEMMA CampaignFrame ==
    ASSUME CampaignIInv, cscope' = cscope, UNCHANGED depends, cstatus' \in Campaign!CampaignStatuses,
           mission' \in [Campaign!Missions -> Campaign!MissionStatuses], CallersType', \A p \in Campaign!Callers : WantOK(p)'
    PROVE  CampaignIInv'
  <1>0. Campaign!Missions' = Campaign!Missions /\ Campaign!Callers' = Campaign!Callers /\ Campaign!MayRemove' = Campaign!MayRemove
    BY CampaignStays
  <1>1. Campaign!Entries' = Campaign!Entries
    BY <1>0 DEF Campaign!Entries
  <1>2. Campaign!TypeOK'
    BY <1>0 DEF CampaignIInv, Campaign!TypeOK
  <1>3. Campaign!CanBeOrdered' /\ Within'
    BY <1>0, <1>1 DEF CampaignIInv, Campaign!CanBeOrdered, Within
  <1> QED BY <1>0, <1>2, <1>3 DEF CampaignIInv

\* A caller moves on with what it wants to write.
LEMMA CallerMoves ==
    ASSUME CampaignIInv, cscope' = cscope, UNCHANGED <<depends, mission>>, cstatus' \in Campaign!CampaignStatuses, NEW p \in Campaign!Callers,
           NEW l \in Places, NEW w \in Wants,
           cpc' = [cpc EXCEPT ![p] = l], cwant' = [cwant EXCEPT ![p] = w],
           l = "inserting" => /\ w \in Campaign!Missions \X SUBSET Campaign!Missions /\ w[1] \notin w[2]
                              /\ ~Campaign!MayRemove => w[2] \subseteq Campaign!Entries,
           l = "setting" => w \in {<<s>> : s \in Asks}
    PROVE  CampaignIInv'
  <1>0. Campaign!Missions' = Campaign!Missions /\ Campaign!Callers' = Campaign!Callers /\ Campaign!MayRemove' = Campaign!MayRemove /\ Wants' = Wants
    BY CampaignStays DEF Wants
  <1>1. Campaign!Entries' = Campaign!Entries
    BY <1>0 DEF Campaign!Entries
  <1>2. CallersType'
    BY <1>0 DEF CampaignIInv, CallersType
  <1>3. cpc'[p] = l /\ cwant'[p] = w
    BY DEF CampaignIInv, CallersType
  <1>4. \A q \in Campaign!Callers : WantOK(q)'
    <2> SUFFICES ASSUME NEW q \in Campaign!Callers PROVE WantOK(q)'
      OBVIOUS
    <2>1. CASE q = p
      BY <1>0, <1>1, <1>3, <2>1 DEF WantOK
    <2>2. CASE q # p
      <3>1. cpc'[q] = cpc[q] /\ cwant'[q] = cwant[q]
        BY <2>2 DEF CampaignIInv, CallersType
      <3> QED BY <1>0, <1>1, <3>1 DEF CampaignIInv, WantOK
    <2> QED BY <2>1, <2>2
  <1>5. mission' \in [Campaign!Missions -> Campaign!MissionStatuses]
    BY DEF CampaignIInv, Campaign!TypeOK
  <1> QED BY <1>2, <1>4, <1>5, CampaignFrame

LEMMA InsertStep ==
    ASSUME CampaignIInv, cscope' = cscope, NEW p \in Campaign!Callers, Campaign!Insert(p)
    PROVE  CampaignIInv' /\ (~Campaign!MayRemove => \A m \in Campaign!Missions : depends[m] = None /\ depends'[m] # None => depends'[m] \subseteq Campaign!Entries)
  <1>0. Campaign!Missions' = Campaign!Missions /\ Campaign!Callers' = Campaign!Callers /\ Campaign!MayRemove' = Campaign!MayRemove /\ Wants' = Wants
    BY CampaignStays DEF Wants
  <1>1. cpc[p] = "inserting" /\ UNCHANGED <<mission, cstatus>>
    BY DEF Campaign!Insert
  <1>2. PICK m \in Campaign!Missions, ds \in SUBSET Campaign!Missions : cwant[p] = <<m, ds>>
    BY <1>1 DEF CampaignIInv, WantOK
  <1>3. cwant[p][1] = m /\ cwant[p][2] = ds
    BY <1>2
  <1>4. m \notin ds /\ (~Campaign!MayRemove => ds \subseteq Campaign!Entries)
    BY <1>1, <1>3 DEF CampaignIInv, WantOK
  <1>5. CASE m \in Campaign!Entries
    <2>1. Campaign!Goto(p, "off") /\ cwant' = [cwant EXCEPT ![p] = None] /\ UNCHANGED depends
      BY <1>3, <1>5 DEF Campaign!Insert, Campaign!Exit
    <2>2. CampaignIInv'
      BY <1>1, <2>1, CallerMoves DEF Campaign!Goto, Places, Wants, CampaignIInv, Campaign!TypeOK
    <2> QED BY <2>1, <2>2
  <1>6. CASE m \notin Campaign!Entries
    <2>1. depends' = [depends EXCEPT ![m] = ds] /\ cpc' = [cpc EXCEPT ![p] = "reading"] /\ cwant' = cwant
      BY <1>3, <1>6 DEF Campaign!Insert, Campaign!Goto
    <2>2. depends \in [Campaign!Missions -> (SUBSET Campaign!Missions) \cup {None}] /\ depends[m] = None
      BY <1>6 DEF CampaignIInv, Campaign!TypeOK, Campaign!Entries
    <2>3. depends'[m] = ds /\ \A x \in Campaign!Missions \ {m} : depends'[x] = depends[x]
      BY <2>1, <2>2
    <2>4. Campaign!Entries \subseteq Campaign!Entries' /\ Campaign!Entries' \subseteq Campaign!Entries \cup {m}
      BY <1>0, <2>2, <2>3 DEF Campaign!Entries
    <2>5. Campaign!TypeOK'
      <3>1. depends' \in [Campaign!Missions -> (SUBSET Campaign!Missions) \cup {None}]
        BY <2>1, <2>2
      <3> QED BY <1>0, <1>1, <3>1 DEF CampaignIInv, Campaign!TypeOK
    <2>6. CallersType'
      BY <1>0, <2>1 DEF CampaignIInv, CallersType, Places
    <2>7. \A q \in Campaign!Callers : WantOK(q)'
      <3> SUFFICES ASSUME NEW q \in Campaign!Callers PROVE WantOK(q)'
        OBVIOUS
      <3>1. cpc'[q] \in {"inserting", "setting"} => cpc'[q] = cpc[q]
        BY <2>1 DEF CampaignIInv, CallersType
      <3> QED BY <1>0, <2>1, <2>4, <3>1 DEF CampaignIInv, WantOK
    <2>8. ASSUME ~Campaign!MayRemove
          PROVE  \A x \in Campaign!Entries : depends[x] \subseteq Campaign!Entries /\ depends'[x] = depends[x]
      <3>1. Campaign!Entries \subseteq Campaign!Missions
        BY DEF Campaign!Entries
      <3> QED BY <1>6, <2>3, <2>8, <3>1 DEF CampaignIInv, Within
    <2>9. Within'
      BY <1>0, <1>4, <2>3, <2>4, <2>8 DEF Within
    <2>10. Campaign!CanBeOrdered'
      <3> SUFFICES ASSUME ~Campaign!MayRemove PROVE \A S \in (SUBSET Campaign!Entries') \ {{}} : \E x \in S : depends'[x] \cap S = {}
        BY <1>0 DEF Campaign!CanBeOrdered
      <3>1. \A S \in (SUBSET Campaign!Entries) \ {{}} : \E x \in S : depends[x] \cap S = {}
        BY DEF CampaignIInv, Campaign!CanBeOrdered
      <3>2. depends'[m] \subseteq Campaign!Entries
        BY <1>4, <2>3
      <3>3. \A x \in Campaign!Entries : depends[x] \subseteq Campaign!Entries /\ depends'[x] = depends[x]
        BY <2>8
      <3> SUFFICES ASSUME NEW S \in (SUBSET Campaign!Entries') \ {{}} PROVE \E x \in S : depends'[x] \cap S = {}
        OBVIOUS
      <3>4. CASE S \ {m} = {}
        BY <1>6, <3>2, <3>4
      <3>5. CASE S \ {m} # {}
        <4>1. S \ {m} \in (SUBSET Campaign!Entries) \ {{}}
          BY <2>4, <3>5
        <4>2. PICK x \in S \ {m} : depends[x] \cap (S \ {m}) = {}
          BY <3>1, <4>1
        <4>3. x \in Campaign!Entries /\ m \notin depends[x] /\ depends'[x] = depends[x]
          BY <1>6, <3>3, <4>1, <4>2
        <4> QED BY <4>2, <4>3
      <3> QED BY <3>4, <3>5
    <2>11. ~Campaign!MayRemove => \A x \in Campaign!Missions : depends[x] = None /\ depends'[x] # None => depends'[x] \subseteq Campaign!Entries
      BY <1>4, <2>3
    <2> QED BY <1>0, <2>5, <2>6, <2>7, <2>9, <2>10, <2>11 DEF CampaignIInv
  <1> QED BY <1>5, <1>6

LEMMA RemoveStep ==
    ASSUME CampaignIInv, cscope' = cscope, NEW p \in Campaign!Callers, NEW m \in Campaign!Missions, Campaign!removeMission(p, m)
    PROVE  CampaignIInv'
  <1>0. Campaign!Missions' = Campaign!Missions /\ Campaign!Callers' = Campaign!Callers /\ Campaign!MayRemove' = Campaign!MayRemove /\ Wants' = Wants
    BY CampaignStays DEF Wants
  <1>1. /\ Campaign!MayRemove /\ depends' = [depends EXCEPT ![m] = None] /\ cpc' = [cpc EXCEPT ![p] = "reading"]
        /\ UNCHANGED <<mission, cstatus, cwant>>
    BY DEF Campaign!removeMission, Campaign!Goto
  <1>2. Campaign!TypeOK'
    <2>1. depends' \in [Campaign!Missions -> (SUBSET Campaign!Missions) \cup {None}]
      BY <1>1 DEF CampaignIInv, Campaign!TypeOK
    <2> QED BY <1>0, <1>1, <2>1 DEF CampaignIInv, Campaign!TypeOK
  <1>3. CallersType'
    BY <1>0, <1>1 DEF CampaignIInv, CallersType, Places
  <1>4. ASSUME NEW q \in Campaign!Callers PROVE WantOK(q)'
    <2>1. cpc'[q] \in {"inserting", "setting"} => cpc'[q] = cpc[q]
      BY <1>1 DEF CampaignIInv, CallersType
    <2> QED BY <1>0, <1>1, <2>1 DEF CampaignIInv, WantOK
  <1>5. Campaign!CanBeOrdered' /\ Within'
    BY <1>0, <1>1 DEF Campaign!CanBeOrdered, Within
  <1> QED BY <1>0, <1>2, <1>3, <1>4, <1>5 DEF CampaignIInv

LEMMA CampaignInit == Campaign!Init => CampaignIInv
  <1> SUFFICES ASSUME Campaign!Init PROVE CampaignIInv
    OBVIOUS
  <1>1. Campaign!TypeOK /\ CallersType
    <2>1. mission \in [Campaign!Missions -> Campaign!MissionStatuses]
      BY DEF Campaign!Init, Campaign!MissionStatuses
    <2>2. depends \in [Campaign!Missions -> (SUBSET Campaign!Missions) \cup {None}] /\ cwant \in [Campaign!Callers -> Wants]
      BY DEF Campaign!Init, Wants
    <2>3. cstatus \in Campaign!CampaignStatuses /\ cpc \in [Campaign!Callers -> Places]
      BY DEF Campaign!Init, Campaign!CampaignStatuses, Places
    <2> QED BY <2>1, <2>2, <2>3 DEF Campaign!TypeOK, CallersType
  <1>2. Campaign!Entries = {}
    BY DEF Campaign!Init, Campaign!Entries
  <1>3. Campaign!CanBeOrdered /\ Within
    <2>1. \A S \in SUBSET Campaign!Entries : S = {}
      BY <1>2
    <2> QED BY <1>2, <2>1 DEF Campaign!CanBeOrdered, Within
  <1>4. \A p \in Campaign!Callers : WantOK(p)
    BY DEF Campaign!Init, WantOK
  <1> QED BY <1>1, <1>3, <1>4 DEF CampaignIInv

\* A reconciliation writes a status of a campaign, whatever it has read.
LEMMA DerivedStatus ==
    ASSUME NEW current, NEW read
    PROVE  Campaign!deriveReconciledCampaignStatus(current, read) \in Campaign!CampaignStatuses
  BY DEF Campaign!deriveReconciledCampaignStatus, Campaign!CampaignStatuses

LEMMA CampaignStep ==
    ASSUME CampaignIInv, [Campaign!Next]_<<Campaign!vars, cscope>>
    PROVE  /\ CampaignIInv'
           /\ ~Campaign!MayRemove => \A m \in Campaign!Missions : depends[m] = None /\ depends'[m] # None => depends'[m] \subseteq Campaign!Entries
  <1> DEFINE Added == ~Campaign!MayRemove => \A m \in Campaign!Missions : depends[m] = None /\ depends'[m] # None => depends'[m] \subseteq Campaign!Entries
  <1>1. CASE UNCHANGED <<Campaign!vars, cscope>>
    <2>1. UNCHANGED <<mission, cstatus, depends, cpc, cwant, cscope>>
      BY <1>1 DEF Campaign!vars
    <2>2. Campaign!Missions' = Campaign!Missions /\ Campaign!Callers' = Campaign!Callers /\ Campaign!MayRemove' = Campaign!MayRemove /\ Wants' = Wants /\ Campaign!Entries' = Campaign!Entries
      BY <2>1, CampaignStays DEF Wants, Campaign!Entries
    <2>3. CallersType' /\ (\A p \in Campaign!Callers : WantOK(p)')
      BY <2>1, <2>2 DEF CampaignIInv, CallersType, WantOK
    <2>4. cstatus' \in Campaign!CampaignStatuses /\ mission' \in [Campaign!Missions -> Campaign!MissionStatuses]
      BY <2>1 DEF CampaignIInv, Campaign!TypeOK
    <2>5. CampaignIInv'
      BY <2>1, <2>3, <2>4, CampaignFrame
    <2> QED BY <2>1, <2>5
  <1> SUFFICES ASSUME Campaign!Next PROVE CampaignIInv' /\ Added
    BY <1>1
  <1>0. cscope' = cscope
    BY DEF Campaign!Next
  <1>2. cstatus \in Campaign!CampaignStatuses /\ mission \in [Campaign!Missions -> Campaign!MissionStatuses]
    BY DEF CampaignIInv, Campaign!TypeOK
  <1>3. ASSUME NEW m \in Campaign!Missions, NEW s \in Campaign!MissionStatuses, Campaign!MoveMission(m, s) PROVE CampaignIInv' /\ Added
    <2>1. UNCHANGED <<cstatus, depends, cpc, cwant>> /\ mission' = [mission EXCEPT ![m] = s]
      BY <1>3 DEF Campaign!MoveMission, Campaign!campaign
    <2>2. Campaign!Missions' = Campaign!Missions /\ Campaign!Callers' = Campaign!Callers /\ Campaign!MayRemove' = Campaign!MayRemove /\ Wants' = Wants /\ Campaign!Entries' = Campaign!Entries
      BY <1>0, <2>1, CampaignStays DEF Wants, Campaign!Entries
    <2>3. CallersType' /\ (\A p \in Campaign!Callers : WantOK(p)')
      BY <2>1, <2>2 DEF CampaignIInv, CallersType, WantOK
    <2>4. mission' \in [Campaign!Missions -> Campaign!MissionStatuses]
      BY <1>2, <1>3, <2>1
    <2> QED BY <1>0, <1>2, <2>1, <2>3, <2>4, CampaignFrame
  <1>4. ASSUME NEW p \in Campaign!Callers, Campaign!Get(p) PROVE CampaignIInv' /\ Added
    <2>1. cpc' = [cpc EXCEPT ![p] = "reading"] /\ UNCHANGED <<mission, cstatus, depends, cwant>>
      BY <1>4 DEF Campaign!Get, Campaign!Goto, Campaign!campaign
    <2>2. cwant' = [cwant EXCEPT ![p] = cwant[p]] /\ cwant[p] \in Wants
      BY <2>1 DEF CampaignIInv, CallersType
    <2> QED BY <1>0, <1>2, <2>1, <2>2, CallerMoves DEF Places
  <1>5. ASSUME NEW p \in Campaign!Callers, NEW m \in Campaign!Missions, NEW ds \in SUBSET Campaign!Missions, Campaign!validateCampaignMissionAddition(p, m, ds)
        PROVE  CampaignIInv' /\ Added
    <2>1. UNCHANGED <<mission, cstatus, depends>>
      BY <1>5 DEF Campaign!validateCampaignMissionAddition, Campaign!campaign
    <2>2. CASE m \notin Campaign!Entries /\ m \notin ds /\ ds \subseteq Campaign!Entries
      <3>1. cpc' = [cpc EXCEPT ![p] = "inserting"] /\ cwant' = [cwant EXCEPT ![p] = <<m, ds>>]
        BY <1>5, <2>2 DEF Campaign!validateCampaignMissionAddition, Campaign!Goto
      <3>2. <<m, ds>> \in Campaign!Missions \X SUBSET Campaign!Missions /\ <<m, ds>> \in Wants
        BY <1>5 DEF Wants
      <3> QED BY <1>0, <1>2, <2>1, <2>2, <3>1, <3>2, CallerMoves DEF Places
    <2>3. CASE ~(m \notin Campaign!Entries /\ m \notin ds /\ ds \subseteq Campaign!Entries)
      <3>1. UNCHANGED <<cpc, cwant>>
        BY <1>5, <2>3 DEF Campaign!validateCampaignMissionAddition
      <3>2. Campaign!Missions' = Campaign!Missions /\ Campaign!Callers' = Campaign!Callers /\ Campaign!MayRemove' = Campaign!MayRemove /\ Wants' = Wants /\ Campaign!Entries' = Campaign!Entries
        BY <1>0, <2>1, CampaignStays DEF Wants, Campaign!Entries
      <3>3. CallersType' /\ (\A q \in Campaign!Callers : WantOK(q)')
        BY <3>1, <3>2 DEF CampaignIInv, CallersType, WantOK
      <3> QED BY <1>0, <1>2, <2>1, <3>3, CampaignFrame
    <2> QED BY <2>2, <2>3
  <1>6. ASSUME NEW p \in Campaign!Callers, NEW m \in Campaign!Missions, Campaign!removeMission(p, m) PROVE CampaignIInv' /\ Added
    <2>1. Campaign!MayRemove
      BY <1>6 DEF Campaign!removeMission
    <2> QED BY <1>0, <1>6, <2>1, RemoveStep
  <1>7. ASSUME NEW p \in Campaign!Callers, NEW s \in Asks, Campaign!SetLifecycle(p, s) PROVE CampaignIInv' /\ Added
    <2>1. UNCHANGED <<mission, cstatus, depends>>
      BY <1>7 DEF Campaign!SetLifecycle, Campaign!campaign
    <2>2. CASE Campaign!assertLifecycleTransitionAllowed(cstatus, s)
      <3>1. cpc' = [cpc EXCEPT ![p] = "setting"] /\ cwant' = [cwant EXCEPT ![p] = <<s>>]
        BY <1>7, <2>2 DEF Campaign!SetLifecycle, Campaign!Goto
      <3>2. <<s>> \in {<<a>> : a \in Asks} /\ <<s>> \in Wants
        BY <1>7 DEF Wants
      <3> QED BY <1>0, <1>2, <2>1, <3>1, <3>2, CallerMoves DEF Places
    <2>3. CASE ~Campaign!assertLifecycleTransitionAllowed(cstatus, s)
      <3>1. UNCHANGED <<cpc, cwant>>
        BY <1>7, <2>3 DEF Campaign!SetLifecycle
      <3>2. Campaign!Missions' = Campaign!Missions /\ Campaign!Callers' = Campaign!Callers /\ Campaign!MayRemove' = Campaign!MayRemove /\ Wants' = Wants /\ Campaign!Entries' = Campaign!Entries
        BY <1>0, <2>1, CampaignStays DEF Wants, Campaign!Entries
      <3>3. CallersType' /\ (\A q \in Campaign!Callers : WantOK(q)')
        BY <3>1, <3>2 DEF CampaignIInv, CallersType, WantOK
      <3> QED BY <1>0, <1>2, <2>1, <3>3, CampaignFrame
    <2> QED BY <2>2, <2>3
  <1>8. ASSUME NEW p \in Campaign!Callers, Campaign!Step(p) PROVE CampaignIInv' /\ Added
    <2>1. CASE Campaign!Insert(p)
      BY <1>0, <1>8, <2>1, InsertStep
    <2>2. CASE Campaign!SetStatus(p)
      <3>1. cwant[p] \in {<<s>> : s \in Asks}
        BY <1>8, <2>2 DEF Campaign!SetStatus, CampaignIInv, WantOK
      <3>2. cstatus' \in Campaign!CampaignStatuses
        BY <2>2, <3>1 DEF Campaign!SetStatus, Asks, Campaign!CampaignStatuses
      <3>3. cpc' = [cpc EXCEPT ![p] = "off"] /\ cwant' = [cwant EXCEPT ![p] = None] /\ UNCHANGED <<mission, depends>>
        BY <2>2 DEF Campaign!SetStatus, Campaign!Exit, Campaign!Goto
      <3> QED BY <1>0, <1>8, <3>2, <3>3, CallerMoves DEF Places, Wants
    <2>3. CASE Campaign!ReadCampaign(p) \/ Campaign!ListEntries(p) \/ \E m \in Campaign!Missions : Campaign!ReadMission(p, m)
      <3>1. PICK l \in Places : cpc' = [cpc EXCEPT ![p] = l] /\ l \notin {"inserting", "setting"}
        <4>1. CASE Campaign!ReadCampaign(p)
          BY <4>1 DEF Campaign!ReadCampaign, Campaign!Goto, Places
        <4>2. CASE Campaign!ListEntries(p)
          BY <4>2 DEF Campaign!ListEntries, Campaign!Goto, Places
        <4>3. CASE \E m \in Campaign!Missions : Campaign!ReadMission(p, m)
          <5>1. cpc' = cpc /\ cpc[p] = "collecting"
            BY <4>3 DEF Campaign!ReadMission
          <5>2. cpc' = [cpc EXCEPT ![p] = "collecting"]
            BY <5>1 DEF CampaignIInv, CallersType
          <5> QED BY <5>2 DEF Places
        <4> QED BY <2>3, <4>1, <4>2, <4>3
      <3>2. UNCHANGED <<mission, cstatus, depends, cwant>>
        BY <2>3 DEF Campaign!ReadCampaign, Campaign!ListEntries, Campaign!ReadMission, Campaign!campaign
      <3>3. cwant' = [cwant EXCEPT ![p] = cwant[p]] /\ cwant[p] \in Wants
        BY <1>8, <3>2 DEF CampaignIInv, CallersType
      <3> QED BY <1>0, <1>2, <1>8, <3>1, <3>2, <3>3, CallerMoves
    <2>4. CASE Campaign!Reconcile(p)
      <3>1. cstatus' \in Campaign!CampaignStatuses
        BY <1>2, <2>4, DerivedStatus DEF Campaign!Reconcile
      <3>2. cpc' = [cpc EXCEPT ![p] = "off"] /\ cwant' = [cwant EXCEPT ![p] = None] /\ UNCHANGED <<mission, depends>>
        BY <2>4 DEF Campaign!Reconcile, Campaign!Exit, Campaign!Goto
      <3> QED BY <1>0, <1>8, <3>1, <3>2, CallerMoves DEF Places, Wants
    <2> QED BY <1>8, <2>1, <2>2, <2>3, <2>4 DEF Campaign!Step
  <1> HIDE DEF Added
  <1> QED BY <1>3, <1>4, <1>5, <1>6, <1>7, <1>8 DEF Campaign!Next, Asks

\* The missions of a campaign can be run in some order, also when callers add them at once, for every scope.
THEOREM MissionCampaignSafe == Campaign!Spec => []CampaignInv
  <1>1. CampaignIInv /\ [Campaign!Next]_<<Campaign!vars, cscope>> => CampaignIInv'
    BY CampaignStep
  <1>2. CampaignIInv => CampaignInv
    BY DEF CampaignIInv, CampaignInv, Campaign!CampaignInv
  <1> QED BY CampaignInit, <1>1, <1>2, PTL DEF Campaign!Spec

\* Whoever is added depends on members only, for every scope in which missions are only added.
THEOREM AddedDepends == Campaign!Spec => Campaign!AddedDependsOnMembers
  <1> DEFINE Added == ~Campaign!MayRemove => \A m \in Campaign!Missions : depends[m] = None /\ depends'[m] # None => depends'[m] \subseteq Campaign!Entries
  <1>1. CampaignIInv /\ [Campaign!Next]_<<Campaign!vars, cscope>> => CampaignIInv'
    BY CampaignStep
  <1>2. CampaignIInv /\ [Campaign!Next]_<<Campaign!vars, cscope>> => [Added]_(Campaign!vars)
    BY CampaignStep
  <1> HIDE DEF Added
  <1>3. Campaign!Spec => [][Added]_(Campaign!vars)
    BY CampaignInit, <1>1, <1>2, PTL DEF Campaign!Spec
  <1> USE DEF Added
  <1> QED BY <1>3 DEF Campaign!AddedDependsOnMembers

-----------------------------------------------------------------------------
(* What each statement does to the rows.                                   *)

LEMMA NoRowType == Queue!NoRow \in Queue!Rows /\ Queue!NoRow.attempts = 0 /\ Queue!NoRow.status = "absent"
BY QueueAssumption DEF Queue!NoRow, Queue!Rows, Queue!Statuses

LEMMA EnqueueRows ==
    ASSUME NEW q \in [Tasks -> Queue!Rows], NEW t \in Tasks, NEW now \in BOOLEAN
    PROVE  /\ Queue!enqueue_task(q, t, now) \in [Tasks -> Queue!Rows]
           /\ Queue!enqueue_task(q, t, now)[t].status = "pending"
           /\ Queue!enqueue_task(q, t, now)[t].attempts = 0
           /\ \A u \in Tasks \ {t} : Queue!enqueue_task(q, t, now)[u] = q[u]
BY QueueAssumption DEF Queue!enqueue_task, Queue!NoRow, Queue!Rows, Queue!Statuses

LEMMA ClaimedRow ==
    ASSUME NEW row \in Queue!Rows
    PROVE  /\ Queue!Claimed(row) \in Queue!Rows
           /\ Queue!Claimed(row).status = "running" /\ Queue!Claimed(row).stale = FALSE
           /\ Queue!Claimed(row).attempts = row.attempts + 1
BY DEF Queue!Rows, Queue!Statuses, Queue!Claimed

LEMMA ClaimRows ==
    ASSUME NEW q \in [Tasks -> Queue!Rows], NEW t \in Tasks
    PROVE  /\ Queue!claim(q, t) \in [Tasks -> Queue!Rows]
           /\ Queue!claim(q, t)[t].status = "running"
           /\ Queue!claim(q, t)[t].stale = FALSE
           /\ Queue!claim(q, t)[t].attempts = q[t].attempts + 1
           /\ \A u \in Tasks \ {t} : Queue!claim(q, t)[u] = q[u]
<1>1. q[t] \in Queue!Rows
    OBVIOUS
<1>2. /\ Queue!Claimed(q[t]) \in Queue!Rows
      /\ Queue!Claimed(q[t]).status = "running" /\ Queue!Claimed(q[t]).stale = FALSE
      /\ Queue!Claimed(q[t]).attempts = q[t].attempts + 1
    BY <1>1, ClaimedRow
<1> QED
    BY <1>2 DEF Queue!claim

LEMMA CompleteRows ==
    ASSUME NEW q \in [Tasks -> Queue!Rows], NEW t \in Tasks, NEW n \in Nat
    PROVE  /\ Queue!complete_task(q, t, n) \in [Tasks -> Queue!Rows]
           /\ Queue!complete_task(q, t, n)[t].status = "completed"
           /\ Queue!complete_task(q, t, n)[t].attempts = q[t].attempts
           /\ \A u \in Tasks \ {t} : Queue!complete_task(q, t, n)[u] = q[u]
BY DEF Queue!complete_task, Queue!Rows, Queue!Statuses

LEMMA FailRows ==
    ASSUME NEW q \in [Tasks -> Queue!Rows], NEW t \in Tasks
    PROVE  /\ Queue!fail_task(q, t) \in [Tasks -> Queue!Rows]
           /\ Queue!fail_task(q, t)[t].status = IF Queue!Spent(q[t]) THEN "failed" ELSE "pending"
           /\ Queue!fail_task(q, t)[t].attempts = q[t].attempts
           /\ \A u \in Tasks \ {t} : Queue!fail_task(q, t)[u] = q[u]
BY DEF Queue!fail_task, Queue!Rows, Queue!Statuses

LEMMA SweepRows ==
    ASSUME NEW q \in [Tasks -> Queue!Rows]
    PROVE  /\ Queue!requeue_stale_running(q) \in [Tasks -> Queue!Rows]
           /\ \A t \in Tasks : Queue!requeue_stale_running(q)[t].attempts = q[t].attempts
           /\ \A t \in Tasks : q[t].status = "running" /\ q[t].stale =>
                 Queue!requeue_stale_running(q)[t].status = IF Queue!Spent(q[t]) THEN "failed" ELSE "pending"
           /\ \A t \in Tasks : ~(q[t].status = "running" /\ q[t].stale) =>
                 Queue!requeue_stale_running(q)[t] = q[t]
BY DEF Queue!requeue_stale_running, Queue!StaleRunning, Queue!Swept, Queue!Rows, Queue!Statuses

LEMMA DueRows ==
    ASSUME NEW q \in [Tasks -> Queue!Rows], NEW t \in Tasks
    PROVE  LET r == [q EXCEPT ![t].due = TRUE] IN
           /\ r \in [Tasks -> Queue!Rows]
           /\ r[t].status = q[t].status /\ r[t].attempts = q[t].attempts
           /\ \A u \in Tasks \ {t} : r[u] = q[u]
BY DEF Queue!Rows, Queue!Statuses

LEMMA AgeRows ==
    ASSUME NEW q \in [Tasks -> Queue!Rows], NEW t \in Tasks
    PROVE  LET r == [q EXCEPT ![t].stale = TRUE] IN
           /\ r \in [Tasks -> Queue!Rows]
           /\ r[t].status = q[t].status /\ r[t].attempts = q[t].attempts
           /\ \A u \in Tasks \ {t} : r[u] = q[u]
BY DEF Queue!Rows, Queue!Statuses

-----------------------------------------------------------------------------
(* The inductive invariant.                                                *)
LEMMA InitQueueInv == Queue!Init => Queue!QueueInv
<1> SUFFICES ASSUME Queue!Init PROVE Queue!QueueInv
    OBVIOUS
<1>1. Queue!TypeOK
    BY NoRowType, RunnerAssumption DEF Queue!Init, Queue!TypeOK
<1>2. Queue!AttemptsBounded /\ Queue!FailedIsSpent
    BY NoRowType, QueueAssumption DEF Queue!Init, Queue!AttemptsBounded, Queue!FailedIsSpent
<1>3. Queue!AttemptWasHandedOut /\ Queue!AttemptsAreDistinct /\ Queue!WorkerHasRow /\ Queue!StaleIsUnheld
    BY DEF Queue!Init, Queue!AttemptWasHandedOut, Queue!AttemptsAreDistinct, Queue!WorkerHasRow, Queue!StaleIsUnheld
<1> QED
    BY <1>1, <1>2, <1>3 DEF Queue!QueueInv

(* A runner that goes away, or whose batch is over, only loses threads.    *)
LEMMA GoneType ==
    ASSUME Queue!TypeOK, NEW w \in Workers, Queue!Gone(w)
    PROVE  /\ qpc' \in [Workers -> {"off", "claiming", "processing", "sleeping"}]
           /\ threads' \in [Workers -> SUBSET Queue!Threads]
           /\ claimed' \in [Workers -> 0..Concurrency] /\ succeeded' \in [Workers -> Nat]
           /\ empties' \in [Workers -> Nat] /\ shutdown' \in [Workers -> BOOLEAN]
           /\ \A v \in Workers : threads'[v] \subseteq threads[v]
BY RunnerAssumption DEF Queue!TypeOK, Queue!Gone

LEMMA LoopType ==
    ASSUME Queue!TypeOK, NEW w \in Workers, Queue!Loop(w), empties' \in [Workers -> Nat]
    PROVE  /\ qpc' \in [Workers -> {"off", "claiming", "processing", "sleeping"}]
           /\ threads' \in [Workers -> SUBSET Queue!Threads]
           /\ claimed' \in [Workers -> 0..Concurrency] /\ succeeded' \in [Workers -> Nat]
           /\ empties' \in [Workers -> Nat] /\ shutdown' \in [Workers -> BOOLEAN]
           /\ \A v \in Workers : threads'[v] \subseteq threads[v]
<1>1. CASE shutdown[w]
    BY <1>1, GoneType DEF Queue!Loop
<1>2. CASE ~shutdown[w]
    <2>1. qpc' = [qpc EXCEPT ![w] = "claiming"] /\ Queue!NewBatch(w) /\ shutdown' = shutdown
        BY <1>2 DEF Queue!Loop
    <2> QED
        BY <2>1, RunnerAssumption DEF Queue!TypeOK, Queue!NewBatch
<1> QED
    BY <1>1, <1>2

LEMMA EmptyPollType ==
    ASSUME Queue!TypeOK, NEW w \in Workers, Queue!EmptyPoll(w)
    PROVE  /\ qpc' \in [Workers -> {"off", "claiming", "processing", "sleeping"}]
           /\ threads' \in [Workers -> SUBSET Queue!Threads]
           /\ claimed' \in [Workers -> 0..Concurrency] /\ succeeded' \in [Workers -> Nat]
           /\ empties' \in [Workers -> Nat] /\ shutdown' \in [Workers -> BOOLEAN]
           /\ \A v \in Workers : threads'[v] \subseteq threads[v]
<1>1. CASE MaxEmpty[w] > 0 /\ empties[w] + 1 >= MaxEmpty[w]
    BY <1>1, GoneType DEF Queue!EmptyPoll
<1>2. CASE ~(MaxEmpty[w] > 0 /\ empties[w] + 1 >= MaxEmpty[w])
    BY <1>2, RunnerAssumption DEF Queue!TypeOK, Queue!EmptyPoll, Queue!NewBatch
<1> QED
    BY <1>1, <1>2

(* A step that leaves the table alone and adds no thread keeps QueueInv.       *)
LEMMA FewerThreads ==
    ASSUME Queue!QueueInv, Queue!TypeOK', rows' = rows, slow' = slow,
           \A v \in Workers : threads'[v] \subseteq threads[v]
    PROVE  Queue!QueueInv'
<1>1. Queue!AttemptsBounded' /\ Queue!FailedIsSpent'
    BY DEF Queue!QueueInv, Queue!AttemptsBounded, Queue!FailedIsSpent
<1>2. Queue!AttemptWasHandedOut'
    BY DEF Queue!QueueInv, Queue!AttemptWasHandedOut
<1>3. Queue!AttemptsAreDistinct'
    BY DEF Queue!QueueInv, Queue!AttemptsAreDistinct
<1>4. Queue!WorkerHasRow' /\ Queue!StaleIsUnheld'
    BY DEF Queue!QueueInv, Queue!WorkerHasRow, Queue!StaleIsUnheld
<1> QED
    BY <1>1, <1>2, <1>3, <1>4 DEF Queue!QueueInv
(* A step that takes one thread away and changes at most its row: what is  *)
(* left to show is the new row.  Until a task is slow, nobody else works   *)
(* on that row.                                                            *)
LEMMA ThreadEnds ==
    ASSUME Queue!QueueInv, Queue!TypeOK', slow' = slow,
           NEW w \in Workers, NEW th \in threads[w],
           threads' = [threads EXCEPT ![w] = @ \ {th}],
           \A u \in Tasks \ {th.task} : rows'[u] = rows[u],
           rows'[th.task].attempts = rows[th.task].attempts,
           rows'[th.task].status # "absent",
           rows'[th.task].status = "pending" => rows[th.task].attempts < MaxAttempts,
           rows'[th.task].status = "failed" => Queue!Spent(rows[th.task])
    PROVE  Queue!QueueInv'
<1>1. th \in Queue!Threads /\ th.task \in Tasks
    BY DEF Queue!QueueInv, Queue!TypeOK, Queue!Threads
<1>2. \A v \in Workers : threads'[v] \subseteq threads[v] /\ th \notin threads'[w]
    BY DEF Queue!QueueInv, Queue!TypeOK
<1>3. \A v \in Workers : \A b \in threads'[v] : b \in threads[v] /\ b.task \in Tasks
    BY <1>2 DEF Queue!QueueInv, Queue!TypeOK, Queue!Threads
<1>4. Queue!AttemptsBounded' /\ Queue!FailedIsSpent'
    BY <1>1 DEF Queue!QueueInv, Queue!AttemptsBounded, Queue!FailedIsSpent, Queue!Spent
<1>5. Queue!AttemptWasHandedOut'
    BY <1>1, <1>3 DEF Queue!QueueInv, Queue!AttemptWasHandedOut
<1>6. Queue!AttemptsAreDistinct'
    BY <1>2 DEF Queue!QueueInv, Queue!AttemptsAreDistinct
<1>7. slow = 0 => \A v \in Workers : \A b \in threads'[v] : b.task # th.task
    <2> SUFFICES ASSUME slow = 0, NEW v \in Workers, NEW b \in threads'[v], b.task = th.task
                 PROVE  FALSE
        OBVIOUS
    <2>1. b.attempt = th.attempt
        BY <1>3 DEF Queue!QueueInv, Queue!WorkerHasRow
    <2>2. v = w /\ b = th
        BY <2>1, <1>3 DEF Queue!QueueInv, Queue!AttemptsAreDistinct
    <2> QED
        BY <2>2, <1>2
<1>8. Queue!WorkerHasRow' /\ Queue!StaleIsUnheld'
    BY <1>3, <1>7 DEF Queue!QueueInv, Queue!WorkerHasRow, Queue!StaleIsUnheld
<1> QED
    BY <1>4, <1>5, <1>6, <1>8 DEF Queue!QueueInv

-----------------------------------------------------------------------------
(* One lemma per action that changes the table.                            *)

LEMMA EnqueueStep ==
    ASSUME Queue!QueueInv, NEW t \in Tasks, NEW now \in BOOLEAN, Queue!Enqueue(t, now) PROVE Queue!QueueInv'
<1> USE DEF Queue!Enqueue, Queue!batch, Queue!counters
<1>1. /\ rows' \in [Tasks -> Queue!Rows] /\ rows'[t].status = "pending" /\ rows'[t].attempts = 0
      /\ \A u \in Tasks \ {t} : rows'[u] = rows[u]
    BY EnqueueRows DEF Queue!QueueInv, Queue!TypeOK
<1>2. Queue!TypeOK'
    BY <1>1 DEF Queue!QueueInv, Queue!TypeOK
<1>3. Queue!AttemptsBounded' /\ Queue!FailedIsSpent'
    BY <1>1, QueueAssumption DEF Queue!QueueInv, Queue!AttemptsBounded, Queue!FailedIsSpent, Queue!Spent
<1>4. \A v \in Workers : \A b \in threads[v] : b.task \in Tasks \ {t}
    BY DEF Queue!QueueInv, Queue!TypeOK, Queue!Threads, Queue!AttemptWasHandedOut
<1>5. Queue!AttemptWasHandedOut' /\ Queue!AttemptsAreDistinct' /\ Queue!WorkerHasRow' /\ Queue!StaleIsUnheld'
    BY <1>1, <1>4 DEF Queue!QueueInv, Queue!AttemptWasHandedOut, Queue!AttemptsAreDistinct, Queue!WorkerHasRow, Queue!StaleIsUnheld
<1> QED
    BY <1>2, <1>3, <1>5 DEF Queue!QueueInv

LEMMA StartRunner ==
    ASSUME Queue!QueueInv, NEW w \in Workers, Queue!Start(w) PROVE Queue!QueueInv'
<1> USE DEF Queue!Start, Queue!batch, Queue!counters
<1>1. rows' \in [Tasks -> Queue!Rows] /\ \A t \in Tasks : rows'[t].attempts = rows[t].attempts
    BY SweepRows DEF Queue!QueueInv, Queue!TypeOK
<1>2. \A t \in Tasks : rows[t].status = "running" /\ rows[t].stale =>
            rows'[t].status = IF Queue!Spent(rows[t]) THEN "failed" ELSE "pending"
    BY SweepRows DEF Queue!QueueInv, Queue!TypeOK
<1>3. \A t \in Tasks : ~(rows[t].status = "running" /\ rows[t].stale) => rows'[t] = rows[t]
    BY SweepRows DEF Queue!QueueInv, Queue!TypeOK
<1>4. Queue!TypeOK'
    BY <1>1 DEF Queue!QueueInv, Queue!TypeOK
<1>5. \A t \in Tasks : rows[t].attempts \in Nat
    BY DEF Queue!QueueInv, Queue!TypeOK, Queue!Rows
<1>6. Queue!AttemptsBounded' /\ Queue!FailedIsSpent'
    BY <1>1, <1>2, <1>3, <1>5, QueueAssumption DEF Queue!QueueInv, Queue!AttemptsBounded, Queue!FailedIsSpent, Queue!Spent
<1>7. \A v \in Workers : \A b \in threads[v] : b.task \in Tasks
    BY DEF Queue!QueueInv, Queue!TypeOK, Queue!Threads
<1>8. Queue!AttemptWasHandedOut' /\ Queue!AttemptsAreDistinct'
    BY <1>1, <1>2, <1>3, <1>7 DEF Queue!QueueInv, Queue!AttemptWasHandedOut, Queue!AttemptsAreDistinct
<1>9. slow = 0 => \A v \in Workers : \A b \in threads[v] : rows'[b.task] = rows[b.task]
    BY <1>3, <1>7 DEF Queue!QueueInv, Queue!StaleIsUnheld
<1>10. Queue!WorkerHasRow' /\ Queue!StaleIsUnheld'
    BY <1>9 DEF Queue!QueueInv, Queue!WorkerHasRow, Queue!StaleIsUnheld
<1> QED
    BY <1>4, <1>6, <1>8, <1>10 DEF Queue!QueueInv

LEMMA ClaimStep ==
    ASSUME Queue!QueueInv, NEW w \in Workers, NEW t \in Tasks, Queue!Claim(w, t) PROVE Queue!QueueInv'
<1> DEFINE new == [task |-> t, attempt |-> rows[t].attempts + 1, stage |-> "work"]
<1>1. /\ rows' \in [Tasks -> Queue!Rows] /\ rows'[t].status = "running" /\ rows'[t].stale = FALSE
      /\ rows'[t].attempts = rows[t].attempts + 1
      /\ \A u \in Tasks \ {t} : rows'[u] = rows[u]
    BY ClaimRows DEF Queue!QueueInv, Queue!TypeOK, Queue!Claim
<1>2. rows[t].status = "pending" /\ rows[t].attempts \in Nat /\ rows[t].attempts < MaxAttempts
    BY DEF Queue!QueueInv, Queue!TypeOK, Queue!Rows, Queue!AttemptsBounded, Queue!Claim, Queue!Candidates, Queue!Claimable
<1>3. threads' = [threads EXCEPT ![w] = @ \cup {new}]
    BY <1>1 DEF Queue!Claim
<1>4. new \in Queue!Threads
    BY <1>2 DEF Queue!Threads
<1>5. Queue!TypeOK'
    <2>1. claimed' \in [Workers -> 0..Concurrency]
        BY RunnerAssumption DEF Queue!QueueInv, Queue!TypeOK, Queue!Claim
    <2> QED
        BY <1>1, <1>3, <1>4, <2>1 DEF Queue!QueueInv, Queue!TypeOK, Queue!Claim, Queue!counters
<1>6. \A v \in Workers : \A b \in threads'[v] : b \in threads[v] \/ (v = w /\ b = new)
    BY <1>3 DEF Queue!QueueInv, Queue!TypeOK
<1>7. \A v \in Workers : \A b \in threads[v] : b.task \in Tasks /\ b.attempt \in Nat
    BY DEF Queue!QueueInv, Queue!TypeOK, Queue!Threads
<1>8. \A v \in Workers : \A b \in threads[v] : b.task = t => b.attempt < new.attempt
    BY <1>2, <1>7 DEF Queue!QueueInv, Queue!AttemptWasHandedOut
<1>9. Queue!AttemptsBounded' /\ Queue!FailedIsSpent'
    BY <1>1, <1>2, QueueAssumption DEF Queue!QueueInv, Queue!AttemptsBounded, Queue!FailedIsSpent, Queue!Spent
<1>10. Queue!AttemptWasHandedOut'
    BY <1>1, <1>2, <1>6, <1>7 DEF Queue!QueueInv, Queue!AttemptWasHandedOut
<1>11. Queue!AttemptsAreDistinct'
    <2> SUFFICES ASSUME NEW v \in Workers, NEW u \in Workers, NEW a \in threads'[v], NEW b \in threads'[u],
                        a.task = b.task, a.attempt = b.attempt
                 PROVE  v = u /\ a = b
        BY DEF Queue!AttemptsAreDistinct
    <2>1. CASE a \in threads[v] /\ b \in threads[u]
        BY <2>1 DEF Queue!QueueInv, Queue!AttemptsAreDistinct
    <2>2. CASE a \in threads[v] /\ u = w /\ b = new
        BY <2>2, <1>7, <1>8
    <2>3. CASE v = w /\ a = new /\ b \in threads[u]
        BY <2>3, <1>7, <1>8
    <2>4. CASE v = w /\ a = new /\ u = w /\ b = new
        BY <2>4
    <2> QED
        BY <2>1, <2>2, <2>3, <2>4, <1>6
<1>12. slow = 0 => \A v \in Workers : \A b \in threads[v] : b.task # t
    BY <1>2 DEF Queue!QueueInv, Queue!WorkerHasRow
<1>13. slow' = slow
    BY DEF Queue!Claim, Queue!counters
<1>14. Queue!WorkerHasRow' /\ Queue!StaleIsUnheld'
    BY <1>1, <1>6, <1>7, <1>12, <1>13 DEF Queue!QueueInv, Queue!WorkerHasRow, Queue!StaleIsUnheld
<1> QED
    BY <1>5, <1>9, <1>10, <1>11, <1>14 DEF Queue!QueueInv

LEMMA CompleteStep ==
    ASSUME Queue!QueueInv, NEW w \in Workers, NEW th \in threads[w], Queue!Complete(w, th) PROVE Queue!QueueInv'
<1>1. th.task \in Tasks /\ th.attempt \in Nat
    BY DEF Queue!QueueInv, Queue!TypeOK, Queue!Threads
<1>2. /\ rows' \in [Tasks -> Queue!Rows] /\ rows'[th.task].status = "completed"
      /\ rows'[th.task].attempts = rows[th.task].attempts
      /\ \A u \in Tasks \ {th.task} : rows'[u] = rows[u]
    BY <1>1, CompleteRows DEF Queue!QueueInv, Queue!TypeOK, Queue!Complete
<1>3. Queue!TypeOK' /\ slow' = slow /\ threads' = [threads EXCEPT ![w] = @ \ {th}]
    BY <1>2 DEF Queue!QueueInv, Queue!TypeOK, Queue!Complete, Queue!counters
<1> QED
    BY <1>2, <1>3, ThreadEnds

LEMMA FailStep ==
    ASSUME Queue!QueueInv, NEW w \in Workers, NEW th \in threads[w], Queue!Fail(w, th) PROVE Queue!QueueInv'
<1>1. th.task \in Tasks
    BY DEF Queue!QueueInv, Queue!TypeOK, Queue!Threads
<1>2. /\ rows' \in [Tasks -> Queue!Rows]
      /\ rows'[th.task].status = IF Queue!Spent(rows[th.task]) THEN "failed" ELSE "pending"
      /\ rows'[th.task].attempts = rows[th.task].attempts
      /\ \A u \in Tasks \ {th.task} : rows'[u] = rows[u]
    BY <1>1, FailRows DEF Queue!QueueInv, Queue!TypeOK, Queue!Fail
<1>3. Queue!TypeOK' /\ slow' = slow /\ threads' = [threads EXCEPT ![w] = @ \ {th}]
    BY <1>2 DEF Queue!QueueInv, Queue!TypeOK, Queue!Fail, Queue!counters
<1>4. rows[th.task].attempts \in Nat
    BY <1>1 DEF Queue!QueueInv, Queue!TypeOK, Queue!Rows
<1>5. rows'[th.task].status = "pending" => rows[th.task].attempts < MaxAttempts
    BY <1>2, <1>4, QueueAssumption DEF Queue!Spent
<1>6. rows'[th.task].status # "absent" /\ (rows'[th.task].status = "failed" => Queue!Spent(rows[th.task]))
    BY <1>2
<1> QED
    BY <1>2, <1>3, <1>5, <1>6, ThreadEnds

(* The thread goes on, to its exception handler.                           *)
LEMMA RaiseStep ==
    ASSUME Queue!QueueInv, NEW w \in Workers, NEW th \in threads[w], Queue!Raise(w, th) PROVE Queue!QueueInv'
<1> DEFINE new == [th EXCEPT !.stage = "failing"]
<1>1. new \in Queue!Threads /\ new.task = th.task /\ new.attempt = th.attempt /\ th.task \in Tasks
    BY DEF Queue!QueueInv, Queue!TypeOK, Queue!Threads
<1>2. threads' = [threads EXCEPT ![w] = (@ \ {th}) \cup {new}] /\ rows' = rows /\ slow' = slow
    BY DEF Queue!Raise, Queue!counters
<1>3. Queue!TypeOK'
    BY <1>1, <1>2 DEF Queue!QueueInv, Queue!TypeOK, Queue!Raise, Queue!counters
<1>4. \A v \in Workers : \A b \in threads'[v] : (b \in threads[v] /\ ~(v = w /\ b = th)) \/ (v = w /\ b = new)
    BY <1>2 DEF Queue!QueueInv, Queue!TypeOK
<1> HIDE DEF new
<1>5. Queue!AttemptsBounded' /\ Queue!FailedIsSpent'
    BY <1>2 DEF Queue!QueueInv, Queue!AttemptsBounded, Queue!FailedIsSpent
<1>6. Queue!AttemptWasHandedOut'
    BY <1>1, <1>2, <1>4 DEF Queue!QueueInv, Queue!AttemptWasHandedOut
<1>7. Queue!AttemptsAreDistinct'
    BY <1>1, <1>4 DEF Queue!QueueInv, Queue!AttemptsAreDistinct
<1>8. Queue!WorkerHasRow' /\ Queue!StaleIsUnheld'
    BY <1>1, <1>2, <1>4 DEF Queue!QueueInv, Queue!WorkerHasRow, Queue!StaleIsUnheld
<1> QED
    BY <1>3, <1>5, <1>6, <1>7, <1>8 DEF Queue!QueueInv

LEMMA DueStep ==
    ASSUME Queue!QueueInv, NEW t \in Tasks, Queue!Due(t) PROVE Queue!QueueInv'
<1> USE DEF Queue!Due, Queue!batch, Queue!counters
<1>1. /\ rows' \in [Tasks -> Queue!Rows]
      /\ rows'[t].status = rows[t].status /\ rows'[t].attempts = rows[t].attempts
      /\ \A u \in Tasks \ {t} : rows'[u] = rows[u]
    BY DueRows DEF Queue!QueueInv, Queue!TypeOK
<1>2. Queue!TypeOK'
    BY <1>1 DEF Queue!QueueInv, Queue!TypeOK
<1>3. Queue!AttemptsBounded' /\ Queue!FailedIsSpent'
    BY <1>1 DEF Queue!QueueInv, Queue!AttemptsBounded, Queue!FailedIsSpent, Queue!Spent
<1>4. \A v \in Workers : \A b \in threads[v] : b.task \in Tasks
    BY DEF Queue!QueueInv, Queue!TypeOK, Queue!Threads
<1>5. slow = 0 => \A v \in Workers : \A b \in threads[v] : b.task # t
    BY DEF Queue!QueueInv, Queue!WorkerHasRow
<1>6. Queue!AttemptWasHandedOut' /\ Queue!AttemptsAreDistinct' /\ Queue!WorkerHasRow' /\ Queue!StaleIsUnheld'
    BY <1>1, <1>4, <1>5 DEF Queue!QueueInv, Queue!AttemptWasHandedOut, Queue!AttemptsAreDistinct, Queue!WorkerHasRow, Queue!StaleIsUnheld
<1> QED
    BY <1>2, <1>3, <1>6 DEF Queue!QueueInv

LEMMA AgeStep ==
    ASSUME Queue!QueueInv, NEW t \in Tasks, Queue!Age(t) PROVE Queue!QueueInv'
<1> USE DEF Queue!Age, Queue!batch
<1>1. /\ rows' \in [Tasks -> Queue!Rows]
      /\ rows'[t].status = rows[t].status /\ rows'[t].attempts = rows[t].attempts
      /\ \A u \in Tasks \ {t} : rows'[u] = rows[u]
    BY AgeRows DEF Queue!QueueInv, Queue!TypeOK
<1>2. Queue!TypeOK'
    BY <1>1 DEF Queue!QueueInv, Queue!TypeOK
<1>3. Queue!AttemptsBounded' /\ Queue!FailedIsSpent'
    BY <1>1 DEF Queue!QueueInv, Queue!AttemptsBounded, Queue!FailedIsSpent, Queue!Spent
<1>4. \A v \in Workers : \A b \in threads[v] : b.task \in Tasks
    BY DEF Queue!QueueInv, Queue!TypeOK, Queue!Threads
<1>5. Queue!AttemptWasHandedOut' /\ Queue!AttemptsAreDistinct'
    BY <1>1, <1>4 DEF Queue!QueueInv, Queue!AttemptWasHandedOut, Queue!AttemptsAreDistinct
<1>6. slow' = 0 => slow = 0 /\ \A v \in Workers : \A b \in threads[v] : b.task # t
    BY DEF Queue!QueueInv, Queue!TypeOK, Queue!Held
<1>7. Queue!WorkerHasRow' /\ Queue!StaleIsUnheld'
    BY <1>1, <1>4, <1>6 DEF Queue!QueueInv, Queue!WorkerHasRow, Queue!StaleIsUnheld
<1> QED
    BY <1>2, <1>3, <1>5, <1>7 DEF Queue!QueueInv

(* The actions that leave the table alone and add no thread.               *)
LEMMA QuietStep ==
    ASSUME Queue!QueueInv, NEW w \in Workers,
           \/ Queue!ClaimRaises(w) \/ Queue!Dispatch(w) \/ Queue!EndBatch(w) \/ Queue!Wake(w) \/ Queue!Signal(w) \/ Queue!Crash(w)
           \/ \E th \in threads[w] : Queue!FailRaises(w, th)
    PROVE  Queue!QueueInv'
<1> USE DEF Queue!counters, Queue!batch
<1>0. Queue!TypeOK
    BY DEF Queue!QueueInv
<1>1. CASE Queue!ClaimRaises(w)
    <2>1. Queue!TypeOK' /\ \A v \in Workers : threads'[v] \subseteq threads[v]
        BY <1>0, <1>1, GoneType DEF Queue!ClaimRaises, Queue!TypeOK
    <2> QED
        BY <1>1, <2>1, FewerThreads DEF Queue!ClaimRaises
<1>2. CASE Queue!Dispatch(w)
    <2>1. Queue!TypeOK' /\ \A v \in Workers : threads'[v] \subseteq threads[v]
        <3>1. CASE claimed[w] = 0
            BY <1>0, <1>2, <3>1, EmptyPollType DEF Queue!Dispatch, Queue!TypeOK
        <3>2. CASE claimed[w] # 0
            BY <1>0, <1>2, <3>2 DEF Queue!Dispatch, Queue!TypeOK
        <3> QED
            BY <3>1, <3>2
    <2> QED
        BY <1>2, <2>1, FewerThreads DEF Queue!Dispatch
<1>3. CASE Queue!EndBatch(w)
    <2>1. Queue!TypeOK' /\ \A v \in Workers : threads'[v] \subseteq threads[v]
        <3>1. CASE Queue!Processed(w) = 0
            BY <1>0, <1>3, <3>1, EmptyPollType DEF Queue!EndBatch, Queue!TypeOK
        <3>2. CASE Queue!Processed(w) # 0
            <4>1. empties' \in [Workers -> Nat] /\ Queue!Loop(w)
                BY <1>0, <1>3, <3>2 DEF Queue!EndBatch, Queue!TypeOK
            <4> QED
                BY <1>0, <1>3, <4>1, LoopType DEF Queue!EndBatch, Queue!TypeOK
        <3> QED
            BY <3>1, <3>2
    <2> QED
        BY <1>3, <2>1, FewerThreads DEF Queue!EndBatch
<1>4. CASE Queue!Wake(w)
    <2>1. empties' \in [Workers -> Nat] /\ Queue!Loop(w)
        BY <1>0, <1>4 DEF Queue!Wake, Queue!TypeOK
    <2>2. Queue!TypeOK' /\ \A v \in Workers : threads'[v] \subseteq threads[v]
        BY <1>0, <1>4, <2>1, LoopType DEF Queue!Wake, Queue!TypeOK
    <2> QED
        BY <1>4, <2>2, FewerThreads DEF Queue!Wake
<1>5. CASE Queue!Signal(w)
    <2>1. Queue!TypeOK' /\ \A v \in Workers : threads'[v] \subseteq threads[v]
        BY <1>0, <1>5 DEF Queue!Signal, Queue!TypeOK
    <2> QED
        BY <1>5, <2>1, FewerThreads DEF Queue!Signal
<1>6. CASE Queue!Crash(w)
    <2>1. Queue!TypeOK' /\ \A v \in Workers : threads'[v] \subseteq threads[v]
        BY <1>0, <1>6, GoneType DEF Queue!Crash, Queue!TypeOK
    <2> QED
        BY <1>6, <2>1, FewerThreads DEF Queue!Crash
<1>7. CASE \E th \in threads[w] : Queue!FailRaises(w, th)
    <2>1. Queue!TypeOK' /\ \A v \in Workers : threads'[v] \subseteq threads[v]
        BY <1>0, <1>7 DEF Queue!FailRaises, Queue!TypeOK
    <2> QED
        BY <1>7, <2>1, FewerThreads DEF Queue!FailRaises
<1> QED
    BY <1>1, <1>2, <1>3, <1>4, <1>5, <1>6, <1>7

LEMMA NextQueueInv == Queue!QueueInv /\ [Queue!Next]_(Queue!vars) => Queue!QueueInv'
<1> SUFFICES ASSUME Queue!QueueInv, [Queue!Next]_(Queue!vars) PROVE Queue!QueueInv'
    OBVIOUS
<1>1. CASE \E t \in Tasks : Queue!Due(t) \/ Queue!Age(t) \/ \E now \in BOOLEAN : Queue!Enqueue(t, now)
    BY <1>1, DueStep, AgeStep, EnqueueStep
<1>2. ASSUME NEW w \in Workers, Queue!Start(w) PROVE Queue!QueueInv'
    BY <1>2, StartRunner
<1>3. ASSUME NEW w \in Workers, Queue!RunnerStep(w) PROVE Queue!QueueInv'
    BY <1>3, ClaimStep, QuietStep DEF Queue!RunnerStep
<1>4. ASSUME NEW w \in Workers, NEW th \in threads[w], Queue!ThreadStep(w, th) PROVE Queue!QueueInv'
    BY <1>4, CompleteStep, RaiseStep, FailStep DEF Queue!ThreadStep
<1>5. ASSUME NEW w \in Workers, Queue!Signal(w) \/ Queue!ClaimRaises(w) \/ Queue!Crash(w) \/ \E th \in threads[w] : Queue!FailRaises(w, th)
      PROVE  Queue!QueueInv'
    BY <1>5, QuietStep
<1>6. CASE UNCHANGED Queue!vars
    BY <1>6, FewerThreads DEF Queue!vars, Queue!QueueInv, Queue!TypeOK
<1> QED
    BY <1>1, <1>2, <1>3, <1>4, <1>5, <1>6 DEF Queue!Next

-----------------------------------------------------------------------------
(* The table and the runners stay well formed, a task is handed out at     *)
(* most max_attempts times and dead-letters only when they are used up,    *)
(* and no two executions carry one attempt: for any number of runners,     *)
(* crashes, failing statements and tasks slower than the threshold.        *)
THEOREM QueueSafe == Queue!Spec => []QueueInv
<1>1. Queue!QueueInv => QueueInv
    BY DEF QueueInv
<1> QED
    BY <1>1, InitQueueInv, NextQueueInv, PTL DEF Queue!Spec

(* A dead letter has used every attempt, in particular.                    *)
THEOREM DeadLettersAreSpent == Queue!Spec => []Queue!FailedIsSpent
<1>1. QueueInv => Queue!FailedIsSpent
    BY DEF QueueInv, Queue!QueueInv
<1> QED
    BY <1>1, QueueSafe, PTL

(* A claim is handed to one execution only.                                *)
THEOREM ClaimsAreExclusive == Queue!Spec => []Queue!AttemptsAreDistinct
<1>1. QueueInv => Queue!AttemptsAreDistinct
    BY DEF QueueInv, Queue!QueueInv
<1> QED
    BY <1>1, QueueSafe, PTL

(* Until a task outlives stale_running_after_s, its runner has its row,    *)
(* whatever crashes, sweeps and retries the others go through.             *)
THEOREM RunnerOwnsRow == Queue!Spec => []Queue!WorkerHasRow
<1>1. QueueInv => Queue!WorkerHasRow
    BY DEF QueueInv, Queue!QueueInv
<1> QED
    BY <1>1, QueueSafe, PTL

(* Until then no step of any runner touches an ended row.                  *)
LEMMA EndedStep ==
    ASSUME Queue!QueueInv, Queue!Next, slow = 0, NEW t \in Tasks, rows[t].status \in {"completed", "failed"}
    PROVE  rows'[t] = rows[t]
<1> USE DEF Queue!counters, Queue!batch
<1>0. rows \in [Tasks -> Queue!Rows] /\ \A w \in Workers : threads[w] \subseteq Queue!Threads
    BY DEF Queue!QueueInv, Queue!TypeOK
<1>1. \A w \in Workers : \A th \in threads[w] : th.task \in Tasks /\ th.task # t /\ th.attempt \in Nat
    BY <1>0 DEF Queue!QueueInv, Queue!WorkerHasRow, Queue!Threads
<1>2. ASSUME NEW u \in Tasks, Queue!Due(u) \/ Queue!Age(u) \/ \E now \in BOOLEAN : Queue!Enqueue(u, now) PROVE rows'[t] = rows[t]
    <2>1. u # t
        BY <1>2 DEF Queue!Due, Queue!Age, Queue!Enqueue
    <2> QED
        BY <1>0, <1>2, <2>1, DueRows, AgeRows, EnqueueRows DEF Queue!Due, Queue!Age, Queue!Enqueue
<1>3. ASSUME NEW w \in Workers, Queue!Start(w) PROVE rows'[t] = rows[t]
    BY <1>0, <1>3, SweepRows DEF Queue!Start
<1>4. ASSUME NEW w \in Workers, NEW u \in Tasks, Queue!Claim(w, u) PROVE rows'[t] = rows[t]
    <2>1. u # t
        BY <1>4 DEF Queue!Claim, Queue!Candidates, Queue!Claimable
    <2> QED
        BY <1>0, <1>4, <2>1, ClaimRows DEF Queue!Claim
<1>5. ASSUME NEW w \in Workers, NEW th \in threads[w], Queue!ThreadStep(w, th) PROVE rows'[t] = rows[t]
    BY <1>0, <1>1, <1>5, CompleteRows, FailRows DEF Queue!ThreadStep, Queue!Complete, Queue!Raise, Queue!Fail
<1>6. ASSUME NEW w \in Workers,
             \/ Queue!ClaimRaises(w) \/ Queue!Dispatch(w) \/ Queue!EndBatch(w) \/ Queue!Wake(w) \/ Queue!Signal(w) \/ Queue!Crash(w)
             \/ \E th \in threads[w] : Queue!FailRaises(w, th)
      PROVE  rows'[t] = rows[t]
    BY <1>6 DEF Queue!ClaimRaises, Queue!Dispatch, Queue!EndBatch, Queue!Wake, Queue!Signal, Queue!Crash, Queue!FailRaises
<1> QED
    BY <1>2, <1>3, <1>4, <1>5, <1>6 DEF Queue!Next, Queue!RunnerStep

(* Until a task outlives the threshold, completed and dead-lettered rows   *)
(* are final: no retry, sweep or late write reopens one.                   *)
THEOREM EndedStaysEnded == Queue!Spec => EndedIsFinal
<1>1. Queue!QueueInv /\ [Queue!Next]_(Queue!vars) =>
        [\A t \in Tasks : slow = 0 /\ rows[t].status \in {"completed", "failed"} => rows'[t] = rows[t]]_(Queue!vars)
    BY EndedStep
<1> QED
    BY <1>1, InitQueueInv, NextQueueInv, PTL DEF Queue!Spec, EndedIsFinal, Queue!EndedIsFinal

=============================================================================
