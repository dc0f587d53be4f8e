--------------------------- MODULE GenerationsProofs ----------------------------
(***************************************************************************)
(* Proofs about Generations: the generation loop, for any processes,       *)
(* targets, failures and crashes; the playbook of a scenario, for any runs *)
(* and operators; and its evaluator epochs, for any runs, promoters,       *)
(* deaths and failures.                                                    *)
(***************************************************************************)
EXTENDS Generations, FiniteSetTheorems, NaturalsInduction, WellFoundedInduction, TLAPS

Places == {"off", "reaped", "recovering", "repairing", "refreshing", "starting", "looping", "opening",
           "working", "persisted", "netting", "stalling", "closing", "snapshotting", "announcing"}

(* Before the loop, in a generation, in the loop.                          *)
Entering == {"recovering", "refreshing", "starting"}
InGeneration == {"opening", "working", "persisted", "netting", "stalling"}
InLoop == {"looping", "closing"} \cup InGeneration

Active(p) == pc[p] \notin {"off", "reaped"}

Calls == [existed : RunStatuses \cup {None}, want : Targets, target : Targets, reopen : BOOLEAN,
          g : 1..(MaxTarget + 1), stop : BOOLEAN, stopped : BOOLEAN, left : SUBSET Targets, raised : BOOLEAN]

(* What a process knows, whoever else is at the run.                       *)
CallOK(p) ==
    /\ pc[p] \in Places
    /\ IF Active(p) THEN loc[p] \in Calls ELSE loc[p] = None
    /\ Active(p) /\ loc[p].existed # None => status # None
    /\ Active(p) /\ pc[p] # "starting" => status # None
    /\ pc[p] \in InGeneration => loc[p].g <= loc[p].target

(* The run's row says running only while somebody is left who will end it: *)
(* a process in the loop, one that recovers it, or a worker to reap ...    *)
RunIsOwned ==
    status = "running" =>
        abandoned \/ \E p \in Procs : pc[p] \in InLoop \cup {"recovering", "repairing", "reaped"}

(* ... and a generation's row only while it is worked on, or has a worker  *)
(* to reap: the safety net finds nothing.                                  *)
GenerationsAreOwned ==
    \A g \in Targets : gens[g] = "running" =>
        abandoned \/ \E p \in Procs : pc[p] = "reaped" \/ (pc[p] = "working" /\ loc[p].g = g)

-----------------------------------------------------------------------------
(* While one process is at the run at a time.                              *)
Alone == \A p, q \in Procs : pc[p] # "off" /\ pc[q] # "off" => p = q

AllDone == \A g \in 1..target : gens[g] = "completed"

(* A receipt is of a target that was completed, and passed since then.     *)
ReceiptsOK ==
    \A t \in Targets : /\ receipts[t] <= 1
                       /\ receipts[t] # 0 => t < target \/ (t = target /\ status = "completed")

(* It entered a run that is not stopped, and knows whether it is complete; *)
(* it goes on only if there is something to do.                            *)
EnteringOK(p) ==
    /\ pc[p] \in Entering /\ ~loc[p].raised =>
          status # "stopped" /\ (status = "completed" <=> loc[p].existed = "completed")
    /\ pc[p] \in {"refreshing", "starting"} => ~loc[p].raised
    /\ pc[p] \in Entering \cup {"repairing"} /\ ~loc[p].raised =>
          loc[p].g = 1 /\ (loc[p].existed = None => pc[p] = "starting")
    /\ pc[p] = "starting" /\ loc[p].existed = None => status = None
    /\ pc[p] = "starting" /\ loc[p].existed # None =>
          /\ loc[p].reopen /\ target <= loc[p].target
          /\ status = "completed" => target < loc[p].target

(* It has a run that is running, and all generations before this one.      *)
LoopingOK(p) ==
    /\ pc[p] = "repairing" \/ (pc[p] = "recovering" /\ loc[p].raised) => status = "running"
    /\ pc[p] = "repairing" => loc[p].existed # "completed" \/ loc[p].raised
    /\ pc[p] \in InLoop =>
          /\ status = "running" /\ loc[p].target = target /\ pc[p] # "stalling"
          /\ loc[p].raised => pc[p] = "netting"
          /\ \A g \in 1..(loc[p].g - 1) : gens[g] = "completed"
    /\ pc[p] \in {"persisted", "netting"} =>
          IF loc[p].raised THEN gens[loc[p].g] = "failed" ELSE gens[loc[p].g] = "completed"
    /\ pc[p] = "closing" => loc[p].g > target

(* It completed the run, and has not announced it.                         *)
ClosingOK(p) ==
    /\ pc[p] = "announcing" => ~loc[p].stopped
    /\ pc[p] \in {"snapshotting", "announcing"} /\ ~loc[p].stopped =>
          status = "completed" /\ loc[p].target = target /\ receipts[target] = 0
    /\ pc[p] \in InLoop \cup Entering \cup {"repairing"} => ~loc[p].stopped

SerialOK ==
    scope.Serial =>
        /\ Alone /\ ReceiptsOK
        /\ status = "completed" => AllDone
        /\ \A p \in Procs : EnteringOK(p) /\ LoopingOK(p) /\ ClosingOK(p)

(* The inductive invariant.                                                *)
Inv ==
    /\ scope \in Scopes
    /\ TypeOK
    /\ pc \in [Procs -> Places] /\ DOMAIN loc = Procs
    /\ abandoned \in BOOLEAN
    /\ \A p \in Procs : CallOK(p)
    /\ RunIsOwned /\ GenerationsAreOwned
    /\ SerialOK

-----------------------------------------------------------------------------
(* A step of p, whatever it is.                                            *)

SerialAt(p) ==
    /\ ReceiptsOK
    /\ status = "completed" => AllDone
    /\ EnteringOK(p) /\ LoopingOK(p) /\ ClosingOK(p)

Owning == InLoop \cup {"recovering", "repairing", "reaped"}

(* Nobody but p moves, and nobody forgets what is left to repair.          *)
Moves(p) ==
    /\ scope' = scope
    /\ pc' \in [Procs -> Places] /\ DOMAIN loc' = Procs
    /\ \A q \in Procs \ {p} : pc'[q] = pc[q] /\ loc'[q] = loc[q]
    /\ abandoned' \in BOOLEAN /\ (abandoned => abandoned')
    /\ status # None => status' # None

OwnsAfter(p) ==
    /\ status' = "running" =>
          abandoned' \/ pc'[p] \in Owning \/ (status = "running" /\ pc[p] \notin Owning)
    /\ \A g \in Targets : gens'[g] = "running" =>
          \/ abandoned' \/ pc'[p] = "reaped" \/ (pc'[p] = "working" /\ loc'[p].g = g)
          \/ gens[g] = "running" /\ pc[p] # "reaped" /\ ~(pc[p] = "working" /\ loc[p].g = g)

LEMMA ScopeFacts ==
    ASSUME scope \in Scopes
    PROVE  /\ MaxTarget \in Nat /\ IsFiniteSet(Procs)
           /\ IsFiniteSet(Targets) /\ Targets \subseteq Nat
<1>1. MaxTarget \in Nat /\ IsFiniteSet(Procs)
  BY LoopAssumption DEF MaxTarget, Procs, Commands, Workers
<1> QED BY <1>1, FS_Interval DEF Targets

(* The number of completed generations is one, and at least the target of  *)
(* a run whose generations are all done.                                   *)
LEMMA DoneFacts ==
    ASSUME scope \in Scopes, TypeOK
    PROVE  Done \in Nat /\ (AllDone => Done >= target)
<1> DEFINE C == {g \in Targets : gens[g] = "completed"}
<1>1. IsFiniteSet(C)
  BY ScopeFacts, FS_Subset
<1>2. Done \in Nat
  BY <1>1, FS_CardinalityType DEF Done
<1>3. ASSUME AllDone PROVE Done >= target
  <2>1. target \in Nat /\ 1..target \subseteq Targets
    BY ScopeFacts DEF TypeOK, Targets
  <2>2. 1..target \in SUBSET C
    BY <2>1, <1>3 DEF AllDone
  <2>3. Cardinality(1..target) = target
    BY <2>1, FS_Interval
  <2> QED BY <2>1, <2>2, <2>3, <1>1, <1>2, FS_Subset DEF Done
<1> QED BY <1>2, <1>3

LEMMA OneAlone ==
    ASSUME scope \in Scopes, scope' = scope, OneAtATime
    PROVE  Alone'
<1> DEFINE B == {p \in Procs : pc'[p] # "off"}
<1>1. IsFiniteSet(Procs) /\ Procs' = Procs
  BY ScopeFacts DEF Procs, Commands, Workers
<1>2. IsFiniteSet(B) /\ Cardinality(B) \in Nat
  BY <1>1, FS_Subset, FS_CardinalityType
<1>3. Cardinality(B) <= 1
  BY DEF OneAtATime
<1>4. ASSUME NEW p \in B, NEW q \in B PROVE p = q
  <2>1. CASE Cardinality(B) = 0
    BY <2>1, <1>2, FS_EmptySet
  <2>2. CASE Cardinality(B) = 1
    <3>1. PICK x : B = {x}
      BY <2>2, <1>2, FS_Singleton
    <3> QED BY <3>1
  <2> QED BY <2>1, <2>2, <1>2, <1>3
<1> QED BY <1>1, <1>4 DEF Alone

(* What is to be shown of a step.                                          *)
LEMMA Frame ==
    ASSUME Inv, NEW p \in Procs, Moves(p), OwnsAfter(p), TypeOK', CallOK(p)',
           pc[p] # "off" \/ (pc'[p] # "off" /\ (scope.Serial => Alone')),
           scope.Serial => SerialAt(p)'
    PROVE  Inv'
<1>1. /\ scope' \in Scopes /\ Procs' = Procs /\ Targets' = Targets /\ Calls' = Calls
      /\ scope'.Serial = scope.Serial
  BY DEF Inv, Moves, Procs, Commands, Workers, Targets, MaxTarget, Calls
<1>2. ASSUME NEW q \in Procs PROVE CallOK(q)'
  <2>1. CASE q = p BY <2>1
  <2>2. CASE q # p
    BY <2>2, <1>1 DEF Inv, Moves, CallOK, Active
  <2> QED BY <2>1, <2>2
<1>3. RunIsOwned'
  BY <1>1 DEF Inv, Moves, OwnsAfter, RunIsOwned, Owning
<1>4. GenerationsAreOwned'
  BY <1>1 DEF Inv, Moves, OwnsAfter, GenerationsAreOwned
<1>5. ASSUME scope.Serial
      PROVE  Alone' /\ \A q \in Procs : EnteringOK(q)' /\ LoopingOK(q)' /\ ClosingOK(q)'
  <2>1. Alone'
    BY <1>5, <1>1 DEF Inv, SerialOK, Alone, Moves
  <2>2. ASSUME NEW q \in Procs, q # p, pc'[q] # "off" PROVE FALSE
    <3>1. pc'[q] = pc[q] /\ pc[q] # "off"
      BY <2>2 DEF Moves
    <3>2. pc[p] = "off"
      BY <3>1, <2>2, <1>5 DEF Inv, SerialOK, Alone
    <3> QED BY <3>1, <3>2, <2>1, <2>2, <1>1 DEF Alone
  <2> QED
    <3>1. ASSUME NEW q \in Procs PROVE EnteringOK(q)' /\ LoopingOK(q)' /\ ClosingOK(q)'
      <4>1. CASE q = p BY <4>1, <1>5 DEF SerialAt
      <4>2. CASE pc'[q] = "off"
        BY <4>2 DEF EnteringOK, LoopingOK, ClosingOK, Entering, InLoop, InGeneration
      <4> QED BY <4>1, <4>2, <2>2
    <3> QED BY <3>1, <2>1
<1>6. SerialOK'
  BY <1>1, <1>5 DEF SerialOK, SerialAt
<1> QED BY <1>1, <1>2, <1>3, <1>4, <1>6 DEF Inv, Moves

-----------------------------------------------------------------------------
(* The operations.                                                         *)

(* What every one of them begins with.                                     *)
Stands(p) ==
    /\ scope' = scope /\ Procs' = Procs /\ Targets' = Targets /\ Calls' = Calls /\ MaxTarget' = MaxTarget
    /\ MaxTarget \in Nat /\ Targets = 1..MaxTarget
    /\ TypeOK /\ CallOK(p)
    /\ pc \in [Procs -> Places] /\ DOMAIN loc = Procs /\ abandoned \in BOOLEAN
    /\ scope.Serial => SerialAt(p)

LEMMA StandsHere ==
    ASSUME Inv, NEW p \in Procs, scope' = scope
    PROVE  Stands(p)
BY ScopeFacts DEF Stands, Inv, SerialOK, SerialAt, Calls, Procs, Commands, Workers, Targets, MaxTarget

(* p is gone.                                                              *)
LEMMA Gone ==
    ASSUME NEW p \in Procs, Exit(p), pc \in [Procs -> Places], DOMAIN loc = Procs
    PROVE  /\ pc' \in [Procs -> Places] /\ DOMAIN loc' = Procs
           /\ \A q \in Procs \ {p} : pc'[q] = pc[q] /\ loc'[q] = loc[q]
           /\ pc'[p] \in {"off", "reaped"} /\ CallOK(p)'
           /\ EnteringOK(p)' /\ LoopingOK(p)' /\ ClosingOK(p)'
BY DEF Exit, Goto, Know, CallOK, Active, Places, EnteringOK, LoopingOK, ClosingOK, Entering, InLoop, InGeneration

LEMMA EnterStep ==
    ASSUME Inv, NEW p \in Procs, NEW n \in Targets, Enter(p, n), scope' = scope, scope.Serial => OneAtATime
    PROVE  Inv'
<1>1. Stands(p)
  BY StandsHere
<1> DEFINE new == [existed |-> status, want |-> n, target |-> n, reopen |-> FALSE, g |-> 1,
                   stop |-> FALSE, stopped |-> FALSE, left |-> {}, raised |-> FALSE]
<1>2. /\ loc' = [loc EXCEPT ![p] = new] /\ pc' = [pc EXCEPT ![p] = IF status = None THEN "starting" ELSE "recovering"]
      /\ pc[p] = "off" /\ status # "stopped" /\ UNCHANGED <<rows, tail, abandoned, bounds>>
  BY DEF Enter, Goto, Know
<1>3. new \in Calls
  BY <1>1 DEF Stands, Calls, TypeOK
<1>4. Moves(p) /\ TypeOK' /\ CallOK(p)' /\ OwnsAfter(p)
  BY <1>1, <1>2, <1>3 DEF Stands, Moves, TypeOK, CallOK, Active, OwnsAfter, Owning, InLoop, InGeneration,
     Places, Calls, rows, tail
<1>5. ASSUME scope.Serial PROVE SerialAt(p)' /\ Alone'
  <2>1. Alone'
    BY <1>5, OneAlone DEF Inv
  <2>2. SerialAt(p)'
    BY <1>1, <1>2, <1>5 DEF Stands, SerialAt, ReceiptsOK, AllDone, EnteringOK, LoopingOK, ClosingOK, Entering,
       InLoop, InGeneration, rows, tail
  <2> QED BY <2>1, <2>2
<1>6. pc'[p] # "off"
  BY <1>1, <1>2 DEF Stands
<1> QED BY <1>4, <1>5, <1>6, Frame

LEMMA ReadStaleStep ==
    ASSUME Inv, NEW p \in Procs, ReadStale(p), scope' = scope
    PROVE  Inv'
<1>1. Stands(p)
  BY StandsHere
<1>2. pc[p] = "recovering" /\ UNCHANGED <<rows, tail, abandoned, bounds>> /\ loc[p] \in Calls /\ status # None
  BY <1>1 DEF ReadStale, Stands, CallOK, Active
<1>3. CASE status = "running"
  <2>1. pc' = [pc EXCEPT ![p] = "repairing"] /\ loc' = [loc EXCEPT ![p] = [loc[p] EXCEPT !.left = Running]]
    BY <1>3 DEF ReadStale, Goto, Know
  <2>2. loc'[p] = [loc[p] EXCEPT !.left = Running] /\ loc'[p] \in Calls
    BY <1>1, <1>2, <2>1 DEF Stands, Calls, Running
  <2>3. Moves(p) /\ TypeOK' /\ CallOK(p)' /\ OwnsAfter(p)
    BY <1>1, <1>2, <2>1, <2>2 DEF Stands, Moves, TypeOK, CallOK, Active, OwnsAfter, Owning, InLoop,
       InGeneration, Places, Calls, rows, tail
  <2>4. ASSUME scope.Serial PROVE SerialAt(p)'
    BY <1>1, <1>2, <2>1, <2>2, <2>4, <1>3 DEF Stands, SerialAt, ReceiptsOK, AllDone, EnteringOK, LoopingOK,
       ClosingOK, Entering, InLoop, InGeneration, rows, tail, Calls
  <2> QED BY <2>3, <2>4, <1>2, Frame
<1>4. CASE status # "running" /\ loc[p].raised
  <2>1. Exit(p)
    BY <1>4 DEF ReadStale, Recovered
  <2>2. Moves(p) /\ TypeOK' /\ CallOK(p)' /\ OwnsAfter(p)
    BY <1>1, <1>2, <1>4, <2>1, Gone DEF Stands, Moves, TypeOK, CallOK, Active, OwnsAfter, rows, tail
  <2>3. ASSUME scope.Serial PROVE SerialAt(p)'
    BY <1>1, <1>2, <2>1, <2>3, Gone DEF Stands, SerialAt, ReceiptsOK, AllDone, rows, tail
  <2> QED BY <2>2, <2>3, <1>2, Frame
<1>5. CASE status # "running" /\ ~loc[p].raised
  <2>1. pc' = [pc EXCEPT ![p] = "refreshing"] /\ loc' = [loc EXCEPT ![p] = [loc[p] EXCEPT !.left = {}]]
    BY <1>5 DEF ReadStale, Goto, Know, Recovered
  <2>2. loc'[p] = [loc[p] EXCEPT !.left = {}] /\ loc'[p] \in Calls
    BY <1>1, <1>2, <2>1 DEF Stands, Calls
  <2>3. Moves(p) /\ TypeOK' /\ CallOK(p)' /\ OwnsAfter(p)
    BY <1>1, <1>2, <1>5, <2>1, <2>2 DEF Stands, Moves, TypeOK, CallOK, Active, OwnsAfter, Owning, InLoop,
       InGeneration, Places, Calls, rows, tail
  <2>4. ASSUME scope.Serial PROVE SerialAt(p)'
    BY <1>1, <1>2, <2>1, <2>2, <2>4, <1>5 DEF Stands, SerialAt, ReceiptsOK, AllDone, EnteringOK, LoopingOK,
       ClosingOK, Entering, InLoop, InGeneration, rows, tail, Calls
  <2> QED BY <2>3, <2>4, <1>2, Frame
<1> QED BY <1>3, <1>4, <1>5

LEMMA FailStaleStep ==
    ASSUME Inv, NEW p \in Procs, FailStaleGeneration(p), scope' = scope
    PROVE  Inv'
<1>1. Stands(p)
  BY StandsHere
<1> DEFINE g == CHOOSE g \in loc[p].left : \A h \in loc[p].left : g <= h
<1>2. /\ pc[p] = "repairing" /\ loc[p].left # {} /\ gens' = [gens EXCEPT ![g] = "failed"]
      /\ loc' = [loc EXCEPT ![p] = [loc[p] EXCEPT !.left = @ \ {g}]]
      /\ UNCHANGED <<status, target, tail, pc, abandoned, bounds>>
  BY DEF FailStaleGeneration, Know
<1>3. loc[p] \in Calls /\ status # None
  BY <1>1, <1>2 DEF Stands, CallOK, Active
<1> HIDE DEF g
<1>4. loc'[p] = [loc[p] EXCEPT !.left = @ \ {g}] /\ loc'[p] \in Calls
  BY <1>1, <1>2, <1>3 DEF Stands, Calls
<1>5. \A h \in Targets : gens'[h] = gens[h] \/ gens'[h] = "failed"
  BY <1>1, <1>2 DEF Stands, TypeOK
<1>6. gens' \in [Targets -> {"running", "completed", "failed", None}]
  BY <1>1, <1>2 DEF Stands, TypeOK
<1>7. Moves(p) /\ TypeOK' /\ CallOK(p)' /\ OwnsAfter(p)
  BY <1>1, <1>2, <1>3, <1>4, <1>5, <1>6 DEF Stands, Moves, TypeOK, CallOK, Active, OwnsAfter, Owning, InLoop,
     InGeneration, Places, Calls, tail
<1>8. ASSUME scope.Serial PROVE SerialAt(p)'
  BY <1>1, <1>2, <1>3, <1>4, <1>8 DEF Stands, SerialAt, ReceiptsOK, AllDone, EnteringOK, LoopingOK, ClosingOK,
     Entering, InLoop, InGeneration, tail, Calls
<1> QED BY <1>2, <1>7, <1>8, Frame

LEMMA RunFailedStep ==
    ASSUME Inv, NEW p \in Procs, mark_run_failed(p), scope' = scope
    PROVE  Inv'
<1>1. Stands(p)
  BY StandsHere
<1>2. /\ pc[p] = "repairing" /\ loc[p].left = {} /\ status' = "failed" /\ Recovered(p)
      /\ UNCHANGED <<target, gens, tail, abandoned, bounds>>
  BY DEF mark_run_failed
<1>3. loc[p] \in Calls /\ status # None /\ status' # None
  BY <1>1, <1>2, LoopAssumption DEF Stands, CallOK, Active
<1>4. CASE loc[p].raised
  <2>1. Exit(p)
    BY <1>2, <1>4 DEF Recovered
  <2>2. Moves(p) /\ TypeOK' /\ CallOK(p)' /\ OwnsAfter(p)
    BY <1>1, <1>2, <1>3, <2>1, Gone DEF Stands, Moves, TypeOK, CallOK, Active, OwnsAfter, tail, RunStatuses
  <2>3. ASSUME scope.Serial PROVE SerialAt(p)'
    BY <1>1, <1>2, <2>1, <2>3, Gone DEF Stands, SerialAt, ReceiptsOK, LoopingOK, tail
  <2> QED BY <2>2, <2>3, <1>2, Frame
<1>5. CASE ~loc[p].raised
  <2>1. pc' = [pc EXCEPT ![p] = "refreshing"] /\ loc' = [loc EXCEPT ![p] = [loc[p] EXCEPT !.left = {}]]
    BY <1>2, <1>5 DEF Goto, Know, Recovered
  <2>2. loc'[p] = [loc[p] EXCEPT !.left = {}] /\ loc'[p] \in Calls
    BY <1>1, <1>3, <2>1 DEF Stands, Calls
  <2>3. Moves(p) /\ TypeOK' /\ CallOK(p)' /\ OwnsAfter(p)
    BY <1>1, <1>2, <1>3, <2>1, <2>2 DEF Stands, Moves, TypeOK, CallOK, Active, OwnsAfter, Owning, InLoop,
       InGeneration, Places, Calls, tail, RunStatuses
  <2>4. ASSUME scope.Serial PROVE SerialAt(p)'
    BY <1>1, <1>2, <1>3, <2>1, <2>2, <2>4, <1>5 DEF Stands, SerialAt, ReceiptsOK, AllDone, EnteringOK,
       LoopingOK, ClosingOK, Entering, InLoop, InGeneration, tail, Calls
  <2> QED BY <2>3, <2>4, <1>2, Frame
<1> QED BY <1>4, <1>5

LEMMA RefreshStep ==
    ASSUME Inv, NEW p \in Procs, Refresh(p), scope' = scope
    PROVE  Inv'
<1>1. Stands(p)
  BY StandsHere
<1> DEFINE t == Larger(target, loc[p].want)
<1>2. pc[p] = "refreshing" /\ UNCHANGED <<rows, tail, abandoned, bounds>>
  BY DEF Refresh
<1>3. loc[p] \in Calls /\ status # None
  BY <1>1, <1>2 DEF Stands, CallOK, Active
<1>4. t \in Targets /\ target <= t /\ Done \in Nat
  <2>1. Done \in Nat
    BY DoneFacts DEF Inv
  <2> QED BY <2>1, <1>1, <1>3 DEF Stands, TypeOK, Calls, Larger
<1> HIDE DEF t
<1>5. CASE loc[p].existed = "completed" /\ Done >= t
  <2>1. Exit(p)
    BY <1>5 DEF Refresh, t
  <2>2. Moves(p) /\ TypeOK' /\ CallOK(p)' /\ OwnsAfter(p)
    BY <1>1, <1>2, <2>1, Gone DEF Stands, Moves, TypeOK, CallOK, Active, OwnsAfter, Owning, InLoop,
       InGeneration, Places, Calls, tail, rows
  <2>3. ASSUME scope.Serial PROVE SerialAt(p)'
    BY <1>1, <1>2, <2>1, <2>3, Gone DEF Stands, SerialAt, ReceiptsOK, AllDone, rows, tail
  <2> QED BY <2>2, <2>3, <1>2, Frame
<1>6. CASE ~(loc[p].existed = "completed" /\ Done >= t)
  <2> DEFINE again == status # "completed" \/ Done < t
  <2>1. pc' = [pc EXCEPT ![p] = "starting"] /\ loc' = [loc EXCEPT ![p] = [loc[p] EXCEPT !.target = t, !.reopen = again]]
    BY <1>6 DEF Refresh, Goto, Know, t
  <2>2. again \in BOOLEAN
    OBVIOUS
  <2>3. scope.Serial => again /\ (status = "completed" => target < t)
    <3>1. SUFFICES ASSUME scope.Serial, status = "completed" PROVE Done < t /\ target < t
      BY DEF again
    <3>2. Done < t
      BY <3>1, <1>1, <1>2, <1>4, <1>6, ScopeFacts DEF Stands, SerialAt, EnteringOK, Entering
    <3>3. Done >= target
      BY <3>1, <1>1, DoneFacts DEF Inv, Stands, SerialAt
    <3> QED BY <3>2, <3>3, <1>1, <1>4 DEF Stands, TypeOK
  <2> HIDE DEF again
  <2>4. loc'[p] = [loc[p] EXCEPT !.target = t, !.reopen = again] /\ loc'[p] \in Calls
    BY <1>1, <1>3, <1>4, <2>1, <2>2 DEF Stands, Calls
  <2>5. Moves(p) /\ TypeOK' /\ CallOK(p)' /\ OwnsAfter(p)
    BY <1>1, <1>2, <1>3, <2>1, <2>4 DEF Stands, Moves, TypeOK, CallOK, Active, OwnsAfter, Owning, InLoop,
       InGeneration, Places, Calls, tail, rows
  <2>6. ASSUME scope.Serial PROVE SerialAt(p)'
    BY <1>1, <1>2, <1>3, <1>4, <2>1, <2>3, <2>4, <2>6 DEF Stands, SerialAt, ReceiptsOK, AllDone, EnteringOK,
       LoopingOK, ClosingOK, Entering, InLoop, InGeneration, tail, Calls, rows
  <2> QED BY <2>5, <2>6, <1>2, Frame
<1> QED BY <1>5, <1>6

LEMMA RefusedStep ==
    ASSUME Inv, NEW p \in Procs, HookRefuses(p), scope' = scope
    PROVE  Inv'
<1>1. Stands(p)
  BY StandsHere
<1>2. pc[p] = "starting" /\ Exit(p) /\ UNCHANGED <<rows, tail, abandoned, crashes>>
  BY DEF HookRefuses
<1>3. Moves(p) /\ TypeOK' /\ CallOK(p)' /\ OwnsAfter(p)
  BY <1>1, <1>2, Gone DEF Stands, Moves, TypeOK, CallOK, Active, OwnsAfter, Owning, InLoop, InGeneration,
     Places, Calls, tail, rows
<1>4. ASSUME scope.Serial PROVE SerialAt(p)'
  BY <1>1, <1>2, <1>4, Gone DEF Stands, SerialAt, ReceiptsOK, AllDone, rows, tail
<1> QED BY <1>2, <1>3, <1>4, Frame

LEMMA StartStep ==
    ASSUME Inv, NEW p \in Procs, Start(p), scope' = scope
    PROVE  Inv'
<1>1. Stands(p)
  BY StandsHere
<1>2. /\ pc[p] = "starting" /\ pc' = [pc EXCEPT ![p] = "looping"]
      /\ UNCHANGED <<gens, tail, loc, abandoned, bounds>>
  BY DEF Start, Goto
<1>3. loc[p] \in Calls /\ (loc[p].existed # None => status # None)
  BY <1>1, <1>2 DEF Stands, CallOK, Active
<1>4. \/ status' = "running" /\ target' = loc[p].target
      \/ /\ status' = status /\ target' = target /\ status # None
         /\ ~(IF loc[p].existed = None THEN status = None ELSE loc[p].reopen)
  BY <1>3 DEF Start
<1>5. Moves(p) /\ TypeOK' /\ CallOK(p)' /\ OwnsAfter(p)
  BY <1>1, <1>2, <1>3, <1>4, LoopAssumption DEF Stands, Moves, TypeOK, CallOK, Active, OwnsAfter, Owning,
     InLoop, InGeneration, Places, Calls, tail, RunStatuses
<1>6. ASSUME scope.Serial PROVE SerialAt(p)'
  <2>1. status' = "running" /\ target' = loc[p].target
    BY <1>1, <1>2, <1>4, <1>6 DEF Stands, SerialAt, EnteringOK
  <2>2. loc[p].g = 1
    BY <1>1, <1>2, <1>6 DEF Stands, SerialAt, EnteringOK, Entering
  <2>3. target <= target' /\ (status = "completed" => target < target')
    BY <1>1, <1>2, <1>3, <2>1, <1>6, LoopAssumption DEF Stands, SerialAt, EnteringOK, TypeOK, Calls
  <2>4. ReceiptsOK'
    <3>1. target \in Nat /\ target' \in Nat /\ Targets \subseteq Nat
      BY <1>1, <1>3, <2>1 DEF Stands, TypeOK, Calls
    <3>2. ASSUME NEW t \in Targets PROVE receipts[t] <= 1 /\ (receipts[t] # 0 => t < target')
      BY <1>1, <1>6, <2>3, <3>1 DEF Stands, SerialAt, ReceiptsOK
    <3> QED BY <1>1, <1>2, <3>2 DEF Stands, ReceiptsOK, tail
  <2>5. ~loc[p].raised /\ ~loc[p].stopped
    BY <1>1, <1>2, <1>6 DEF Stands, SerialAt, EnteringOK, ClosingOK, Entering
  <2>6. EnteringOK(p)' /\ LoopingOK(p)' /\ ClosingOK(p)'
    BY <1>1, <1>2, <1>3, <2>1, <2>2, <2>5 DEF Stands, EnteringOK, LoopingOK, ClosingOK, Entering, InLoop,
       InGeneration
  <2> QED BY <2>1, <2>4, <2>6 DEF SerialAt
<1> QED BY <1>2, <1>5, <1>6, Frame

LEMMA RoundStep ==
    ASSUME Inv, NEW p \in Procs, Round(p), scope' = scope
    PROVE  Inv'
<1>1. Stands(p)
  BY StandsHere
<1> DEFINE me == loc[p]
<1>2. pc[p] = "looping" /\ UNCHANGED <<target, gens, tail, abandoned, bounds>>
  BY DEF Round
<1>3. me \in Calls /\ status # None
  BY <1>1, <1>2 DEF Stands, CallOK, Active
<1>4. me.g \in Nat /\ me.target \in Nat /\ me.target <= MaxTarget
  BY <1>1, <1>3 DEF Stands, Calls
<1>5. CASE me.g > me.target
  <2>1. pc' = [pc EXCEPT ![p] = "closing"] /\ UNCHANGED <<status, loc>>
    BY <1>4, <1>5 DEF Round, Goto
  <2>2. Moves(p) /\ TypeOK' /\ CallOK(p)' /\ OwnsAfter(p)
    BY <1>1, <1>2, <1>3, <2>1 DEF Stands, Moves, TypeOK, CallOK, Active, OwnsAfter, Owning, InLoop,
       InGeneration, Places, Calls, tail
  <2>3. ASSUME scope.Serial PROVE SerialAt(p)'
    BY <1>1, <1>2, <1>3, <1>5, <2>1, <2>3 DEF Stands, SerialAt, ReceiptsOK, AllDone, EnteringOK, LoopingOK,
       ClosingOK, Entering, InLoop, InGeneration, tail, Calls
  <2> QED BY <1>2, <2>2, <2>3, Frame
<1>6. CASE me.g <= me.target /\ me.stop
  <2>1. /\ pc' = [pc EXCEPT ![p] = "snapshotting"]
        /\ status' = (IF status = "running" THEN "stopped" ELSE status)
        /\ loc' = [loc EXCEPT ![p] = [me EXCEPT !.stopped = TRUE]]
    BY <1>4, <1>6 DEF Round, Goto, Know
  <2>2. loc'[p] = [me EXCEPT !.stopped = TRUE] /\ loc'[p] \in Calls
    BY <1>1, <1>3, <2>1 DEF Stands, Calls
  <2>3. Moves(p) /\ TypeOK' /\ CallOK(p)' /\ OwnsAfter(p)
    BY <1>1, <1>2, <1>3, <2>1, <2>2, LoopAssumption DEF Stands, Moves, TypeOK, CallOK, Active, OwnsAfter,
       Owning, InLoop, InGeneration, Places, Calls, tail, RunStatuses
  <2>4. ASSUME scope.Serial PROVE SerialAt(p)'
    BY <1>1, <1>2, <1>3, <2>1, <2>2, <2>4 DEF Stands, SerialAt, ReceiptsOK, AllDone, EnteringOK, LoopingOK,
       ClosingOK, Entering, InLoop, InGeneration, tail, Calls
  <2> QED BY <1>2, <2>3, <2>4, Frame
<1>7. CASE me.g <= me.target /\ ~me.stop /\ gens[me.g] = "completed"
  <2>1. loc' = [loc EXCEPT ![p] = [me EXCEPT !.g = @ + 1]] /\ UNCHANGED <<status, pc>>
    BY <1>4, <1>7 DEF Round, Know
  <2>2. loc'[p] = [me EXCEPT !.g = @ + 1] /\ loc'[p] \in Calls
    BY <1>1, <1>3, <1>4, <1>7, <2>1 DEF Stands, Calls
  <2>3. Moves(p) /\ TypeOK' /\ CallOK(p)' /\ OwnsAfter(p)
    BY <1>1, <1>2, <1>3, <2>1, <2>2 DEF Stands, Moves, TypeOK, CallOK, Active, OwnsAfter, Owning, InLoop,
       InGeneration, Places, Calls, tail
  <2>4. ASSUME scope.Serial PROVE SerialAt(p)'
    <3>1. \A h \in 1..(loc'[p].g - 1) : gens[h] = "completed"
      BY <1>1, <1>2, <1>3, <1>4, <1>7, <2>2, <2>4 DEF Stands, SerialAt, LoopingOK, InLoop, Calls
    <3> QED BY <1>1, <1>2, <1>3, <2>1, <2>2, <2>4, <3>1 DEF Stands, SerialAt, ReceiptsOK, AllDone, EnteringOK,
               LoopingOK, ClosingOK, Entering, InLoop, InGeneration, tail, Calls
  <2> QED BY <1>2, <2>3, <2>4, Frame
<1>8. CASE me.g <= me.target /\ ~me.stop /\ gens[me.g] # "completed"
  <2>1. pc' = [pc EXCEPT ![p] = "opening"] /\ UNCHANGED <<status, loc>>
    BY <1>4, <1>8 DEF Round, Goto
  <2>2. Moves(p) /\ TypeOK' /\ CallOK(p)' /\ OwnsAfter(p)
    BY <1>1, <1>2, <1>3, <1>8, <2>1 DEF Stands, Moves, TypeOK, CallOK, Active, OwnsAfter, Owning, InLoop,
       InGeneration, Places, Calls, tail
  <2>3. ASSUME scope.Serial PROVE SerialAt(p)'
    BY <1>1, <1>2, <1>3, <1>8, <2>1, <2>3 DEF Stands, SerialAt, ReceiptsOK, AllDone, EnteringOK, LoopingOK,
       ClosingOK, Entering, InLoop, InGeneration, tail, Calls
  <2> QED BY <1>2, <2>2, <2>3, Frame
<1> QED BY <1>4, <1>5, <1>6, <1>7, <1>8

LEMMA OpenStep ==
    ASSUME Inv, NEW p \in Procs, OpenGeneration(p), scope' = scope
    PROVE  Inv'
<1>1. Stands(p)
  BY StandsHere
<1> DEFINE g == loc[p].g
<1>2. /\ pc[p] = "opening" /\ gens' = [gens EXCEPT ![g] = "running"] /\ pc' = [pc EXCEPT ![p] = "working"]
      /\ UNCHANGED <<status, target, tail, abandoned>> /\ loc' = loc
  BY DEF OpenGeneration, Write, Goto, Know
<1>3. loc[p] \in Calls /\ status # None /\ g <= loc[p].target
  BY <1>1, <1>2 DEF Stands, CallOK, Active, InGeneration
<1>4. g \in Targets /\ g \in Nat
  BY <1>1, <1>3 DEF Stands, Calls
<1>5. /\ gens' \in [Targets -> {"running", "completed", "failed", None}] /\ gens'[g] = "running"
      /\ \A h \in Targets \ {g} : gens'[h] = gens[h]
  BY <1>1, <1>2, <1>4 DEF Stands, TypeOK
<1>6. loc'[p] \in Calls /\ loc'[p].g = g /\ loc'[p] = loc[p]
  BY <1>1, <1>2, <1>3 DEF Stands, Calls
<1> HIDE DEF g
<1>7. Moves(p) /\ TypeOK' /\ CallOK(p)' /\ OwnsAfter(p)
  BY <1>1, <1>2, <1>3, <1>4, <1>5, <1>6 DEF Stands, Moves, TypeOK, CallOK, Active, OwnsAfter, Owning, InLoop,
     InGeneration, Places, Calls, tail, g
<1>8. ASSUME scope.Serial PROVE SerialAt(p)'
  <2>1. status = "running" /\ target = loc[p].target /\ \A h \in 1..(g - 1) : gens'[h] = "completed"
    BY <1>1, <1>2, <1>3, <1>4, <1>5, <1>8 DEF Stands, SerialAt, LoopingOK, InLoop, InGeneration, Calls, g
  <2> QED BY <1>1, <1>2, <1>3, <1>4, <1>5, <1>6, <1>8, <2>1 DEF Stands, SerialAt, ReceiptsOK, AllDone,
             EnteringOK, LoopingOK, ClosingOK, Entering, InLoop, InGeneration, tail, Calls, g
<1> QED BY <1>2, <1>7, <1>8, Frame

LEMMA PersistStep ==
    ASSUME Inv, NEW p \in Procs, stage_persistence(p), scope' = scope
    PROVE  Inv'
<1>1. Stands(p)
  BY StandsHere
<1> DEFINE g == loc[p].g
<1>2. /\ pc[p] = "working" /\ gens' = [gens EXCEPT ![g] = "completed"] /\ pc' = [pc EXCEPT ![p] = "persisted"]
      /\ UNCHANGED <<status, target, tail, abandoned>> /\ loc' = loc
  BY DEF stage_persistence, Write, Goto, Know
<1>3. loc[p] \in Calls /\ status # None /\ g <= loc[p].target
  BY <1>1, <1>2 DEF Stands, CallOK, Active, InGeneration
<1>4. g \in Targets /\ g \in Nat
  BY <1>1, <1>3 DEF Stands, Calls
<1>5. /\ gens' \in [Targets -> {"running", "completed", "failed", None}] /\ gens'[g] = "completed"
      /\ \A h \in Targets \ {g} : gens'[h] = gens[h]
  BY <1>1, <1>2, <1>4 DEF Stands, TypeOK
<1>6. loc'[p] \in Calls /\ loc'[p].g = g /\ loc'[p] = loc[p]
  BY <1>1, <1>2, <1>3 DEF Stands, Calls
<1> HIDE DEF g
<1>7. Moves(p) /\ TypeOK' /\ CallOK(p)' /\ OwnsAfter(p)
  BY <1>1, <1>2, <1>3, <1>4, <1>5, <1>6 DEF Stands, Moves, TypeOK, CallOK, Active, OwnsAfter, Owning, InLoop,
     InGeneration, Places, Calls, tail, g
<1>8. ASSUME scope.Serial PROVE SerialAt(p)'
  <2>1. status = "running" /\ target = loc[p].target /\ \A h \in 1..(g - 1) : gens'[h] = "completed"
    BY <1>1, <1>2, <1>3, <1>4, <1>5, <1>8 DEF Stands, SerialAt, LoopingOK, InLoop, InGeneration, Calls, g
  <2> QED BY <1>1, <1>2, <1>3, <1>4, <1>5, <1>6, <1>8, <2>1 DEF Stands, SerialAt, ReceiptsOK, AllDone,
             EnteringOK, LoopingOK, ClosingOK, Entering, InLoop, InGeneration, tail, Calls, g
<1> QED BY <1>2, <1>7, <1>8, Frame

LEMMA FailsStep ==
    ASSUME Inv, NEW p \in Procs, GenerationFails(p), scope' = scope
    PROVE  Inv'
<1>1. Stands(p)
  BY StandsHere
<1> DEFINE g == loc[p].g
<1>2. /\ pc[p] \in {"working", "persisted"} /\ gens' = [gens EXCEPT ![g] = "failed"] /\ pc' = [pc EXCEPT ![p] = "netting"]
      /\ UNCHANGED <<status, target, tail, abandoned>> /\ loc' = [loc EXCEPT ![p] = [loc[p] EXCEPT !.raised = TRUE]]
  BY DEF GenerationFails, Write, Goto, Know
<1>3. loc[p] \in Calls /\ status # None /\ g <= loc[p].target
  BY <1>1, <1>2 DEF Stands, CallOK, Active, InGeneration
<1>4. g \in Targets /\ g \in Nat
  BY <1>1, <1>3 DEF Stands, Calls
<1>5. /\ gens' \in [Targets -> {"running", "completed", "failed", None}] /\ gens'[g] = "failed"
      /\ \A h \in Targets \ {g} : gens'[h] = gens[h]
  BY <1>1, <1>2, <1>4 DEF Stands, TypeOK
<1>6. loc'[p] \in Calls /\ loc'[p].g = g /\ loc'[p] = [loc[p] EXCEPT !.raised = TRUE]
  BY <1>1, <1>2, <1>3 DEF Stands, Calls
<1> HIDE DEF g
<1>7. Moves(p) /\ TypeOK' /\ CallOK(p)' /\ OwnsAfter(p)
  BY <1>1, <1>2, <1>3, <1>4, <1>5, <1>6 DEF Stands, Moves, TypeOK, CallOK, Active, OwnsAfter, Owning, InLoop,
     InGeneration, Places, Calls, tail, g
<1>8. ASSUME scope.Serial PROVE SerialAt(p)'
  <2>1. status = "running" /\ target = loc[p].target /\ \A h \in 1..(g - 1) : gens'[h] = "completed"
    BY <1>1, <1>2, <1>3, <1>4, <1>5, <1>8 DEF Stands, SerialAt, LoopingOK, InLoop, InGeneration, Calls, g
  <2> QED BY <1>1, <1>2, <1>3, <1>4, <1>5, <1>6, <1>8, <2>1 DEF Stands, SerialAt, ReceiptsOK, AllDone,
             EnteringOK, LoopingOK, ClosingOK, Entering, InLoop, InGeneration, tail, Calls, g
<1> QED BY <1>2, <1>7, <1>8, Frame

LEMMA ReturnsStep ==
    ASSUME Inv, NEW p \in Procs, GenerationReturns(p), scope' = scope
    PROVE  Inv'
<1>1. Stands(p)
  BY StandsHere
<1>2. pc[p] = "persisted" /\ pc' = [pc EXCEPT ![p] = "netting"] /\ UNCHANGED <<rows, tail, loc, abandoned>>
  BY DEF GenerationReturns, Goto
<1>3. loc[p] \in Calls /\ status # None
  BY <1>1, <1>2 DEF Stands, CallOK, Active
<1>4. Moves(p) /\ TypeOK' /\ CallOK(p)' /\ OwnsAfter(p)
  BY <1>1, <1>2, <1>3 DEF Stands, Moves, TypeOK, CallOK, Active, OwnsAfter, Owning, InLoop, InGeneration,
     Places, Calls, tail, rows
<1>5. ASSUME scope.Serial PROVE SerialAt(p)'
  BY <1>1, <1>2, <1>3, <1>5 DEF Stands, SerialAt, ReceiptsOK, AllDone, EnteringOK, LoopingOK, ClosingOK,
     Entering, InLoop, InGeneration, tail, Calls, rows
<1> QED BY <1>2, <1>4, <1>5, Frame

(* p leaves its generation, whose row says no longer running.              *)
LEMMA LeaveStep ==
    ASSUME Inv, NEW p \in Procs, Leave(p), scope' = scope, pc[p] \in {"netting", "stalling"},
           UNCHANGED <<status, target, tail, abandoned>>,
           gens' \in [Targets -> {"running", "completed", "failed", None}],
           \A g \in Targets : gens'[g] = gens[g] \/ gens'[g] = "failed",
           scope.Serial => gens' = gens
    PROVE  Inv'
<1>1. Stands(p)
  BY StandsHere
<1>2. loc[p] \in Calls /\ status # None /\ loc[p].g <= loc[p].target /\ loc[p].target <= MaxTarget
  BY <1>1 DEF Stands, CallOK, Active, InGeneration, Calls
<1>3. CASE loc[p].raised
  <2>1. pc' = [pc EXCEPT ![p] = "recovering"] /\ UNCHANGED loc
    BY <1>3 DEF Leave, Goto
  <2>2. Moves(p) /\ TypeOK' /\ CallOK(p)' /\ OwnsAfter(p)
    BY <1>1, <1>2, <2>1 DEF Stands, Moves, TypeOK, CallOK, Active, OwnsAfter, Owning, InLoop, InGeneration,
       Places, Calls, tail
  <2>3. ASSUME scope.Serial PROVE SerialAt(p)'
    BY <1>1, <1>2, <1>3, <2>1, <2>3 DEF Stands, SerialAt, ReceiptsOK, AllDone, EnteringOK, LoopingOK,
       ClosingOK, Entering, InLoop, InGeneration, tail, Calls
  <2> QED BY <2>2, <2>3, Frame
<1>4. CASE ~loc[p].raised
  <2>1. pc' = [pc EXCEPT ![p] = "looping"] /\ loc' = [loc EXCEPT ![p] = [loc[p] EXCEPT !.g = @ + 1]]
    BY <1>4 DEF Leave, Goto, Know
  <2>2. loc'[p] = [loc[p] EXCEPT !.g = @ + 1] /\ loc'[p] \in Calls
    <3>1. loc[p].g + 1 \in 1..(MaxTarget + 1)
      BY <1>1, <1>2 DEF Stands, Calls
    <3> QED BY <1>1, <1>2, <2>1, <3>1 DEF Stands, Calls
  <2>3. Moves(p) /\ TypeOK' /\ CallOK(p)' /\ OwnsAfter(p)
    BY <1>1, <1>2, <2>1, <2>2 DEF Stands, Moves, TypeOK, CallOK, Active, OwnsAfter, Owning, InLoop,
       InGeneration, Places, Calls, tail
  <2>4. ASSUME scope.Serial PROVE SerialAt(p)'
    <3>1. \A h \in 1..(loc'[p].g - 1) : gens'[h] = "completed"
      BY <1>1, <1>2, <1>4, <2>2, <2>4 DEF Stands, SerialAt, LoopingOK, InLoop, InGeneration, Calls
    <3> QED BY <1>1, <1>2, <1>4, <2>1, <2>2, <2>4, <3>1 DEF Stands, SerialAt, ReceiptsOK, AllDone, EnteringOK,
               LoopingOK, ClosingOK, Entering, InLoop, InGeneration, tail, Calls
  <2> QED BY <2>3, <2>4, Frame
<1> QED BY <1>3, <1>4

LEMMA ReadNetStep ==
    ASSUME Inv, NEW p \in Procs, ReadNet(p), scope' = scope
    PROVE  Inv'
<1>1. Stands(p)
  BY StandsHere
<1>2. pc[p] = "netting" /\ UNCHANGED <<rows, tail, abandoned>> /\ TypeOK
  BY <1>1 DEF ReadNet, Stands
<1>3. CASE gens[loc[p].g] # "running"
  BY <1>2, <1>3, LeaveStep DEF ReadNet, rows, TypeOK
<1>4. CASE gens[loc[p].g] = "running"
  <2>1. pc' = [pc EXCEPT ![p] = "stalling"] /\ UNCHANGED loc
    BY <1>4 DEF ReadNet, Goto
  <2>2. Moves(p) /\ TypeOK' /\ CallOK(p)' /\ OwnsAfter(p)
    BY <1>1, <1>2, <2>1 DEF Stands, Moves, TypeOK, CallOK, Active, OwnsAfter, Owning, InLoop, InGeneration,
       Places, Calls, tail, rows
  <2>3. ~scope.Serial
    BY <1>1, <1>2, <1>4 DEF Stands, SerialAt, LoopingOK
  <2> QED BY <1>2, <2>2, <2>3, Frame
<1> QED BY <1>3, <1>4

LEMMA StalledStep ==
    ASSUME Inv, NEW p \in Procs, MarkStalled(p), scope' = scope
    PROVE  Inv'
<1>1. Stands(p)
  BY StandsHere
<1>2. /\ pc[p] = "stalling" /\ Leave(p) /\ gens' = [gens EXCEPT ![loc[p].g] = "failed"] /\ TypeOK
      /\ UNCHANGED <<status, target, tail, abandoned>>
  BY <1>1 DEF MarkStalled, Stands, Write
<1>3. /\ gens' \in [Targets -> {"running", "completed", "failed", None}]
      /\ \A g \in Targets : gens'[g] = gens[g] \/ gens'[g] = "failed"
  BY <1>2 DEF TypeOK
<1>4. ~scope.Serial
  BY <1>1, <1>2 DEF Stands, SerialAt, LoopingOK, InLoop, InGeneration
<1> QED BY <1>2, <1>3, <1>4, LeaveStep

LEMMA RunCompletedStep ==
    ASSUME Inv, NEW p \in Procs, mark_run_completed(p), scope' = scope
    PROVE  Inv'
<1>1. Stands(p)
  BY StandsHere
<1>2. /\ pc[p] = "closing" /\ pc' = [pc EXCEPT ![p] = "snapshotting"] /\ UNCHANGED <<target, gens, tail, loc, abandoned>>
      /\ status' = IF status # "stopped" THEN "completed" ELSE status
  BY DEF mark_run_completed, Goto
<1>3. loc[p] \in Calls /\ status # None
  BY <1>1, <1>2 DEF Stands, CallOK, Active
<1>4. Moves(p) /\ TypeOK' /\ CallOK(p)' /\ OwnsAfter(p)
  BY <1>1, <1>2, <1>3, LoopAssumption DEF Stands, Moves, TypeOK, CallOK, Active, OwnsAfter, Owning, InLoop,
     InGeneration, Places, Calls, tail, RunStatuses
<1>5. ASSUME scope.Serial PROVE SerialAt(p)'
  <2>1. /\ status = "running" /\ status' = "completed" /\ loc[p].target = target /\ ~loc[p].stopped
        /\ loc[p].g > target /\ \A g \in 1..(loc[p].g - 1) : gens[g] = "completed"
    BY <1>1, <1>2, <1>5 DEF Stands, SerialAt, LoopingOK, ClosingOK, InLoop
  <2>2. AllDone' /\ target \in Targets
    BY <1>1, <1>2, <1>3, <2>1 DEF Stands, AllDone, Calls
  <2>3. receipts[target] = 0
    BY <1>1, <1>5, <2>1, <2>2 DEF Stands, SerialAt, ReceiptsOK, TypeOK
  <2> QED BY <1>1, <1>2, <1>3, <1>5, <2>1, <2>2, <2>3 DEF Stands, SerialAt, ReceiptsOK, AllDone, EnteringOK,
             LoopingOK, ClosingOK, Entering, InLoop, InGeneration, tail, Calls
<1> QED BY <1>2, <1>4, <1>5, Frame

LEMMA SnapshotStep ==
    ASSUME Inv, NEW p \in Procs, save_knowledge_snapshot(p), scope' = scope
    PROVE  Inv'
<1>1. Stands(p)
  BY StandsHere
<1>2. /\ pc[p] = "snapshotting" /\ snapshots' = snapshots \cup {loc[p].target}
      /\ UNCHANGED <<rows, receipts, abandoned>>
  BY DEF save_knowledge_snapshot
<1>3. loc[p] \in Calls /\ status # None
  BY <1>1, <1>2 DEF Stands, CallOK, Active
<1>4. CASE loc[p].stopped
  <2>1. Exit(p)
    BY <1>4 DEF save_knowledge_snapshot
  <2>2. Moves(p) /\ TypeOK' /\ CallOK(p)' /\ OwnsAfter(p)
    BY <1>1, <1>2, <1>3, <2>1, Gone DEF Stands, Moves, TypeOK, CallOK, Active, OwnsAfter, Owning, InLoop,
       InGeneration, Places, Calls, tail, rows
  <2>3. ASSUME scope.Serial PROVE SerialAt(p)'
    BY <1>1, <1>2, <2>1, <2>3, Gone DEF Stands, SerialAt, ReceiptsOK, AllDone, rows
  <2> QED BY <1>2, <2>2, <2>3, Frame
<1>5. CASE ~loc[p].stopped
  <2>1. pc' = [pc EXCEPT ![p] = "announcing"] /\ UNCHANGED loc
    BY <1>5 DEF save_knowledge_snapshot, Goto
  <2>2. Moves(p) /\ TypeOK' /\ CallOK(p)' /\ OwnsAfter(p)
    BY <1>1, <1>2, <1>3, <2>1 DEF Stands, Moves, TypeOK, CallOK, Active, OwnsAfter, Owning, InLoop,
       InGeneration, Places, Calls, tail, rows
  <2>3. ASSUME scope.Serial PROVE SerialAt(p)'
    BY <1>1, <1>2, <1>3, <1>5, <2>1, <2>3 DEF Stands, SerialAt, ReceiptsOK, AllDone, EnteringOK, LoopingOK,
       ClosingOK, Entering, InLoop, InGeneration, tail, Calls, rows
  <2> QED BY <1>2, <2>2, <2>3, Frame
<1> QED BY <1>4, <1>5

LEMMA AnnounceStep ==
    ASSUME Inv, NEW p \in Procs, Announce(p), scope' = scope
    PROVE  Inv'
<1>1. Stands(p)
  BY StandsHere
<1> DEFINE t == loc[p].target
<1>2. /\ pc[p] = "announcing" /\ Exit(p) /\ UNCHANGED <<rows, snapshots, abandoned>>
      /\ receipts' = [receipts EXCEPT ![t] = IF @ < 2 THEN @ + 1 ELSE @]
  BY DEF Announce
<1>3. loc[p] \in Calls /\ t \in Targets
  BY <1>1, <1>2 DEF Stands, CallOK, Active, Calls
<1> HIDE DEF t
<1>4. receipts' \in [Targets -> 0..2] /\ (receipts[t] = 0 => receipts'[t] = 1)
      /\ \A u \in Targets \ {t} : receipts'[u] = receipts[u]
  BY <1>1, <1>2, <1>3 DEF Stands, TypeOK
<1>5. Moves(p) /\ TypeOK' /\ CallOK(p)' /\ OwnsAfter(p)
  BY <1>1, <1>2, <1>4, Gone DEF Stands, Moves, TypeOK, CallOK, Active, OwnsAfter, Owning, InLoop, InGeneration,
     Places, Calls, tail, rows
<1>6. ASSUME scope.Serial PROVE SerialAt(p)'
  <2>1. status = "completed" /\ t = target /\ receipts[t] = 0
    BY <1>1, <1>2, <1>6 DEF Stands, SerialAt, ClosingOK, t
  <2>2. ReceiptsOK'
    BY <1>1, <1>2, <1>3, <1>4, <1>6, <2>1 DEF Stands, SerialAt, ReceiptsOK, rows
  <2> QED BY <1>1, <1>2, <1>6, <2>2, Gone DEF Stands, SerialAt, AllDone, rows
<1> QED BY <1>2, <1>5, <1>6, Frame

LEMMA RequestStopStep ==
    ASSUME Inv, NEW p \in Procs, RequestStop(p), scope' = scope
    PROVE  Inv'
<1>1. Stands(p)
  BY StandsHere
<1>2. /\ loc[p] # None /\ loc' = [loc EXCEPT ![p] = [loc[p] EXCEPT !.stop = TRUE]]
      /\ UNCHANGED <<rows, tail, pc, abandoned>>
  BY DEF RequestStop, Know
<1>3. Active(p) /\ loc[p] \in Calls
  BY <1>1, <1>2 DEF Stands, CallOK
<1>4. loc'[p] = [loc[p] EXCEPT !.stop = TRUE] /\ loc'[p] \in Calls
  BY <1>1, <1>2, <1>3 DEF Stands, Calls
<1>5. Moves(p) /\ TypeOK' /\ CallOK(p)' /\ OwnsAfter(p)
  BY <1>1, <1>2, <1>3, <1>4 DEF Stands, Moves, TypeOK, CallOK, Active, OwnsAfter, Owning, InLoop, InGeneration,
     Places, Calls, tail, rows
<1>6. ASSUME scope.Serial PROVE SerialAt(p)'
  BY <1>1, <1>2, <1>3, <1>4, <1>6 DEF Stands, SerialAt, ReceiptsOK, AllDone, EnteringOK, LoopingOK, ClosingOK,
     Entering, InLoop, InGeneration, tail, Calls, rows
<1>7. pc[p] # "off"
  BY <1>3 DEF Active
<1> QED BY <1>5, <1>6, <1>7, Frame

LEMMA CrashStep ==
    ASSUME Inv, NEW p \in Procs, Crash(p), scope' = scope
    PROVE  Inv'
<1>1. Stands(p)
  BY StandsHere
<1>2. /\ pc[p] # "off" /\ loc' = [loc EXCEPT ![p] = None] /\ UNCHANGED <<rows, tail>>
      /\ \/ pc' = [pc EXCEPT ![p] = "reaped"] /\ abandoned' = abandoned
         \/ pc' = [pc EXCEPT ![p] = "off"] /\ abandoned' = TRUE
  BY DEF Crash, Goto, Know
<1>3. TypeOK'
  BY <1>1, <1>2 DEF Stands, TypeOK, rows, tail
<1>4. abandoned' \in BOOLEAN /\ (abandoned => abandoned')
  <2>1. abandoned' = abandoned \/ abandoned' = TRUE
    BY <1>2
  <2>2. abandoned \in BOOLEAN
    BY <1>1 DEF Stands
  <2>3. CASE abandoned' = TRUE
    BY <2>3, Zenon
  <2>4. CASE abandoned' = abandoned
    BY <2>2, <2>4, Zenon
  <2> QED BY <2>1, <2>3, <2>4
<1>5. /\ pc' \in [Procs -> Places] /\ loc'[p] = None /\ DOMAIN loc' = Procs
      /\ pc'[p] = "reaped" \/ (pc'[p] = "off" /\ abandoned')
      /\ \A q \in Procs \ {p} : pc'[q] = pc[q] /\ loc'[q] = loc[q]
  BY <1>1, <1>2 DEF Stands, Places
<1>6. Moves(p) /\ CallOK(p)' /\ OwnsAfter(p)
  BY <1>1, <1>2, <1>4, <1>5 DEF Stands, Moves, CallOK, Active, OwnsAfter, Owning, InGeneration, Places, rows
<1>7. ASSUME scope.Serial PROVE SerialAt(p)'
  BY <1>1, <1>2, <1>5, <1>7 DEF Stands, SerialAt, ReceiptsOK, AllDone, EnteringOK, LoopingOK, ClosingOK,
     Entering, InLoop, InGeneration, tail, Calls, rows
<1> QED BY <1>2, <1>3, <1>6, <1>7, Frame

LEMMA ReapedStep ==
    ASSUME Inv, NEW p \in Procs, mark_running_run_and_generations_failed(p), scope' = scope
    PROVE  Inv'
<1>1. Stands(p)
  BY StandsHere
<1>2. /\ pc[p] = "reaped" /\ pc' = [pc EXCEPT ![p] = "off"] /\ UNCHANGED <<target, tail, loc, abandoned>>
      /\ gens' = [g \in Targets |-> IF gens[g] = "running" THEN "failed" ELSE gens[g]]
      /\ status' = IF status = "running" THEN "failed" ELSE status
  BY DEF mark_running_run_and_generations_failed, Goto
<1>3. Moves(p) /\ TypeOK' /\ CallOK(p)' /\ OwnsAfter(p)
  <2>1. /\ gens' \in [Targets -> {"running", "completed", "failed", None}]
        /\ \A g \in Targets : gens'[g] # "running"
        /\ status' # "running" /\ (status' = None <=> status = None) /\ status' \in RunStatuses \cup {None}
    BY <1>1, <1>2, LoopAssumption DEF Stands, TypeOK, RunStatuses
  <2>2. pc' \in [Procs -> Places] /\ pc'[p] = "off" /\ loc'[p] = None
    BY <1>1, <1>2 DEF Stands, CallOK, Active, Places
  <2>3. TypeOK'
    BY <1>1, <1>2, <2>1 DEF Stands, TypeOK, tail
  <2>4. Moves(p) /\ CallOK(p)' /\ OwnsAfter(p)
    BY <1>1, <1>2, <2>1, <2>2 DEF Stands, Moves, CallOK, Active, OwnsAfter, InGeneration, Places
  <2> QED BY <2>3, <2>4
<1>4. ASSUME scope.Serial PROVE SerialAt(p)'
  <2>1. status' = "completed" => AllDone'
    BY <1>1, <1>2, <1>4 DEF Stands, SerialAt, AllDone, TypeOK
  <2>2. ReceiptsOK'
    BY <1>1, <1>2, <1>4 DEF Stands, SerialAt, ReceiptsOK, tail
  <2> QED BY <1>1, <1>2, <2>1, <2>2 DEF Stands, SerialAt, ReceiptsOK, AllDone, EnteringOK, LoopingOK,
             ClosingOK, Entering, InLoop, InGeneration, tail, Calls
<1> QED BY <1>2, <1>3, <1>4, Frame

-----------------------------------------------------------------------------
LEMMA InitInv == Init => Inv
<1> SUFFICES ASSUME Init PROVE Inv
  OBVIOUS
<1>1. MaxTarget \in Nat
  BY ScopeFacts DEF Init
<1>2. scope \in Scopes /\ TypeOK /\ pc \in [Procs -> Places] /\ DOMAIN loc = Procs /\ abandoned \in BOOLEAN
  <2>1. scope \in Scopes /\ TypeOK
    BY <1>1 DEF Init, TypeOK, Targets
  <2>2. pc \in [Procs -> Places] /\ DOMAIN loc = Procs
    BY DEF Init, Places
  <2>3. abandoned \in BOOLEAN
    BY DEF Init
  <2> QED BY <2>1, <2>2, <2>3
<1>3. \A p \in Procs : CallOK(p)
  BY DEF Init, CallOK, Active, Places, InGeneration
<1>4. RunIsOwned /\ GenerationsAreOwned
  BY LoopAssumption DEF Init, RunIsOwned, GenerationsAreOwned
<1>5. SerialOK
  BY LoopAssumption DEF Init, SerialOK, Alone, ReceiptsOK, EnteringOK, LoopingOK, ClosingOK, Entering, InLoop,
     InGeneration
<1> QED BY <1>2, <1>3, <1>4, <1>5 DEF Inv

LEMMA InvStep == Inv /\ [Next]_<<vars, scope>> => Inv'
<1> SUFFICES ASSUME Inv, [Next]_<<vars, scope>> PROVE Inv'
  OBVIOUS
<1>1. CASE UNCHANGED <<vars, scope>>
  BY <1>1 DEF vars, rows, tail, bounds, Inv, TypeOK, CallOK, Active, RunIsOwned, GenerationsAreOwned, SerialOK,
     Alone, AllDone, Calls,
     ReceiptsOK, EnteringOK, LoopingOK, ClosingOK, Targets, MaxTarget, Procs, Commands, Workers
<1>2. CASE Next
  <2>1. scope' = scope /\ (scope.Serial => OneAtATime)
    BY <1>2 DEF Next
  <2>2. PICK p \in Procs :
          \/ \E n \in Targets : Enter(p, n)
          \/ Step(p) \/ HookRefuses(p) \/ GenerationFails(p) \/ RequestStop(p) \/ Crash(p)
    BY <1>2 DEF Next
  <2>3. CASE \E n \in Targets : Enter(p, n)
    BY <2>1, <2>3, EnterStep
  <2>4. CASE Step(p)
    BY <2>1, <2>4, ReadStaleStep, FailStaleStep, RunFailedStep, RefreshStep, StartStep, RoundStep, OpenStep,
       PersistStep,
       ReturnsStep, ReadNetStep, StalledStep, RunCompletedStep, SnapshotStep, AnnounceStep, ReapedStep DEF Step
  <2>5. CASE HookRefuses(p) \/ GenerationFails(p) \/ RequestStop(p) \/ Crash(p)
    BY <2>1, <2>5, RefusedStep, FailsStep, RequestStopStep, CrashStep
  <2> QED BY <2>2, <2>3, <2>4, <2>5
<1> QED BY <1>1, <1>2

LEMMA SpecInv == Spec => []Inv
BY InitInv, InvStep, PTL DEF Spec

-----------------------------------------------------------------------------
(* For any processes, targets, failures and crashes: a completed run has   *)
(* completed all generations of its target and announced it once, while    *)
(* one process is at it at a time; and however many are at it, who leaves  *)
(* last leaves neither the run nor a generation running.                   *)
THEOREM LoopSafe == Spec => []LoopInv
<1>1. Inv => LoopInv
  <2> SUFFICES ASSUME Inv PROVE LoopInv
    OBVIOUS
  <2>1. TypeOK /\ CompletedIsDone /\ OneReceipt
    BY DEF Inv, SerialOK, CompletedIsDone, AllDone, OneReceipt, ReceiptsOK
  <2>2. NothingLeftRunning
    BY DEF Inv, RunIsOwned, GenerationsAreOwned, NothingLeftRunning, Running, InLoop, InGeneration
  <2> QED BY <2>1, <2>2 DEF LoopInv
<1> QED BY <1>1, SpecInv, PTL

(* While one process is at the run at a time, no entry, recovery, repair   *)
(* or completion turns a stopped run into anything else.                   *)
THEOREM StopIsFinal == Spec => StoppedIsFinal
<1>1. Inv /\ [Next]_<<vars, scope>> => [scope.Serial /\ status = "stopped" => status' = "stopped"]_vars
  <2> SUFFICES ASSUME Inv, Next, scope.Serial, status = "stopped" PROVE status' = "stopped"
    BY DEF vars, rows
  <2>1. PICK p \in Procs :
          \/ \E n \in Targets : Enter(p, n)
          \/ Step(p) \/ HookRefuses(p) \/ GenerationFails(p) \/ RequestStop(p) \/ Crash(p)
    BY DEF Next
  <2>2. EnteringOK(p) /\ LoopingOK(p)
    BY DEF Inv, SerialOK
  <2>3. ~Start(p) /\ ~mark_run_failed(p)
    BY <2>2 DEF Start, mark_run_failed, EnteringOK, LoopingOK, Entering
  <2>4. CASE Step(p)
    BY <2>3, <2>4 DEF Step, ReadStale, FailStaleGeneration, Refresh, Round, OpenGeneration, stage_persistence,
       GenerationReturns,
       ReadNet, MarkStalled, mark_run_completed, save_knowledge_snapshot, Announce, mark_running_run_and_generations_failed, rows
  <2>5. CASE ~Step(p)
    BY <2>1, <2>5 DEF Enter, HookRefuses, GenerationFails, RequestStop, Crash, rows
  <2> QED BY <2>4, <2>5
<1> QED BY <1>1, SpecInv, PTL DEF Spec, StoppedIsFinal

-----------------------------------------------------------------------------
(* The playbook of a scenario.                                             *)

Staging == {"staging", "torn", "drop", "orphan", "unlink", "write", "commit"}
Archiving == {"archive", "save", "prune", "oldest", "live"}
Clearing == {"clear", "clear_json"}
GatePlaces == {"off", "read", "read_md"} \cup Staging \cup Archiving \cup Clearing
Numbers == Nat \ {0}
Held == Gate!Updates \cup {None}
Pruning == {p \in Gate!Procs : at[p] \in {"prune", "oldest"}}
Fates == {None, "pending", "approved", "rejected", "superseded"}
Synced == [live : Gate!Updates, lessons : Gate!Updates]
Locs == [op : {"hold", "auto", "approve", "reject"}, update : Held, reads : Nat, first : Held, got : Held,
         old : Held, n : Nat, listed : SUBSET Numbers]

\* The archived versions, of any number.
ArchiveType == versions \in [Gate!Archived -> Gate!Updates] /\ Gate!Archived \subseteq Numbers /\ IsFiniteSet(Gate!Archived)

GateType ==
    /\ gate \in GateScopes
    /\ live \in Held /\ md \in Held /\ json \in Held
    /\ ArchiveType
    /\ synced \subseteq Synced
    /\ at \in [Gate!Procs -> GatePlaces] /\ fate \in [Gate!Updates -> Fates]
    /\ made \in 0..Gate!MaxUpdates /\ deaths \in 0..Gate!MaxCrashes
    /\ knows = [p \in Gate!Procs |-> knows[p]]

Bounded == gate.Serial => Cardinality(Gate!Archived) <= Gate!MaxVersions + Cardinality(Pruning) + deaths

\* What process p knows that is at l with c.
Knows(p, l, c) ==
    /\ l # "off" => c \in Locs
    /\ l \in {"read", "read_md"} /\ c.op = "hold" => c.update \in Gate!Updates /\ p \in Gate!Runs
    /\ l \in Staging => c.update \in Gate!Updates /\ p \in Gate!Runs
    /\ l \in Archiving \cup Clearing => c.got \in Gate!Updates
    /\ l \in Archiving => c.op \in {"approve", "auto"}
    /\ l \in Clearing => c.op # "hold"
    /\ l = "save" => c.n \in Numbers /\ c.old \in Gate!Updates
    /\ l = "oldest" => IsFiniteSet(c.listed) /\ Cardinality(c.listed) > Gate!MaxVersions

\* Whoever else is at work: a run that stages an update found no provenance, and nobody else writes one; and for each
\* version that a pruner has listed, there is one that is as new.
Relies(l, c) ==
    /\ l \in {"orphan", "unlink", "write", "commit"} => json = None
    /\ l = "commit" => md \in {None, c.update}
    /\ l = "oldest" => \A x \in c.listed : \E y \in Gate!Archived : x <= y

\* What is pending, as an operator reads it.
Pending == IF json = None THEN None ELSE md

\* Of a process that is alone: what it saw is still so.
Sees(l, c) ==
    /\ l = "read_md" => json # None
    /\ l = "drop" => md = None
    /\ l = "commit" => md = c.update
    /\ l = "clear" => md = c.got
    /\ l = "clear_json" => md = None
    /\ l \in {"read", "read_md"} /\ c.op = "approve" /\ c.reads > 0 => c.first = Pending
    /\ l \in Archiving /\ c.op = "approve" => json # None /\ md = c.got
    /\ l \in Archiving \cup Clearing /\ c.op = "approve" => c.first = c.got
    /\ l = "clear" /\ c.op = "approve" => live = c.got
    /\ l = "oldest" => c.listed = Gate!Archived

\* The newest archived version is k, and what it holds is what is live.
LastIs(k) == k \in Gate!Archived /\ versions[k] = live /\ \A m \in Gate!Archived : m <= k

\* The archive, as long as nobody died.
Archives(l, c) ==
    /\ l = "save" => live # None /\ c.old = live /\ c.n = Cardinality(Gate!Archived) + 1
    /\ l \in {"prune", "oldest"} => \E k \in Numbers : LastIs(k)
    /\ l = "live" /\ live # None => \E k \in Numbers : LastIs(k)

Contiguous ==
    /\ Gate!Archived \subseteq 1..(Cardinality(Gate!Archived) + 1)
    /\ Cardinality(Gate!Archived) > Gate!MaxVersions => Gate!Archived \subseteq 1..Cardinality(Gate!Archived)

GateIInv ==
    /\ GateType /\ Bounded /\ Gate!PairIsOne /\ Gate!HeldIsThere /\ Gate!LessonsAreOfTheLive
    /\ \A p \in Gate!Procs : Knows(p, at[p], knows[p]) /\ Relies(at[p], knows[p])
    /\ gate.Serial => Gate!OneAtATime /\ \A p \in Gate!Procs : Sees(at[p], knows[p])
    /\ gate.Serial /\ Gate!MaxCrashes = 0 => Contiguous /\ \A p \in Gate!Procs : Archives(at[p], knows[p])

\* The instance counts as this module does.
LEMMA GateCounts ==
    ASSUME NEW S
    PROVE  Gate!Cardinality(S) = Cardinality(S)
  BY DEF Gate!Cardinality, Cardinality

\* Everything a behaviour is about stays.
LEMMA GateStays ==
    ASSUME gate' = gate
    PROVE  /\ Gate!Runs' = Gate!Runs /\ Gate!Operators' = Gate!Operators /\ Gate!Procs' = Gate!Procs /\ Gate!Updates' = Gate!Updates /\ Held' = Held
           /\ Gate!MaxVersions' = Gate!MaxVersions /\ Gate!MaxUpdates' = Gate!MaxUpdates /\ Gate!MaxCrashes' = Gate!MaxCrashes
           /\ Numbers' = Numbers /\ Locs' = Locs /\ Synced' = Synced
  BY DEF Gate!Runs, Gate!Operators, Gate!Procs, Gate!Updates, Held, Gate!MaxVersions, Gate!MaxUpdates, Gate!MaxCrashes, Numbers, Locs, Synced

LEMMA GateConstants ==
    ASSUME GateType
    PROVE  /\ IsFiniteSet(Gate!Procs) /\ Cardinality(Gate!Procs) \in Nat /\ gate.Serial \in BOOLEAN
           /\ Gate!MaxVersions \in Nat \ {0} /\ Gate!MaxUpdates \in Nat /\ Gate!MaxCrashes \in Nat
           /\ ~gate.Serial => \A p, q \in Gate!Runs : p = q
           /\ None \notin Gate!Updates /\ Gate!Updates \subseteq Nat
  <1>1. /\ IsFiniteSet(Gate!Runs) /\ IsFiniteSet(Gate!Operators) /\ gate.Serial \in BOOLEAN
        /\ Gate!MaxVersions \in Nat \ {0} /\ Gate!MaxUpdates \in Nat /\ Gate!MaxCrashes \in Nat
        /\ ~gate.Serial => \A p, q \in Gate!Runs : p = q
    BY GateAssumption DEF GateType, Gate!Runs, Gate!Operators, Gate!MaxVersions, Gate!MaxUpdates, Gate!MaxCrashes
  <1>2. IsFiniteSet(Gate!Procs)
    BY <1>1, FS_Union DEF Gate!Procs
  <1>3. Cardinality(Gate!Procs) \in Nat
    BY <1>2, FS_CardinalityType
  <1>4. Gate!Updates \subseteq Nat /\ None \notin Gate!Updates
    BY <1>1, GateAssumption DEF Gate!Updates
  <1> QED BY <1>1, <1>2, <1>3, <1>4

\* Who was at work, and is.
LEMMA PruneCount ==
    ASSUME GateType, gate' = gate, NEW p \in Gate!Procs, NEW l, at' = [at EXCEPT ![p] = l]
    PROVE  /\ IsFiniteSet(Pruning) /\ Cardinality(Pruning) \in Nat /\ Cardinality(Pruning') \in Nat
           /\ at[p] \notin {"prune", "oldest"} /\ l \notin {"prune", "oldest"} => Pruning' = Pruning
           /\ at[p] \notin {"prune", "oldest"} /\ l \in {"prune", "oldest"} => Cardinality(Pruning') = Cardinality(Pruning) + 1
           /\ at[p] \in {"prune", "oldest"} /\ l \notin {"prune", "oldest"} => Cardinality(Pruning') = Cardinality(Pruning) - 1
           /\ at[p] \in {"prune", "oldest"} /\ l \in {"prune", "oldest"} => Pruning' = Pruning
  <1>0. Gate!Procs' = Gate!Procs /\ IsFiniteSet(Gate!Procs) /\ at \in [Gate!Procs -> GatePlaces]
    BY GateStays, GateConstants DEF GateType
  <1>1. IsFiniteSet(Pruning)
    BY <1>0, FS_Subset DEF Pruning
  <1>2. Cardinality(Pruning) \in Nat
    BY <1>1, FS_CardinalityType
  <1>3. \A q \in Gate!Procs : at'[q] = IF q = p THEN l ELSE at[q]
    BY <1>0
  <1>4. CASE at[p] \notin {"prune", "oldest"} /\ l \notin {"prune", "oldest"}
    <2>1. Pruning' = Pruning
      BY <1>0, <1>3, <1>4 DEF Pruning
    <2> QED BY <1>1, <1>2, <1>4, <2>1
  <1>5. CASE at[p] \notin {"prune", "oldest"} /\ l \in {"prune", "oldest"}
    <2>1. Pruning' = Pruning \cup {p} /\ p \notin Pruning
      BY <1>0, <1>3, <1>5 DEF Pruning
    <2>2. Cardinality(Pruning \cup {p}) = Cardinality(Pruning) + 1
      BY <1>1, <2>1, FS_AddElement
    <2> QED BY <1>1, <1>2, <1>5, <2>1, <2>2
  <1>6. CASE at[p] \in {"prune", "oldest"} /\ l \notin {"prune", "oldest"}
    <2>1. Pruning' = Pruning \ {p} /\ p \in Pruning
      BY <1>0, <1>3, <1>6 DEF Pruning
    <2>2. Cardinality(Pruning \ {p}) = Cardinality(Pruning) - 1 /\ IsFiniteSet(Pruning \ {p})
      BY <1>1, <2>1, FS_RemoveElement
    <2>3. Cardinality(Pruning \ {p}) \in Nat
      BY <2>2, FS_CardinalityType
    <2> QED BY <1>1, <1>2, <1>6, <2>1, <2>2, <2>3
  <1>7. CASE at[p] \in {"prune", "oldest"} /\ l \in {"prune", "oldest"}
    <2>1. Pruning' = Pruning
      BY <1>0, <1>3, <1>7 DEF Pruning
    <2> QED BY <1>1, <1>2, <1>7, <2>1
  <1> QED BY <1>4, <1>5, <1>6, <1>7

LEMMA ArchiveIsFinite ==
    ASSUME GateType
    PROVE  /\ Gate!Archived = DOMAIN versions /\ versions \in [Gate!Archived -> Gate!Updates] /\ IsFiniteSet(Gate!Archived)
           /\ Cardinality(Gate!Archived) \in Nat /\ Gate!Archived \subseteq Nat /\ Gate!Archived \subseteq Numbers
  <1>1. /\ Gate!Archived = DOMAIN versions /\ IsFiniteSet(Gate!Archived) /\ Gate!Archived \subseteq Numbers
        /\ versions \in [Gate!Archived -> Gate!Updates]
    BY DEF GateType, ArchiveType, Gate!Archived
  <1>2. Cardinality(Gate!Archived) \in Nat
    BY <1>1, FS_CardinalityType
  <1> QED BY <1>1, <1>2 DEF Numbers

\* A process goes to l, and knows c: what has to be shown of it and of the files.
LEMMA GateFrame ==
    ASSUME GateIInv, gate' = gate, gate.Serial => Gate!OneAtATime',
           NEW p \in Gate!Procs, NEW l \in GatePlaces, NEW c,
           at' = [at EXCEPT ![p] = l], knows' = [knows EXCEPT ![p] = c], at[p] # "off" \/ l # "off",
           live' \in Held, md' \in Held, json' \in Held, ArchiveType', synced' \subseteq Synced,
           fate' \in [Gate!Updates -> Fates], made' \in 0..Gate!MaxUpdates, deaths' \in 0..Gate!MaxCrashes,
           Bounded', Gate!PairIsOne', Gate!HeldIsThere', Gate!LessonsAreOfTheLive',
           \A x \in Gate!Archived : \E y \in Gate!Archived' : x <= y,
           Knows(p, l, c), Relies(l, c)',
           at[p] \in Staging \/ (json' \in {json, None} /\ md' \in {md, None}),
           gate.Serial => Sees(l, c)',
           gate.Serial /\ Gate!MaxCrashes = 0 => Contiguous' /\ Archives(l, c)'
    PROVE  GateIInv'
  <1>0. /\ Gate!Runs' = Gate!Runs /\ Gate!Procs' = Gate!Procs /\ Gate!Updates' = Gate!Updates /\ Held' = Held /\ Gate!MaxUpdates' = Gate!MaxUpdates
        /\ Gate!MaxCrashes' = Gate!MaxCrashes /\ Gate!MaxVersions' = Gate!MaxVersions /\ Numbers' = Numbers /\ Locs' = Locs /\ Synced' = Synced
    BY GateStays
  <1>1. at \in [Gate!Procs -> GatePlaces] /\ knows = [q \in Gate!Procs |-> knows[q]] /\ gate \in GateScopes
    BY DEF GateIInv, GateType
  <1>2. at'[p] = l /\ knows'[p] = c /\ \A q \in Gate!Procs \ {p} : at'[q] = at[q] /\ knows'[q] = knows[q]
    BY <1>1
  <1>3. at' \in [Gate!Procs -> GatePlaces] /\ knows' = [q \in Gate!Procs |-> knows'[q]]
    BY <1>1
  <1>4. GateType'
    BY <1>0, <1>1, <1>3 DEF GateType, GatePlaces, Staging, Archiving, Clearing, Fates
  <1>5. ASSUME NEW q \in Gate!Procs PROVE Knows(q, at[q], knows[q])' /\ Relies(at[q], knows[q])'
    <2>1. CASE q = p
      BY <1>0, <1>2, <2>1 DEF Knows, Relies, Staging, Archiving, Clearing
    <2>2. CASE q # p
      <3>1. Knows(q, at[q], knows[q]) /\ at'[q] = at[q] /\ knows'[q] = knows[q] /\ Relies(at[q], knows[q])
        BY <1>2, <2>2 DEF GateIInv
      <3>2. Knows(q, at[q], knows[q])'
        BY <1>0, <3>1 DEF Knows, Staging, Archiving, Clearing
      <3>3. Relies(at[q], knows[q])'
        <4>0. ASSUME at[q] = "oldest" PROVE \A x \in knows[q].listed : \E y \in Gate!Archived' : x <= y
          <5>1. SUFFICES ASSUME NEW x \in knows[q].listed PROVE \E y \in Gate!Archived' : x <= y
            OBVIOUS
          <5>2. PICK y \in Gate!Archived : x <= y
            BY <3>1, <4>0 DEF Relies
          <5>3. PICK z \in Gate!Archived' : y <= z
            OBVIOUS
          <5>4. x \in Nat /\ y \in Nat /\ z \in Nat
            <6>1. knows[q] \in Locs
              BY <3>1, <4>0 DEF Knows
            <6>2. Gate!Archived \subseteq Nat /\ Gate!Archived' \subseteq Nat
              BY <1>0, ArchiveIsFinite DEF GateIInv, ArchiveType, Numbers
            <6> QED BY <6>1, <6>2 DEF Locs, Numbers
          <5>5. x <= z
            BY <5>2, <5>3, <5>4
          <5> QED BY <5>5
        <4>1. CASE at[q] \notin Staging
          BY <3>1, <4>0, <4>1 DEF Relies, Staging
        <4>2. CASE at[q] \in Staging /\ at[p] \notin Staging
          BY <3>1, <4>2 DEF Relies, Staging
        <4>3. CASE at[q] \in Staging /\ at[p] \in Staging
          <5>1. Knows(p, at[p], knows[p])
            BY DEF GateIInv
          <5>2. p \in Gate!Runs /\ q \in Gate!Runs /\ at[p] # "off" /\ at[q] # "off"
            BY <3>1, <4>3, <5>1 DEF Knows, Staging
          <5>3. p = q
            BY <5>2, GateConstants DEF GateIInv, Gate!OneAtATime
          <5> QED BY <2>2, <5>3
        <4> QED BY <4>1, <4>2, <4>3
      <3> QED BY <3>2, <3>3
    <2> QED BY <2>1, <2>2
  <1>6. ASSUME gate.Serial, NEW q \in Gate!Procs, q # p PROVE at'[q] = "off"
    <2>1. Gate!OneAtATime /\ Gate!OneAtATime' /\ at'[q] = at[q]
      BY <1>2, <1>6 DEF GateIInv
    <2> QED BY <1>0, <1>2, <1>6, <2>1 DEF Gate!OneAtATime
  <1>7. ASSUME gate.Serial, NEW q \in Gate!Procs PROVE Sees(at[q], knows[q])'
    <2>1. CASE q = p
      BY <1>2, <1>7, <2>1 DEF Sees, Pending, Archiving, Clearing, Gate!Archived
    <2>2. CASE q # p
      BY <1>6, <1>7, <2>2 DEF Sees, Archiving, Clearing
    <2> QED BY <2>1, <2>2
  <1>8. ASSUME gate.Serial, Gate!MaxCrashes = 0, NEW q \in Gate!Procs PROVE Archives(at[q], knows[q])'
    <2>1. CASE q = p
      BY <1>2, <1>8, <2>1 DEF Archives
    <2>2. CASE q # p
      BY <1>6, <1>8, <2>2 DEF Archives
    <2> QED BY <2>1, <2>2
  <1>9. gate'.Serial = gate.Serial
    OBVIOUS
  <1>10. \A q \in Gate!Procs' : Knows(q, at[q], knows[q])' /\ Relies(at[q], knows[q])'
    BY <1>0, <1>5
  <1>11. gate'.Serial => Gate!OneAtATime' /\ \A q \in Gate!Procs' : Sees(at[q], knows[q])'
    BY <1>0, <1>7
  <1>12. gate'.Serial /\ Gate!MaxCrashes' = 0 => Contiguous' /\ \A q \in Gate!Procs' : Archives(at[q], knows[q])'
    BY <1>0, <1>8
  <1> QED BY <1>4, <1>10, <1>11, <1>12 DEF GateIInv

\* Files stay, a process goes to l and knows c.
LEMMA GateGoes ==
    ASSUME GateIInv, gate' = gate, gate.Serial => Gate!OneAtATime',
           NEW p \in Gate!Procs, NEW l \in GatePlaces, NEW c,
           at' = [at EXCEPT ![p] = l], knows' = [knows EXCEPT ![p] = c], at[p] # "off" \/ l # "off",
           UNCHANGED <<Gate!files, fate>>, made' \in 0..Gate!MaxUpdates, deaths' \in 0..Gate!MaxCrashes,
           deaths' \in {deaths, deaths + 1},
           gate.Serial /\ at[p] \in {"prune", "oldest"} /\ l \notin {"prune", "oldest"} /\ deaths' = deaths =>
             Cardinality(Gate!Archived) <= Gate!MaxVersions,
           Knows(p, l, c), Relies(l, c),
           gate.Serial => Sees(l, c),
           gate.Serial /\ Gate!MaxCrashes = 0 => Archives(l, c)
    PROVE  GateIInv'
  <1>0. /\ live' = live /\ versions' = versions /\ md' = md /\ json' = json /\ synced' = synced /\ fate' = fate
    BY DEF Gate!files
  <1>1. GateType /\ Gate!Updates' = Gate!Updates /\ Gate!MaxVersions' = Gate!MaxVersions /\ Numbers' = Numbers
    BY GateStays DEF GateIInv
  <1>2. Gate!Archived' = Gate!Archived
    BY <1>0 DEF Gate!Archived
  <1>3. Bounded'
    <2> SUFFICES ASSUME gate.Serial PROVE Cardinality(Gate!Archived) <= Gate!MaxVersions + Cardinality(Pruning') + deaths'
      BY <1>1, <1>2 DEF Bounded
    <2>0. /\ IsFiniteSet(Pruning) /\ Cardinality(Pruning) \in Nat /\ Cardinality(Pruning') \in Nat
          /\ at[p] \notin {"prune", "oldest"} /\ l \notin {"prune", "oldest"} => Pruning' = Pruning
          /\ at[p] \notin {"prune", "oldest"} /\ l \in {"prune", "oldest"} => Cardinality(Pruning') = Cardinality(Pruning) + 1
          /\ at[p] \in {"prune", "oldest"} /\ l \notin {"prune", "oldest"} => Cardinality(Pruning') = Cardinality(Pruning) - 1
          /\ at[p] \in {"prune", "oldest"} /\ l \in {"prune", "oldest"} => Pruning' = Pruning
      BY <1>1, PruneCount
    <2>1. \/ Cardinality(Pruning') = Cardinality(Pruning) \/ Cardinality(Pruning') = Cardinality(Pruning) + 1
          \/ at[p] \in {"prune", "oldest"} /\ l \notin {"prune", "oldest"} /\ Cardinality(Pruning') = Cardinality(Pruning) - 1
      BY <2>0
    <2>2. Cardinality(Pruning) \in Nat /\ Cardinality(Pruning') \in Nat /\ deaths \in Nat /\ deaths' \in Nat
      BY <2>0, <1>1 DEF GateType
    <2>3. Cardinality(Gate!Archived) \in Nat /\ Gate!MaxVersions \in Nat
      BY <1>1, ArchiveIsFinite, GateConstants
    <2>4. Cardinality(Gate!Archived) <= Gate!MaxVersions + Cardinality(Pruning) + deaths
      BY DEF GateIInv, Bounded
    <2> QED BY <2>1, <2>2, <2>3, <2>4
  <1>4. Gate!PairIsOne' /\ Gate!HeldIsThere' /\ Gate!LessonsAreOfTheLive'
    BY <1>0, <1>1 DEF GateIInv, Gate!PairIsOne, Gate!HeldIsThere, Gate!LessonsAreOfTheLive
  <1>5. /\ live' \in Held /\ md' \in Held /\ json' \in Held /\ ArchiveType' /\ synced' \subseteq Synced
        /\ fate' \in [Gate!Updates -> Fates] /\ \A x \in Gate!Archived : \E y \in Gate!Archived' : x <= y
    <2>1. \A x \in Gate!Archived : x <= x
      BY <1>1, ArchiveIsFinite
    <2>2. ArchiveType'
      BY <1>0, <1>1, <1>2 DEF GateType, ArchiveType
    <2> QED BY <1>0, <1>1, <1>2, <2>1, <2>2 DEF GateType
  <1>6. Relies(l, c)' /\ (json' \in {json, None} /\ md' \in {md, None})
    BY <1>0, <1>2 DEF Relies
  <1>7. gate.Serial => Sees(l, c)'
    BY <1>0, <1>2 DEF Sees, Pending, Archiving, Clearing
  <1>8. ASSUME gate.Serial, Gate!MaxCrashes = 0 PROVE Contiguous' /\ Archives(l, c)'
    <2>1. Contiguous'
      BY <1>1, <1>2, <1>8 DEF GateIInv, Contiguous
    <2>2. Archives(l, c)'
      BY <1>0, <1>1, <1>2, <1>8 DEF Archives, LastIs
    <2> QED BY <2>1, <2>2
  <1> QED BY <1>3, <1>4, <1>5, <1>6, <1>7, <1>8, GateFrame

\* Where a process is, and what it knows there.
LEMMA GateAt ==
    ASSUME GateIInv, NEW p \in Gate!Procs, at[p] # "off"
    PROVE  /\ Knows(p, at[p], knows[p]) /\ Relies(at[p], knows[p]) /\ knows[p] \in Locs
           /\ knows[p].op \in {"hold", "auto", "approve", "reject"} /\ knows[p].reads \in Nat
           /\ knows[p].update \in Held /\ knows[p].first \in Held /\ knows[p].got \in Held
           /\ gate.Serial => Sees(at[p], knows[p])
           /\ gate.Serial /\ Gate!MaxCrashes = 0 => Archives(at[p], knows[p])
           /\ knows = [knows EXCEPT ![p] = knows[p]]
           /\ made \in 0..Gate!MaxUpdates /\ deaths \in 0..Gate!MaxCrashes
  <1>1. Knows(p, at[p], knows[p]) /\ Relies(at[p], knows[p]) /\ knows[p] \in Locs
    BY DEF GateIInv, Knows
  <1>2. knows = [knows EXCEPT ![p] = knows[p]]
    BY DEF GateIInv, GateType
  <1> QED BY <1>1, <1>2 DEF GateIInv, GateType, Locs

\* A process leaves, or dies.
LEMMA GateExit ==
    ASSUME GateIInv, gate' = gate, gate.Serial => Gate!OneAtATime', NEW p \in Gate!Procs, at[p] # "off", Gate!Exit(p),
           UNCHANGED <<Gate!files, fate, made>>, deaths' \in 0..Gate!MaxCrashes, deaths' \in {deaths, deaths + 1},
           gate.Serial /\ at[p] \in {"prune", "oldest"} => deaths' = deaths + 1
    PROVE  GateIInv'
  <1>1. at' = [at EXCEPT ![p] = "off"] /\ knows' = [knows EXCEPT ![p] = None]
    BY DEF Gate!Exit, Gate!Goto
  <1>2. PICK l \in GatePlaces : l = "off"
    BY DEF GatePlaces
  <1>3. PICK c : c = None
    OBVIOUS
  <1>4. Knows(p, l, c) /\ Relies(l, c) /\ Sees(l, c) /\ Archives(l, c)
    BY <1>2 DEF Knows, Relies, Sees, Archives, Staging, Archiving, Clearing
  <1>5. made' \in 0..Gate!MaxUpdates /\ deaths \in Nat
    BY GateAt
  <1>6. at' = [at EXCEPT ![p] = l] /\ knows' = [knows EXCEPT ![p] = c]
    BY <1>1, <1>2, <1>3
  <1>7. gate.Serial /\ at[p] \in {"prune", "oldest"} /\ deaths' = deaths => Cardinality(Gate!Archived) <= Gate!MaxVersions
    BY <1>5
  <1>8. UNCHANGED <<Gate!files, fate>>
    OBVIOUS
  <1> QED BY <1>4, <1>5, <1>6, <1>7, <1>8, GateGoes

\* A process that neither saves nor prunes goes on, with what it knew.
LEMMA GateGoesOn ==
    ASSUME GateIInv, gate' = gate, gate.Serial => Gate!OneAtATime', NEW p \in Gate!Procs, at[p] \notin {"off", "prune", "oldest"},
           NEW l \in GatePlaces, Gate!Goto(p, l), UNCHANGED <<Gate!files, knows, fate, made, deaths>>,
           Knows(p, l, knows[p]), Relies(l, knows[p]), gate.Serial => Sees(l, knows[p]),
           gate.Serial /\ Gate!MaxCrashes = 0 => Archives(l, knows[p])
    PROVE  GateIInv'
  <1>1. PICK c : c = knows[p]
    OBVIOUS
  <1>2. at' = [at EXCEPT ![p] = l] /\ knows' = [knows EXCEPT ![p] = c]
    BY <1>1, GateAt DEF Gate!Goto
  <1>3. /\ Knows(p, l, c) /\ Relies(l, c) /\ gate.Serial => Sees(l, c)
        /\ gate.Serial /\ Gate!MaxCrashes = 0 => Archives(l, c)
    BY <1>1
  <1>4. made' \in 0..Gate!MaxUpdates /\ deaths' \in 0..Gate!MaxCrashes /\ deaths' = deaths
    BY GateAt
  <1>5. UNCHANGED <<Gate!files, fate>>
    OBVIOUS
  <1> QED BY <1>2, <1>3, <1>4, <1>5, GateGoes

\* A run begins, or an operator.
LEMMA GateBegins ==
    ASSUME GateIInv, gate' = gate, gate.Serial => Gate!OneAtATime', NEW p \in Gate!Procs, Gate!Begin(p)
    PROVE  GateIInv'
  <1>0. Gate!MaxUpdates \in Nat /\ None \notin Gate!Updates /\ made \in 0..Gate!MaxUpdates /\ deaths \in 0..Gate!MaxCrashes /\ 0 \in Nat
    BY GateConstants DEF GateIInv, GateType
  <1>1. ASSUME NEW hold \in BOOLEAN, Gate!write_or_stage_playbook(p, hold) PROVE GateIInv'
    <2>0. p \in Gate!Runs /\ at[p] = "off" /\ made < Gate!MaxUpdates /\ made' = made + 1 /\ UNCHANGED <<Gate!files, fate, deaths>>
      BY <1>1 DEF Gate!write_or_stage_playbook
    <2>1. made + 1 \in Gate!Updates /\ made' \in 0..Gate!MaxUpdates /\ made + 1 \in Held /\ None \in Held
      BY <1>0, <2>0 DEF Gate!Updates, Held
    <2>2. PICK o \in {"hold", "auto"} : o = IF hold THEN "hold" ELSE "auto"
      OBVIOUS
    <2>3. PICK u \in Gate!Updates : u = made + 1
      BY <2>1
    <2>4. PICK c : c = [op |-> o, update |-> u, reads |-> 0, first |-> None, got |-> u, old |-> None, n |-> 0, listed |-> {}]
      OBVIOUS
    <2>5. c \in Locs /\ c.op = o /\ c.update = u /\ c.got = u /\ c.reads = 0
      BY <1>0, <2>1, <2>4 DEF Locs, Held
    <2>6. knows' = [knows EXCEPT ![p] = c]
      BY <1>1, <2>2, <2>3, <2>4 DEF Gate!write_or_stage_playbook
    <2>7. PICK l \in GatePlaces : l = IF hold THEN "read" ELSE "archive"
      BY DEF GatePlaces, Archiving
    <2>8. at' = [at EXCEPT ![p] = l] /\ l \in {"read", "archive"} /\ (l = "read" <=> o = "hold")
      BY <1>1, <2>2, <2>7 DEF Gate!write_or_stage_playbook, Gate!Goto
    <2>9. Knows(p, l, c) /\ Relies(l, c)
      BY <2>0, <2>5, <2>8 DEF Knows, Relies, Staging, Archiving, Clearing
    <2>10. Sees(l, c) /\ Archives(l, c)
      BY <2>2, <2>5, <2>8 DEF Sees, Archives, Archiving, Clearing
    <2>11. l # "off" /\ at[p] \notin {"prune", "oldest"} /\ deaths' = deaths /\ deaths' \in 0..Gate!MaxCrashes /\ UNCHANGED <<Gate!files, fate>>
      BY <1>0, <2>0, <2>8
    <2> QED BY <2>1, <2>6, <2>8, <2>9, <2>10, <2>11, GateGoes
  <1>2. ASSUME NEW op \in {"approve", "reject"}, Gate!Decide(p, op) PROVE GateIInv'
    <2>0. at[p] = "off" /\ made' = made /\ UNCHANGED <<Gate!files, fate, deaths>>
      BY <1>2 DEF Gate!Decide
    <2>1. None \in Held
      BY DEF Held
    <2>4. PICK c : c = [op |-> op, update |-> None, reads |-> 0, first |-> None, got |-> None, old |-> None, n |-> 0, listed |-> {}]
      OBVIOUS
    <2>5. c \in Locs /\ c.op = op /\ c.reads = 0
      BY <1>0, <2>1, <2>4 DEF Locs
    <2>6. knows' = [knows EXCEPT ![p] = c]
      BY <1>2, <2>4 DEF Gate!Decide
    <2>7. PICK l \in GatePlaces : l = "read"
      BY DEF GatePlaces
    <2>8. at' = [at EXCEPT ![p] = l]
      BY <1>2, <2>7 DEF Gate!Decide, Gate!Goto
    <2>9. Knows(p, l, c) /\ Relies(l, c)
      BY <2>5, <2>7 DEF Knows, Relies, Staging, Archiving, Clearing
    <2>10. Sees(l, c) /\ Archives(l, c)
      BY <2>5, <2>7 DEF Sees, Archives, Archiving, Clearing
    <2>11. /\ l # "off" /\ at[p] \notin {"prune", "oldest"} /\ deaths' = deaths /\ deaths' \in 0..Gate!MaxCrashes /\ made' \in 0..Gate!MaxUpdates
           /\ UNCHANGED <<Gate!files, fate>>
      BY <1>0, <2>0, <2>7
    <2> QED BY <2>6, <2>8, <2>9, <2>10, <2>11, GateGoes
  <1> QED BY <1>1, <1>2 DEF Gate!Begin

\* The pending pair was read, and is u.
LEMMA GateReads ==
    ASSUME GateIInv, gate' = gate, gate.Serial => Gate!OneAtATime', NEW p \in Gate!Procs, at[p] \in {"read", "read_md"},
           NEW u \in Held, gate.Serial => u = Pending, Gate!HaveRead(p, u), UNCHANGED <<Gate!files, fate, made, deaths>>
    PROVE  GateIInv'
  <1>0. /\ Knows(p, at[p], knows[p]) /\ knows[p] \in Locs /\ knows[p].op \in {"hold", "auto", "approve", "reject"}
        /\ knows[p].reads \in Nat /\ knows[p].first \in Held /\ made \in 0..Gate!MaxUpdates /\ deaths \in 0..Gate!MaxCrashes
    BY GateAt
  <1>1. gate.Serial => Sees(at[p], knows[p])
    BY GateAt
  <1>2. PICK r : r = [knows[p] EXCEPT !.reads = @ + 1, !.first = IF knows[p].reads = 0 THEN u ELSE @, !.got = u]
    OBVIOUS
  <1>3. PICK n \in Nat : n = knows[p].reads + 1
    BY <1>0
  <1>4. PICK f \in Held : f = IF knows[p].reads = 0 THEN u ELSE knows[p].first
    BY <1>0
  <1>5. r = [knows[p] EXCEPT !.reads = n, !.first = f, !.got = u]
    BY <1>0, <1>2, <1>3, <1>4
  <1>6. r \in Locs /\ r.reads = n /\ r.first = f /\ r.got = u /\ r.op = knows[p].op /\ r.update = knows[p].update
    <2>1. PICK a \in Locs : a = knows[p]
      BY <1>0
    <2>2. r = [a EXCEPT !.reads = n, !.first = f, !.got = u]
      BY <1>5, <2>1
    <2>3. r \in Locs /\ r.reads = n /\ r.first = f /\ r.got = u /\ r.op = a.op /\ r.update = a.update
      BY <2>2 DEF Locs
    <2> QED BY <2>1, <2>3
  <1>7. /\ at[p] # "off" /\ at[p] \notin {"prune", "oldest"} /\ UNCHANGED <<Gate!files, fate>> /\ made' \in 0..Gate!MaxUpdates
        /\ deaths' = deaths /\ deaths' \in 0..Gate!MaxCrashes
    BY <1>0
  <1>8. ASSUME NEW l \in {"read", "archive", "clear"}, Gate!Goto(p, l), knows' = [knows EXCEPT ![p] = r], r.op # "hold",
               l = "read" /\ r.op = "approve" => knows[p].reads = 0,
               l # "read" => u # None /\ (r.op = "approve" => knows[p].reads # 0),
               l = "archive" => r.op = "approve", l = "clear" => r.op # "approve"
        PROVE  GateIInv'
    <2>1. PICK m \in GatePlaces : m = l
      BY DEF GatePlaces, Archiving, Clearing
    <2>2. at' = [at EXCEPT ![p] = m] /\ m \in {"read", "archive", "clear"}
      BY <1>8, <2>1 DEF Gate!Goto
    <2>3. m # "read" => u \in Gate!Updates
      BY <1>8, <2>1 DEF Held
    <2>4. Knows(p, m, r) /\ Relies(m, r)
      BY <1>6, <1>8, <2>1, <2>2, <2>3 DEF Knows, Relies, Staging, Archiving, Clearing
    <2>5. ASSUME gate.Serial PROVE Sees(m, r)
      <3>1. u = Pending
        BY <2>5
      <3>2. m # "read" => json # None /\ md = u
        BY <1>8, <2>1, <3>1 DEF Pending
      <3>3. m = "read" /\ r.op = "approve" => r.first = Pending
        BY <1>4, <1>6, <1>8, <2>1, <3>1
      <3>4. m # "read" /\ r.op = "approve" => r.first = r.got
        <4>1. SUFFICES ASSUME m # "read", r.op = "approve" PROVE r.first = r.got
          OBVIOUS
        <4>2. knows[p].reads > 0 /\ knows[p].op = "approve"
          BY <1>0, <1>6, <1>8, <2>1, <4>1
        <4>3. knows[p].first = Pending
          BY <1>1, <2>5, <4>2 DEF Sees
        <4> QED BY <1>4, <1>6, <3>1, <4>2, <4>3
      <3> QED BY <1>6, <1>8, <2>1, <2>2, <3>2, <3>3, <3>4 DEF Sees, Archiving, Clearing
    <2>6. Archives(m, r)
      BY <2>2 DEF Archives
    <2> QED BY <1>7, <1>8, <2>2, <2>4, <2>5, <2>6, GateGoes
  <1>9. CASE knows[p].op = "hold"
    <2>1. CASE u # None
      <3>1. Gate!Exit(p)
        BY <1>9, <2>1 DEF Gate!HaveRead
      <3> QED BY <1>7, <3>1, GateExit
    <2>2. CASE u = None
      <3>1. Gate!Goto(p, "staging") /\ UNCHANGED knows
        BY <1>9, <2>2 DEF Gate!HaveRead
      <3>2. PICK l \in GatePlaces : l = "staging"
        BY DEF GatePlaces, Staging
      <3>3. Knows(p, l, knows[p]) /\ Relies(l, knows[p]) /\ Sees(l, knows[p]) /\ Archives(l, knows[p])
        BY <1>0, <1>9, <3>2 DEF Knows, Relies, Sees, Archives, Staging, Archiving, Clearing
      <3>4. Gate!Goto(p, l)
        BY <3>1, <3>2
      <3> QED BY <1>7, <3>1, <3>3, <3>4, GateGoesOn
    <2> QED BY <2>1, <2>2
  <1>10. CASE knows[p].op # "hold" /\ knows[p].reads = 0 /\ (knows[p].op = "approve" \/ (knows[p].op = "auto" /\ u # None))
    <2>1. Gate!Goto(p, "read") /\ knows' = [knows EXCEPT ![p] = r]
      BY <1>2, <1>10 DEF Gate!HaveRead
    <2> QED BY <1>6, <1>8, <1>10, <2>1
  <1>11. CASE /\ knows[p].op # "hold"
              /\ ~(knows[p].reads = 0 /\ (knows[p].op = "approve" \/ (knows[p].op = "auto" /\ u # None)))
    <2>1. CASE u = None
      <3>1. Gate!Exit(p)
        BY <1>11, <2>1 DEF Gate!HaveRead
      <3> QED BY <1>7, <3>1, GateExit
    <2>2. CASE u # None
      <3>1. Gate!Goto(p, IF knows[p].op = "approve" THEN "archive" ELSE "clear") /\ knows' = [knows EXCEPT ![p] = r]
        BY <1>2, <1>11, <2>2 DEF Gate!HaveRead
      <3>2. PICK l \in {"read", "archive", "clear"} : l = IF knows[p].op = "approve" THEN "archive" ELSE "clear"
        OBVIOUS
      <3>3. Gate!Goto(p, l)
        BY <3>1, <3>2
      <3>4. /\ l = "read" /\ r.op = "approve" => knows[p].reads = 0
            /\ l # "read" => u # None /\ (r.op = "approve" => knows[p].reads # 0)
            /\ l = "archive" => r.op = "approve"
            /\ l = "clear" => r.op # "approve"
        BY <1>6, <1>11, <2>2, <3>2
      <3> QED BY <1>6, <1>8, <1>11, <3>1, <3>3, <3>4
    <2> QED BY <2>1, <2>2
  <1> QED BY <1>9, <1>10, <1>11

\* An operation looks at the files, or dies.
LEMMA GateLooks ==
    ASSUME GateIInv, gate' = gate, gate.Serial => Gate!OneAtATime', NEW p \in Gate!Procs,
           Gate!ReadJson(p) \/ Gate!ReadMd(p) \/ Gate!StageLooks(p) \/ Gate!StageFindsPair(p) \/ Gate!FindOrphan(p) \/ Gate!Crash(p)
    PROVE  GateIInv'
  <1>0. /\ md \in Held /\ json \in Held /\ None \in Held /\ deaths \in 0..Gate!MaxCrashes /\ Gate!MaxCrashes \in Nat
        /\ GateType
    BY GateConstants DEF GateIInv, GateType, Held
  <1>1. ASSUME at[p] # "off"
        PROVE /\ Knows(p, at[p], knows[p]) /\ knows[p] \in Locs /\ Relies(at[p], knows[p])
              /\ gate.Serial => Sees(at[p], knows[p])
    BY <1>1, GateAt
  <1>2. CASE Gate!ReadJson(p)
    <2>0. at[p] = "read" /\ UNCHANGED <<Gate!files, fate, made, deaths>>
      BY <1>2 DEF Gate!ReadJson
    <2>1. CASE json = None
      <3>1. Gate!HaveRead(p, None)
        BY <1>2, <2>1 DEF Gate!ReadJson
      <3>2. PICK u \in Held : u = None
        BY <1>0
      <3>3. Gate!HaveRead(p, u) /\ u = Pending
        BY <2>1, <3>1, <3>2 DEF Pending
      <3> QED BY <2>0, <3>3, GateReads
    <2>2. CASE json # None
      <3>1. Gate!Goto(p, "read_md") /\ UNCHANGED knows
        BY <1>2, <2>2 DEF Gate!ReadJson
      <3>2. PICK l \in GatePlaces : l = "read_md"
        BY DEF GatePlaces
      <3>3. Knows(p, l, knows[p]) /\ Relies(l, knows[p])
        BY <1>1, <2>0, <3>2 DEF Knows, Relies, Staging, Archiving, Clearing
      <3>4. (gate.Serial => Sees(l, knows[p])) /\ Archives(l, knows[p])
        BY <1>1, <2>0, <2>2, <3>2 DEF Sees, Archives, Archiving, Clearing
      <3>5. Gate!Goto(p, l)
        BY <3>1, <3>2
      <3> QED BY <2>0, <3>1, <3>3, <3>4, <3>5, GateGoesOn
    <2> QED BY <2>1, <2>2
  <1>3. CASE Gate!ReadMd(p)
    <2>0. at[p] = "read_md" /\ UNCHANGED <<Gate!files, fate, made, deaths>> /\ Gate!HaveRead(p, md)
      BY <1>3 DEF Gate!ReadMd
    <2>1. PICK u \in Held : u = md
      BY <1>0
    <2>2. gate.Serial => u = Pending
      BY <1>1, <2>0, <2>1 DEF Sees, Pending
    <2>3. Gate!HaveRead(p, u)
      BY <2>0, <2>1
    <2> QED BY <2>0, <2>2, <2>3, GateReads
  <1>4. CASE Gate!StageLooks(p)
    <2>0. at[p] = "staging" /\ UNCHANGED <<Gate!files, knows, fate, made, deaths>>
      BY <1>4 DEF Gate!StageLooks
    <2>1. PICK l \in GatePlaces : l = IF json = None THEN "orphan" ELSE "torn"
      BY DEF GatePlaces, Staging
    <2>2. Gate!Goto(p, l)
      BY <1>4, <2>1 DEF Gate!StageLooks
    <2>3. Knows(p, l, knows[p]) /\ Relies(l, knows[p])
      BY <1>1, <2>0, <2>1 DEF Knows, Relies, Staging, Archiving, Clearing
    <2>4. Sees(l, knows[p]) /\ Archives(l, knows[p])
      BY <2>1 DEF Sees, Archives, Archiving, Clearing
    <2> QED BY <2>0, <2>2, <2>3, <2>4, GateGoesOn
  <1>5. CASE Gate!StageFindsPair(p)
    <2>0. at[p] = "torn" /\ UNCHANGED <<Gate!files, fate, made, deaths>>
      BY <1>5 DEF Gate!StageFindsPair
    <2>1. CASE md # None
      <3>1. Gate!Exit(p)
        BY <1>5, <2>1 DEF Gate!StageFindsPair
      <3>2. deaths' \in 0..Gate!MaxCrashes /\ deaths' = deaths
        BY <1>0, <2>0
      <3> QED BY <2>0, <3>1, <3>2, GateExit
    <2>2. CASE md = None
      <3>1. Gate!Goto(p, "drop") /\ UNCHANGED knows
        BY <1>5, <2>2 DEF Gate!StageFindsPair
      <3>2. PICK l \in GatePlaces : l = "drop"
        BY DEF GatePlaces, Staging
      <3>3. Knows(p, l, knows[p]) /\ Relies(l, knows[p])
        BY <1>1, <2>0, <3>2 DEF Knows, Relies, Staging, Archiving, Clearing
      <3>4. Sees(l, knows[p]) /\ Archives(l, knows[p])
        BY <2>2, <3>2 DEF Sees, Archives, Archiving, Clearing
      <3>5. Gate!Goto(p, l)
        BY <3>1, <3>2
      <3> QED BY <2>0, <3>1, <3>3, <3>4, <3>5, GateGoesOn
    <2> QED BY <2>1, <2>2
  <1>6. CASE Gate!FindOrphan(p)
    <2>0. at[p] = "orphan" /\ UNCHANGED <<Gate!files, knows, fate, made, deaths>>
      BY <1>6 DEF Gate!FindOrphan
    <2>1. PICK l \in GatePlaces : l = IF md = None THEN "write" ELSE "unlink"
      BY DEF GatePlaces, Staging
    <2>2. Gate!Goto(p, l)
      BY <1>6, <2>1 DEF Gate!FindOrphan
    <2>3. Knows(p, l, knows[p]) /\ Relies(l, knows[p])
      BY <1>1, <2>0, <2>1 DEF Knows, Relies, Staging, Archiving, Clearing
    <2>4. Sees(l, knows[p]) /\ Archives(l, knows[p])
      BY <2>1 DEF Sees, Archives, Archiving, Clearing
    <2> QED BY <2>0, <2>2, <2>3, <2>4, GateGoesOn
  <1>7. CASE Gate!Crash(p)
    <2>1. at[p] # "off" /\ deaths < Gate!MaxCrashes /\ deaths' = deaths + 1 /\ Gate!Exit(p) /\ UNCHANGED <<Gate!files, fate, made>>
      BY <1>7 DEF Gate!Crash
    <2>2. deaths' \in 0..Gate!MaxCrashes
      BY <1>0, <2>1
    <2> QED BY <2>1, <2>2, GateExit
  <1> QED BY <1>2, <1>3, <1>4, <1>5, <1>6, <1>7

\* What stays when neither the archive nor who prunes is touched.
LEMMA ArchiveStays ==
    ASSUME GateIInv, gate' = gate, NEW p \in Gate!Procs, NEW l, at' = [at EXCEPT ![p] = l], at[p] \notin {"prune", "oldest"}, l \notin {"prune", "oldest"},
           versions' = versions, deaths' = deaths
    PROVE  /\ Bounded' /\ (gate.Serial /\ Gate!MaxCrashes = 0 => Contiguous')
           /\ ArchiveType' /\ Gate!Archived' = Gate!Archived /\ \A x \in Gate!Archived : \E y \in Gate!Archived' : x <= y
  <1>1. Gate!Archived' = Gate!Archived /\ Gate!MaxVersions' = Gate!MaxVersions
    BY GateStays DEF Gate!Archived
  <1>2. Pruning' = Pruning
    BY PruneCount DEF GateIInv
  <1>3. ArchiveType' /\ \A x \in Gate!Archived : x <= x
    <2>1. Gate!Updates' = Gate!Updates /\ Numbers' = Numbers
      BY GateStays
    <2> QED BY <1>1, <2>1, ArchiveIsFinite DEF GateIInv, GateType, ArchiveType
  <1>4. Bounded' /\ (gate.Serial /\ Gate!MaxCrashes = 0 => Contiguous')
    BY <1>1, <1>2 DEF GateIInv, Bounded, Contiguous
  <1> QED BY <1>1, <1>3, <1>4

\* The pending pair is written, or half of it removed, and nothing else.
LEMMA GatePairs ==
    ASSUME GateIInv, gate' = gate, gate.Serial => Gate!OneAtATime', NEW p \in Gate!Procs, at[p] \notin {"off", "prune", "oldest"},
           NEW l \in GatePlaces \ {"prune", "oldest", "save", "live"}, NEW c,
           at' = [at EXCEPT ![p] = l], knows' = [knows EXCEPT ![p] = c],
           UNCHANGED <<live, versions, made, deaths>>, synced' \subseteq Synced, Gate!LessonsAreOfTheLive',
           md' \in Held, json' \in Held, fate' \in [Gate!Updates -> Fates],
           Gate!PairIsOne', Gate!HeldIsThere', Knows(p, l, c), Relies(l, c)', gate.Serial => Sees(l, c)',
           at[p] \in Staging \/ (json' \in {json, None} /\ md' \in {md, None})
    PROVE  GateIInv'
  <1>1. /\ Bounded' /\ (gate.Serial /\ Gate!MaxCrashes = 0 => Contiguous')
        /\ ArchiveType' /\ \A x \in Gate!Archived : \E y \in Gate!Archived' : x <= y
    BY ArchiveStays
  <1>2. Archives(l, c)'
    BY DEF Archives
  <1>3. live' \in Held /\ made' \in 0..Gate!MaxUpdates /\ deaths' \in 0..Gate!MaxCrashes
    BY DEF GateIInv, GateType
  <1> QED BY <1>1, <1>2, <1>3, GateFrame

\* What is dropped before an update is staged.
LEMMA GateDrops ==
    ASSUME GateIInv, gate' = gate, gate.Serial => Gate!OneAtATime', NEW p \in Gate!Procs, Gate!DropJson(p) \/ Gate!UnlinkOrphan(p)
    PROVE  GateIInv'
  <1>0. at[p] \in {"drop", "unlink"} /\ UNCHANGED <<live, versions, synced, fate, made, deaths>>
    BY DEF Gate!DropJson, Gate!UnlinkOrphan
  <1>1. /\ GateType /\ md \in Held /\ json \in Held /\ None \in Held /\ None \notin Gate!Updates /\ synced \subseteq Synced
        /\ fate \in [Gate!Updates -> Fates] /\ Gate!Updates' = Gate!Updates
    BY GateConstants, GateStays DEF GateIInv, GateType, Held
  <1>2. /\ Knows(p, at[p], knows[p]) /\ knows[p] \in Locs /\ Relies(at[p], knows[p])
        /\ gate.Serial => Sees(at[p], knows[p])
        /\ knows = [knows EXCEPT ![p] = knows[p]]
    BY <1>0, GateAt
  <1>3. Gate!PairIsOne' /\ md' \in {md, None} /\ json' \in {json, None}
    BY <1>0 DEF GateIInv, Gate!PairIsOne, Gate!DropJson, Gate!UnlinkOrphan
  <1>4. Gate!HeldIsThere'
    <2>1. SUFFICES ASSUME gate.Serial, NEW u \in Gate!Updates, fate[u] = "pending" PROVE FALSE
      BY <1>0, <1>1 DEF Gate!HeldIsThere
    <2>2. md = u /\ json = u
      BY <2>1 DEF GateIInv, Gate!HeldIsThere
    <2>3. md = None \/ json = None
      BY <1>0, <1>2, <2>1 DEF Sees, Relies
    <2> QED BY <1>1, <2>2, <2>3
  <1>5. Gate!LessonsAreOfTheLive'
    BY <1>0 DEF GateIInv, Gate!LessonsAreOfTheLive
  <1>6. PICK l \in GatePlaces \ {"prune", "oldest", "save", "live"} :
          l = IF (Gate!DropJson(p) /\ json = None) \/ (~Gate!DropJson(p) /\ md = None) THEN "off" ELSE IF Gate!DropJson(p) THEN "orphan" ELSE "write"
    BY DEF GatePlaces, Staging
  <1>7. PICK c : c = IF l = "off" THEN None ELSE knows[p]
    OBVIOUS
  <1>8. at' = [at EXCEPT ![p] = l] /\ knows' = [knows EXCEPT ![p] = c]
    BY <1>2, <1>6, <1>7 DEF Gate!DropJson, Gate!UnlinkOrphan, Gate!Exit, Gate!Goto
  <1>9. Knows(p, l, c)
    BY <1>0, <1>2, <1>6, <1>7 DEF Knows, Staging, Archiving, Clearing
  <1>10. Relies(l, c)' /\ Sees(l, c)'
    BY <1>0, <1>2, <1>6 DEF Relies, Sees, Gate!DropJson, Gate!UnlinkOrphan, Archiving, Clearing
  <1>11. synced' \subseteq Synced /\ fate' \in [Gate!Updates -> Fates] /\ md' \in Held /\ json' \in Held
    BY <1>0, <1>1, <1>3
  <1>12. at[p] \notin {"off", "prune", "oldest"} /\ UNCHANGED <<live, versions, made, deaths>>
    BY <1>0
  <1> QED BY <1>3, <1>4, <1>5, <1>8, <1>9, <1>10, <1>11, <1>12, GatePairs

\* An update is staged, content first.
LEMMA GateStages ==
    ASSUME GateIInv, gate' = gate, gate.Serial => Gate!OneAtATime', NEW p \in Gate!Procs, Gate!StageMd(p) \/ Gate!StageJson(p)
    PROVE  GateIInv'
  <1>0. /\ at[p] \in {"write", "commit"} /\ UNCHANGED <<live, versions, synced, made, deaths>>
    BY DEF Gate!StageMd, Gate!StageJson
  <1>1. /\ GateType /\ md \in Held /\ json \in Held /\ None \notin Gate!Updates /\ synced \subseteq Synced
        /\ fate \in [Gate!Updates -> Fates] /\ Gate!Updates' = Gate!Updates /\ Gate!Updates \subseteq Held
    BY GateConstants, GateStays DEF GateIInv, GateType, Held
  <1>2. /\ Knows(p, at[p], knows[p]) /\ knows[p] \in Locs /\ Relies(at[p], knows[p])
        /\ gate.Serial => Sees(at[p], knows[p])
        /\ knows = [knows EXCEPT ![p] = knows[p]]
    BY <1>0, GateAt
  <1>3. PICK u \in Gate!Updates : u = knows[p].update
    BY <1>0, <1>2 DEF Knows, Staging
  <1>4. json = None
    BY <1>0, <1>2 DEF Relies
  <1>5. gate.Serial => \A v \in Gate!Updates : fate[v] # "pending"
    BY <1>1, <1>4 DEF GateIInv, Gate!HeldIsThere
  <1>6. Gate!LessonsAreOfTheLive'
    BY <1>0 DEF GateIInv, Gate!LessonsAreOfTheLive
  <1>7. at[p] \in Staging /\ at[p] \notin {"off", "prune", "oldest"}
    BY <1>0 DEF Staging
  <1>8. CASE Gate!StageMd(p)
    <2>1. at[p] = "write" /\ md' = u /\ json' = None /\ fate' = fate /\ knows' = knows
      BY <1>3, <1>4, <1>8 DEF Gate!StageMd
    <2>2. PICK l \in GatePlaces \ {"prune", "oldest", "save", "live"} : l = "commit"
      BY DEF GatePlaces, Staging
    <2>3. PICK c \in Locs : c = knows[p]
      BY <1>2
    <2>4. at' = [at EXCEPT ![p] = l] /\ knows' = [knows EXCEPT ![p] = c]
      BY <1>2, <1>8, <2>1, <2>2, <2>3 DEF Gate!StageMd, Gate!Goto
    <2>5. Knows(p, l, c)
      BY <1>2, <2>1, <2>2, <2>3 DEF Knows, Staging, Archiving, Clearing
    <2>6. Relies(l, c)' /\ Sees(l, c)'
      BY <1>3, <2>1, <2>2, <2>3 DEF Relies, Sees, Archiving, Clearing
    <2>7. Gate!PairIsOne' /\ Gate!HeldIsThere'
      BY <1>1, <1>5, <2>1 DEF Gate!PairIsOne, Gate!HeldIsThere
    <2>8. md' \in Held /\ json' \in Held /\ fate' \in [Gate!Updates -> Fates] /\ synced' \subseteq Synced
      BY <1>0, <1>1, <1>4, <2>1
    <2>9. UNCHANGED <<live, versions, made, deaths>>
      BY <1>0
    <2> QED BY <1>6, <1>7, <2>4, <2>5, <2>6, <2>7, <2>8, <2>9, GatePairs
  <1>9. CASE Gate!StageJson(p)
    <2>1. at[p] = "commit" /\ json' = u /\ md' = md /\ fate' = [fate EXCEPT ![u] = "pending"] /\ Gate!Exit(p)
      BY <1>3, <1>9 DEF Gate!StageJson
    <2>2. PICK l \in GatePlaces \ {"prune", "oldest", "save", "live"} : l = "off"
      BY DEF GatePlaces
    <2>3. PICK c : c = None
      OBVIOUS
    <2>4. at' = [at EXCEPT ![p] = l] /\ knows' = [knows EXCEPT ![p] = c]
      BY <2>1, <2>2, <2>3 DEF Gate!Exit, Gate!Goto
    <2>5. Knows(p, l, c)
      BY <2>2 DEF Knows, Staging, Archiving, Clearing
    <2>6. Relies(l, c)' /\ Sees(l, c)'
      BY <2>2 DEF Relies, Sees, Archiving, Clearing
    <2>7. md \in {None, u}
      BY <1>2, <1>3, <2>1 DEF Relies
    <2>8. Gate!PairIsOne'
      BY <2>1, <2>7 DEF Gate!PairIsOne
    <2>9. \A v \in Gate!Updates : fate'[v] = IF v = u THEN "pending" ELSE fate[v]
      BY <1>1, <2>1
    <2>10. Gate!HeldIsThere'
      <3>1. SUFFICES ASSUME gate.Serial, NEW v \in Gate!Updates, fate'[v] = "pending" PROVE md' = v /\ json' = v
        BY <1>1 DEF Gate!HeldIsThere
      <3>2. v = u
        BY <1>5, <2>9, <3>1
      <3>3. md = u
        BY <1>2, <1>3, <2>1, <3>1 DEF Sees
      <3> QED BY <2>1, <3>2, <3>3
    <2>11. fate' \in [Gate!Updates -> Fates]
      BY <1>1, <2>1 DEF Fates
    <2>12. md' \in Held /\ json' \in Held /\ synced' \subseteq Synced
      BY <1>0, <1>1, <2>1
    <2>13. UNCHANGED <<live, versions, made, deaths>>
      BY <1>0
    <2> QED BY <1>6, <1>7, <2>4, <2>5, <2>6, <2>8, <2>10, <2>11, <2>12, <2>13, GatePairs
  <1> QED BY <1>8, <1>9

\* What is held is cleared.
LEMMA GateClears ==
    ASSUME GateIInv, gate' = gate, gate.Serial => Gate!OneAtATime', NEW p \in Gate!Procs, Gate!ClearMd(p) \/ Gate!ClearJson(p)
    PROVE  GateIInv'
  <1>0. /\ at[p] \in {"clear", "clear_json"} /\ UNCHANGED <<live, versions, made, deaths>>
    BY DEF Gate!ClearMd, Gate!ClearJson
  <1>1. /\ GateType /\ md \in Held /\ json \in Held /\ None \in Held /\ None \notin Gate!Updates /\ synced \subseteq Synced
        /\ fate \in [Gate!Updates -> Fates] /\ Gate!Updates' = Gate!Updates /\ Gate!Updates \subseteq Held
    BY GateConstants, GateStays DEF GateIInv, GateType, Held
  <1>2. /\ Knows(p, at[p], knows[p]) /\ knows[p] \in Locs
        /\ gate.Serial => Sees(at[p], knows[p])
        /\ knows = [knows EXCEPT ![p] = knows[p]]
    BY <1>0, GateAt
  <1>3. PICK u \in Gate!Updates : u = knows[p].got
    BY <1>0, <1>2 DEF Knows, Clearing
  <1>4. knows[p].op \in {"auto", "approve", "reject"}
    BY <1>0, <1>2 DEF Knows, Clearing, Locs
  <1>5. at[p] \notin {"off", "prune", "oldest"}
    BY <1>0
  <1>6. CASE Gate!ClearMd(p)
    <2>1. at[p] = "clear" /\ md' = None /\ json' = json /\ synced' = synced /\ knows' = knows
      BY <1>6 DEF Gate!ClearMd
    <2>2. PICK w \in Fates \ {"pending"} : w = Gate!Verdict[knows[p].op]
      BY <1>4 DEF Gate!Verdict, Fates
    <2>3. fate' = [v \in Gate!Updates |-> IF v = u /\ fate[v] = "pending" THEN w ELSE fate[v]]
      BY <1>3, <1>6, <2>2 DEF Gate!ClearMd
    <2>4. fate' \in [Gate!Updates -> Fates]
      BY <1>1, <2>2, <2>3
    <2>5. PICK l \in GatePlaces \ {"prune", "oldest", "save", "live"} : l = "clear_json"
      BY DEF GatePlaces, Clearing
    <2>6. PICK c \in Locs : c = knows[p]
      BY <1>2
    <2>7. at' = [at EXCEPT ![p] = l] /\ knows' = [knows EXCEPT ![p] = c]
      BY <1>2, <1>6, <2>1, <2>5, <2>6 DEF Gate!ClearMd, Gate!Goto
    <2>8. Knows(p, l, c)
      BY <1>3, <1>4, <2>5, <2>6 DEF Knows, Staging, Archiving, Clearing
    <2>9. Relies(l, c)'
      BY <2>5 DEF Relies
    <2>10. gate.Serial => Sees(l, c)'
      BY <1>2, <2>1, <2>5, <2>6 DEF Sees, Archiving, Clearing
    <2>11. Gate!PairIsOne'
      BY <2>1 DEF Gate!PairIsOne
    <2>12. Gate!HeldIsThere'
      <3>1. SUFFICES ASSUME gate.Serial, NEW v \in Gate!Updates, fate'[v] = "pending" PROVE FALSE
        BY <1>1 DEF Gate!HeldIsThere
      <3>2. fate[v] = "pending" /\ v # u
        BY <2>2, <2>3, <3>1
      <3>3. md = v
        BY <3>1, <3>2 DEF GateIInv, Gate!HeldIsThere
      <3>4. md = u
        BY <1>2, <1>3, <2>1, <3>1 DEF Sees
      <3> QED BY <3>2, <3>3, <3>4
    <2>13. Gate!LessonsAreOfTheLive'
      BY <2>1 DEF GateIInv, Gate!LessonsAreOfTheLive
    <2>14. md' \in Held /\ json' \in Held /\ synced' \subseteq Synced /\ json' \in {json, None} /\ md' \in {md, None}
      BY <1>1, <2>1
    <2>15. UNCHANGED <<live, versions, made, deaths>>
      BY <1>0
    <2> QED BY <1>5, <2>4, <2>7, <2>8, <2>9, <2>10, <2>11, <2>12, <2>13, <2>14, <2>15, GatePairs
  <1>7. CASE Gate!ClearJson(p)
    <2>1. at[p] = "clear_json" /\ json' = None /\ md' = md /\ fate' = fate /\ Gate!Exit(p)
      BY <1>7 DEF Gate!ClearJson
    <2>2. PICK l \in GatePlaces \ {"prune", "oldest", "save", "live"} : l = "off"
      BY DEF GatePlaces
    <2>3. PICK c : c = None
      OBVIOUS
    <2>4. at' = [at EXCEPT ![p] = l] /\ knows' = [knows EXCEPT ![p] = c]
      BY <2>1, <2>2, <2>3 DEF Gate!Exit, Gate!Goto
    <2>5. Knows(p, l, c)
      BY <2>2 DEF Knows, Staging, Archiving, Clearing
    <2>6. Relies(l, c)' /\ Sees(l, c)'
      BY <2>2 DEF Relies, Sees, Archiving, Clearing
    <2>7. Gate!PairIsOne'
      BY <2>1 DEF Gate!PairIsOne
    <2>8. Gate!HeldIsThere'
      <3>1. SUFFICES ASSUME gate.Serial, NEW v \in Gate!Updates, fate[v] = "pending" PROVE FALSE
        BY <1>1, <2>1 DEF Gate!HeldIsThere
      <3>2. md = v
        BY <3>1 DEF GateIInv, Gate!HeldIsThere
      <3>3. md = None
        BY <1>2, <2>1, <3>1 DEF Sees
      <3> QED BY <1>1, <3>2, <3>3
    <2>9. CASE knows[p].op = "approve" /\ knows[p].first # None
      <3>1. PICK f \in Gate!Updates : f = knows[p].first
        BY <1>2, <2>9 DEF Locs, Held
      <3>2. PICK s \in Synced : s = [live |-> u, lessons |-> f]
        BY DEF Synced
      <3>3. synced' = synced \cup {s}
        BY <1>3, <1>7, <2>9, <3>1, <3>2 DEF Gate!ClearJson
      <3>4. gate.Serial => f = u
        BY <1>2, <1>3, <2>1, <2>9, <3>1 DEF Sees, Clearing
      <3>5. Gate!LessonsAreOfTheLive'
        <4>1. s.lessons = f /\ s.live = u
          BY <3>2
        <4> QED BY <3>3, <3>4, <4>1 DEF GateIInv, Gate!LessonsAreOfTheLive
      <3>6. md' \in Held /\ json' \in Held /\ synced' \subseteq Synced /\ json' \in {json, None} /\ md' \in {md, None}
        BY <1>1, <2>1, <3>3
      <3>7. UNCHANGED <<live, versions, made, deaths>> /\ fate' \in [Gate!Updates -> Fates]
        BY <1>0, <1>1, <2>1
      <3> QED BY <1>5, <2>4, <2>5, <2>6, <2>7, <2>8, <3>5, <3>6, <3>7, GatePairs
    <2>10. CASE ~(knows[p].op = "approve" /\ knows[p].first # None)
      <3>1. synced' = synced
        BY <1>7, <2>10 DEF Gate!ClearJson
      <3>5. Gate!LessonsAreOfTheLive'
        BY <3>1 DEF GateIInv, Gate!LessonsAreOfTheLive
      <3>6. md' \in Held /\ json' \in Held /\ synced' \subseteq Synced /\ json' \in {json, None} /\ md' \in {md, None}
        BY <1>1, <2>1, <3>1
      <3>7. UNCHANGED <<live, versions, made, deaths>> /\ fate' \in [Gate!Updates -> Fates]
        BY <1>0, <1>1, <2>1
      <3> QED BY <1>5, <2>4, <2>5, <2>6, <2>7, <2>8, <3>5, <3>6, <3>7, GatePairs
    <2> QED BY <2>9, <2>10
  <1> QED BY <1>6, <1>7

\* The oldest of the versions that are there.
LEMMA OldestIsThere ==
    ASSUME NEW S \in SUBSET Nat, S # {}
    PROVE  Gate!Oldest(S) \in S /\ \A m \in S : Gate!Oldest(S) <= m
  <1> DEFINE R == OpToRel(<, Nat)
  <1>1. IsWellFoundedOn(R, Nat)
    BY NatLessThanWellFounded
  <1>2. \A x, y \in Nat : <<y, x>> \in R <=> y < x
    BY DEF OpToRel
  <1> HIDE DEF R
  <1>3. PICK n \in S : \A m \in S : <<m, n>> \notin R
    BY <1>1, WFMin
  <1>4. n \in Nat /\ \A m \in S : m \in Nat /\ ~(m < n)
    BY <1>2, <1>3
  <1>5. n \in S /\ \A m \in S : n <= m
    BY <1>4
  <1> QED BY <1>5 DEF Gate!Oldest

\* Who is alone before it prunes finds no more versions than are kept, and then one.
LEMMA ArchiveAlone ==
    ASSUME GateIInv, gate.Serial, Gate!MaxCrashes = 0, NEW p \in Gate!Procs, at[p] # "off"
    PROVE  /\ at[p] \notin {"prune", "oldest"} => Cardinality(Gate!Archived) <= Gate!MaxVersions
           /\ at[p] \in {"prune", "oldest"} => Cardinality(Gate!Archived) <= Gate!MaxVersions + 1
  <1>1. /\ Cardinality(Gate!Archived) \in Nat /\ Gate!MaxVersions \in Nat /\ deaths = 0
        /\ Cardinality(Gate!Archived) <= Gate!MaxVersions + Cardinality(Pruning) + deaths
    BY ArchiveIsFinite, GateConstants DEF GateIInv, GateType, Bounded
  <1>2. \A q \in Gate!Procs : at[q] # "off" => q = p
    BY DEF GateIInv, Gate!OneAtATime
  <1>3. CASE at[p] \in {"prune", "oldest"}
    <2>1. Pruning = {p}
      BY <1>2, <1>3 DEF Pruning
    <2>2. Cardinality(Pruning) = 1
      BY <2>1, FS_Singleton
    <2> QED BY <1>1, <1>3, <2>2
  <1>4. CASE at[p] \notin {"prune", "oldest"}
    <2>1. Pruning = {}
      BY <1>2, <1>4 DEF Pruning
    <2>2. Cardinality(Pruning) = 0
      BY <2>1, FS_EmptySet
    <2> QED BY <1>1, <1>4, <2>2
  <1> QED BY <1>3, <1>4

\* What is live is numbered, and written.
LEMMA GateWrites ==
    ASSUME GateIInv, gate' = gate, gate.Serial => Gate!OneAtATime', NEW p \in Gate!Procs, Gate!NumberVersion(p) \/ Gate!WriteLive(p)
    PROVE  GateIInv'
  <1>1. /\ GateType /\ live \in Held /\ Gate!MaxVersions \in Nat /\ Gate!MaxCrashes \in Nat /\ IsFiniteSet(Gate!Procs)
        /\ deaths \in 0..Gate!MaxCrashes /\ Cardinality(Gate!Procs) \in Nat /\ Gate!Updates \subseteq Held /\ None \notin Gate!Updates
    BY GateConstants DEF GateIInv, GateType, Held
  <1>2. /\ Knows(p, at[p], knows[p]) /\ knows[p] \in Locs
        /\ gate.Serial => Sees(at[p], knows[p])
        /\ knows = [knows EXCEPT ![p] = knows[p]]
    BY GateAt DEF Gate!NumberVersion, Gate!WriteLive
  <1>3. CASE Gate!NumberVersion(p)
    <2>0. at[p] = "archive" /\ UNCHANGED <<Gate!files, fate, made, deaths>>
      BY <1>3 DEF Gate!NumberVersion
    <2>1. CASE live = None
      <3>1. Gate!Goto(p, "live") /\ UNCHANGED knows
        BY <1>3, <2>1 DEF Gate!NumberVersion
      <3>2. PICK l \in GatePlaces : l = "live"
        BY DEF GatePlaces, Archiving
      <3>3. Knows(p, l, knows[p]) /\ Relies(l, knows[p])
        BY <1>2, <2>0, <3>2 DEF Knows, Relies, Staging, Archiving, Clearing
      <3>4. (gate.Serial => Sees(l, knows[p])) /\ Archives(l, knows[p])
        BY <1>2, <2>0, <2>1, <3>2 DEF Sees, Archives, Archiving, Clearing
      <3>5. Gate!Goto(p, l)
        BY <3>1, <3>2
      <3> QED BY <2>0, <3>1, <3>3, <3>4, <3>5, GateGoesOn
    <2>2. CASE live # None
      <3>1. Gate!Goto(p, "save") /\ knows' = [knows EXCEPT ![p].old = live, ![p].n = Cardinality(Gate!Archived) + 1]
        BY <1>3, <2>2, GateCounts DEF Gate!NumberVersion
      <3>2. Cardinality(Gate!Archived) \in Nat
        BY <1>1, ArchiveIsFinite
      <3>6. Cardinality(Gate!Archived) + 1 \in Numbers /\ Cardinality(Gate!Archived) + 1 \in Nat
        BY <3>2 DEF Numbers
      <3>7. PICK n \in Nat : n = Cardinality(Gate!Archived) + 1 /\ n \in Numbers
        BY <3>6
      <3>8. PICK v \in Held : v = live /\ v \in Gate!Updates
        BY <1>1, <2>2 DEF Held
      <3>9. PICK a \in Locs : a = knows[p]
        BY <1>2
      <3>10. PICK c : c = [a EXCEPT !.old = v, !.n = n]
        OBVIOUS
      <3>11. /\ c \in Locs /\ c.old = v /\ c.n = n /\ c.op = a.op /\ c.update = a.update /\ c.got = a.got
             /\ c.first = a.first /\ c.reads = a.reads
        BY <3>10 DEF Locs
      <3>12. knows' = [knows EXCEPT ![p] = c]
        BY <1>1, <3>1, <3>7, <3>8, <3>9, <3>10 DEF GateType
      <3>13. PICK l \in GatePlaces : l = "save"
        BY DEF GatePlaces, Archiving
      <3>14. at' = [at EXCEPT ![p] = l]
        BY <3>1, <3>13 DEF Gate!Goto
      <3>15. Knows(p, l, c) /\ Relies(l, c)
        BY <1>2, <2>0, <3>7, <3>8, <3>9, <3>11, <3>13 DEF Knows, Relies, Staging, Archiving, Clearing
      <3>16. gate.Serial => Sees(l, c)
        BY <1>2, <2>0, <3>9, <3>11, <3>13 DEF Sees, Archiving, Clearing
      <3>17. Archives(l, c)
        BY <2>2, <3>7, <3>8, <3>11, <3>13 DEF Archives
      <3>18. /\ at[p] # "off" /\ at[p] \notin {"prune", "oldest"} /\ deaths' = deaths /\ deaths' \in 0..Gate!MaxCrashes
             /\ made' \in 0..Gate!MaxUpdates /\ UNCHANGED <<Gate!files, fate>>
        BY <1>1, <2>0 DEF GateType
      <3> QED BY <3>12, <3>14, <3>15, <3>16, <3>17, <3>18, GateGoes
    <2> QED BY <2>1, <2>2
  <1>4. CASE Gate!WriteLive(p)
    <2>0. /\ at[p] = "live" /\ UNCHANGED <<versions, md, json, synced, fate, made, deaths>> /\ knows' = knows
          /\ live' = knows[p].got
      BY <1>4 DEF Gate!WriteLive
    <2>1. PICK l \in GatePlaces : l = IF knows[p].op = "approve" THEN "clear" ELSE "read"
      BY DEF GatePlaces, Clearing
    <2>2. PICK c \in Locs : c = knows[p]
      BY <1>2
    <2>3. at' = [at EXCEPT ![p] = l] /\ knows' = [knows EXCEPT ![p] = c]
      BY <1>2, <1>4, <2>0, <2>1, <2>2 DEF Gate!WriteLive, Gate!Goto
    <2>4. Knows(p, l, c)
      BY <1>2, <2>0, <2>1, <2>2 DEF Knows, Staging, Archiving, Clearing
    <2>5. Relies(l, c)'
      BY <2>1 DEF Relies
    <2>6. gate.Serial => Sees(l, c)'
      BY <1>2, <2>0, <2>1, <2>2 DEF Sees, Archiving, Clearing
    <2>7. Archives(l, c)'
      BY <2>1 DEF Archives
    <2>8. /\ Bounded' /\ (gate.Serial /\ Gate!MaxCrashes = 0 => Contiguous')
          /\ ArchiveType' /\ \A x \in Gate!Archived : \E y \in Gate!Archived' : x <= y
      <3>1. at[p] \notin {"prune", "oldest"} /\ l \notin {"prune", "oldest"} /\ versions' = versions /\ deaths' = deaths
        BY <2>0, <2>1
      <3> QED BY <2>3, <3>1, ArchiveStays
    <2>9. live' \in Held
      BY <1>1, <1>2, <2>0 DEF Knows, Archiving
    <2>10. Gate!PairIsOne' /\ Gate!HeldIsThere' /\ Gate!LessonsAreOfTheLive'
      BY <2>0, GateStays DEF GateIInv, Gate!PairIsOne, Gate!HeldIsThere, Gate!LessonsAreOfTheLive
    <2>11. /\ md' \in Held /\ json' \in Held /\ synced' \subseteq Synced
           /\ fate' \in [Gate!Updates -> Fates] /\ made' \in 0..Gate!MaxUpdates /\ deaths' \in 0..Gate!MaxCrashes
      BY <1>1, <2>0 DEF GateType
    <2>12. json' \in {json, None} /\ md' \in {md, None} /\ (at[p] # "off" \/ l # "off")
      BY <2>0
    <2> QED BY <2>3, <2>4, <2>5, <2>6, <2>7, <2>8, <2>9, <2>10, <2>11, <2>12, GateFrame
  <1> QED BY <1>3, <1>4

\* What is replaced is archived.
LEMMA GateSaves ==
    ASSUME GateIInv, gate' = gate, gate.Serial => Gate!OneAtATime', NEW p \in Gate!Procs, Gate!SaveVersion(p)
    PROVE  GateIInv'
  <1>0. /\ at[p] = "save" /\ UNCHANGED <<live, md, json, synced, fate, made, deaths>> /\ knows' = knows
        /\ versions' = [m \in Gate!Archived \cup {knows[p].n} |-> IF m = knows[p].n THEN knows[p].old ELSE versions[m]]
    BY DEF Gate!SaveVersion
  <1>1. GateType /\ Gate!MaxVersions \in Nat /\ Gate!MaxCrashes \in Nat /\ deaths \in 0..Gate!MaxCrashes /\ None \notin Gate!Updates
    BY GateConstants DEF GateIInv, GateType
  <1>2. /\ Knows(p, at[p], knows[p]) /\ knows[p] \in Locs
        /\ gate.Serial => Sees(at[p], knows[p])
        /\ gate.Serial /\ Gate!MaxCrashes = 0 => Archives(at[p], knows[p])
        /\ knows = [knows EXCEPT ![p] = knows[p]]
    BY <1>0, GateAt
  <1>3. PICK c \in Locs : c = knows[p]
    BY <1>2
  <1>4. PICK n \in Numbers : n = c.n
    BY <1>0, <1>2, <1>3 DEF Knows
  <1>5. PICK v \in Gate!Updates : v = c.old
    BY <1>0, <1>2, <1>3 DEF Knows
  <1>6. versions' = [m \in Gate!Archived \cup {n} |-> IF m = n THEN v ELSE versions[m]]
    BY <1>0, <1>3, <1>4, <1>5
  <1>8. Numbers' = Numbers /\ Gate!MaxVersions' = Gate!MaxVersions /\ Numbers \subseteq Nat /\ Gate!Updates' = Gate!Updates
    BY GateStays DEF Numbers
  <1>9. Gate!Archived' = Gate!Archived \cup {n}
    BY <1>6 DEF Gate!Archived
  <1>7. versions'[n] = v /\ ArchiveType' /\ \A x \in Gate!Archived : \E y \in Gate!Archived' : x <= y
    <2>1. /\ IsFiniteSet(Gate!Archived) /\ Gate!Archived \subseteq Numbers /\ Gate!Archived \subseteq Nat
          /\ versions \in [Gate!Archived -> Gate!Updates]
      BY <1>1, ArchiveIsFinite
    <2>2. IsFiniteSet(Gate!Archived \cup {n})
      BY <2>1, FS_AddElement
    <2>3. versions' \in [Gate!Archived \cup {n} -> Gate!Updates] /\ versions'[n] = v
      BY <1>6, <2>1
    <2>4. \A x \in Gate!Archived : x \in Gate!Archived' /\ x <= x
      BY <1>9, <2>1
    <2> QED BY <1>8, <1>9, <2>1, <2>2, <2>3, <2>4 DEF ArchiveType
  <1>10. /\ Cardinality(Gate!Archived') = IF n \in Gate!Archived THEN Cardinality(Gate!Archived) ELSE Cardinality(Gate!Archived) + 1
         /\ Cardinality(Gate!Archived) \in Nat /\ Gate!Archived \subseteq Nat
    <2>1. IsFiniteSet(Gate!Archived) /\ Cardinality(Gate!Archived) \in Nat /\ Gate!Archived \subseteq Nat
      BY <1>1, ArchiveIsFinite
    <2>2. Cardinality(Gate!Archived \cup {n}) = IF n \in Gate!Archived THEN Cardinality(Gate!Archived) ELSE Cardinality(Gate!Archived) + 1
      BY <2>1, FS_AddElement
    <2> QED BY <1>9, <2>1, <2>2
  <1>11. PICK l \in GatePlaces : l = "prune"
    BY DEF GatePlaces, Archiving
  <1>12. at' = [at EXCEPT ![p] = l] /\ knows' = [knows EXCEPT ![p] = c]
    BY <1>0, <1>2, <1>3, <1>11 DEF Gate!SaveVersion, Gate!Goto
  <1>13. Bounded'
    <2> SUFFICES ASSUME gate.Serial PROVE Cardinality(Gate!Archived') <= Gate!MaxVersions + Cardinality(Pruning') + deaths
      BY <1>0, <1>8 DEF Bounded
    <2>1. Cardinality(Pruning') = Cardinality(Pruning) + 1 /\ Cardinality(Pruning) \in Nat
      BY <1>0, <1>1, <1>11, <1>12, PruneCount
    <2>2. Cardinality(Gate!Archived') <= Cardinality(Gate!Archived) + 1 /\ Cardinality(Gate!Archived') \in Nat
      BY <1>10
    <2>3. Cardinality(Gate!Archived) <= Gate!MaxVersions + Cardinality(Pruning) + deaths /\ deaths \in Nat
      BY <1>1 DEF GateIInv, Bounded
    <2> QED BY <1>1, <1>10, <2>1, <2>2, <2>3
  <1>14. Knows(p, l, c)
    BY <1>0, <1>2, <1>3, <1>11 DEF Knows, Staging, Archiving, Clearing
  <1>15. Relies(l, c)'
    BY <1>11 DEF Relies
  <1>16. gate.Serial => Sees(l, c)'
    BY <1>0, <1>2, <1>3, <1>11 DEF Sees, Archiving, Clearing
  <1>17. ASSUME gate.Serial, Gate!MaxCrashes = 0 PROVE Contiguous' /\ Archives(l, c)'
    <2>1. Gate!Archived \subseteq 1..(Cardinality(Gate!Archived) + 1)
      BY <1>17 DEF GateIInv, Contiguous
    <2>2. n = Cardinality(Gate!Archived) + 1 /\ v = live
      BY <1>0, <1>2, <1>3, <1>4, <1>5, <1>17 DEF Archives
    <2>3. Cardinality(Gate!Archived) <= Gate!MaxVersions
      BY <1>0, <1>17, ArchiveAlone
    <2>4. Gate!Archived' \subseteq 1..n
      <3>1. Gate!Archived \subseteq 1..n
        BY <2>1, <2>2
      <3>2. n \in 1..n
        BY <1>10, <2>2
      <3> QED BY <1>9, <3>1, <3>2
    <2>7. \A m \in Gate!Archived' : m <= n
      BY <1>10, <2>2, <2>4
    <2>8. LastIs(n)'
      BY <1>0, <1>7, <1>9, <2>2, <2>7 DEF LastIs
    <2>9. Archives(l, c)'
      BY <1>8, <1>11, <2>8 DEF Archives
    <2>5. CASE n \in Gate!Archived
      <3>1. Cardinality(Gate!Archived') = Cardinality(Gate!Archived)
        BY <1>10, <2>5
      <3>2. Contiguous'
        BY <1>1, <1>8, <1>10, <2>2, <2>3, <2>4, <3>1 DEF Contiguous
      <3> QED BY <2>9, <3>2
    <2>6. CASE n \notin Gate!Archived
      <3>1. Cardinality(Gate!Archived') = n
        BY <1>10, <2>2, <2>6
      <3>2. Gate!Archived' \subseteq 1..(n + 1)
        BY <1>10, <2>2, <2>4
      <3>3. Contiguous'
        BY <2>4, <3>1, <3>2 DEF Contiguous
      <3> QED BY <2>9, <3>3
    <2> QED BY <2>5, <2>6
  <1>18. Gate!PairIsOne' /\ Gate!HeldIsThere' /\ Gate!LessonsAreOfTheLive'
    BY <1>0, GateStays DEF GateIInv, Gate!PairIsOne, Gate!HeldIsThere, Gate!LessonsAreOfTheLive
  <1>19. /\ live' \in Held /\ md' \in Held /\ json' \in Held /\ synced' \subseteq Synced
         /\ fate' \in [Gate!Updates -> Fates] /\ made' \in 0..Gate!MaxUpdates /\ deaths' \in 0..Gate!MaxCrashes
    BY <1>0, <1>1 DEF GateType
  <1>20. json' \in {json, None} /\ md' \in {md, None} /\ (at[p] # "off" \/ l # "off")
    BY <1>0
  <1> QED BY <1>7, <1>12, <1>13, <1>14, <1>15, <1>16, <1>17, <1>18, <1>19, <1>20, GateFrame

\* What a pruner has listed changes nothing else that it knows.
LEMMA Lists ==
    ASSUME NEW c \in Locs, NEW S \in SUBSET Numbers
    PROVE  /\ [c EXCEPT !.listed = S] \in Locs /\ [c EXCEPT !.listed = S].listed = S
           /\ [c EXCEPT !.listed = S].op = c.op /\ [c EXCEPT !.listed = S].update = c.update /\ [c EXCEPT !.listed = S].got = c.got
           /\ [c EXCEPT !.listed = S].first = c.first /\ [c EXCEPT !.listed = S].reads = c.reads
  BY DEF Locs

\* The versions are listed to be pruned.
LEMMA GatePrunes ==
    ASSUME GateIInv, gate' = gate, gate.Serial => Gate!OneAtATime', NEW p \in Gate!Procs, Gate!_prune(p)
    PROVE  GateIInv'
  <1>0. at[p] = "prune" /\ UNCHANGED <<Gate!files, fate, made, deaths>>
    BY DEF Gate!_prune
  <1>1. GateType /\ Gate!MaxVersions \in Nat \ {0} /\ Gate!MaxCrashes \in Nat /\ deaths \in 0..Gate!MaxCrashes
    BY GateConstants DEF GateIInv, GateType
  <1>2. /\ Knows(p, at[p], knows[p]) /\ knows[p] \in Locs
        /\ gate.Serial => Sees(at[p], knows[p])
        /\ gate.Serial /\ Gate!MaxCrashes = 0 => Archives(at[p], knows[p])
    BY <1>0, GateAt
  <1>3. PICK c \in Locs : c = knows[p]
    BY <1>2
  <1>4. IsFiniteSet(Gate!Archived) /\ Cardinality(Gate!Archived) \in Nat /\ Gate!Archived \subseteq Numbers /\ Gate!Archived \subseteq Nat
    BY <1>1, ArchiveIsFinite
  <1>5. PICK d : d = [c EXCEPT !.listed = Gate!Archived]
    OBVIOUS
  <1>6. /\ d \in Locs /\ d.listed = Gate!Archived /\ d.op = c.op /\ d.update = c.update /\ d.got = c.got /\ d.first = c.first
        /\ d.reads = c.reads
    BY <1>4, <1>5, Lists
  <1>7. PICK l \in GatePlaces : l = IF Cardinality(Gate!Archived) > Gate!MaxVersions THEN "oldest" ELSE "live"
    BY DEF GatePlaces, Archiving
  <1>8. at' = [at EXCEPT ![p] = l]
    BY <1>7, GateCounts DEF Gate!_prune, Gate!PruneOf, Gate!Goto
  <1>9. knows' = [knows EXCEPT ![p] = d]
    BY <1>3, <1>5 DEF Gate!_prune, Gate!PruneOf
  <1>10. Knows(p, l, d)
    BY <1>0, <1>2, <1>3, <1>4, <1>6, <1>7 DEF Knows, Staging, Archiving, Clearing
  <1>11. Relies(l, d)
    <2>1. \A x \in Gate!Archived : x <= x
      BY <1>4
    <2> QED BY <1>6, <1>7, <2>1 DEF Relies
  <1>12. gate.Serial => Sees(l, d)
    BY <1>0, <1>2, <1>3, <1>6, <1>7 DEF Sees, Archiving, Clearing
  <1>13. gate.Serial /\ Gate!MaxCrashes = 0 => Archives(l, d)
    BY <1>0, <1>2, <1>7 DEF Archives
  <1>14. l \notin {"prune", "oldest"} => Cardinality(Gate!Archived) <= Gate!MaxVersions
    BY <1>1, <1>4, <1>7
  <1>15. /\ UNCHANGED <<Gate!files, fate>> /\ made' \in 0..Gate!MaxUpdates /\ deaths' \in 0..Gate!MaxCrashes /\ deaths' = deaths
         /\ at[p] # "off"
    BY <1>0, <1>1 DEF GateType
  <1> QED BY <1>8, <1>9, <1>10, <1>11, <1>12, <1>13, <1>14, <1>15, GateGoes

\* A version that is removed leaves a newer one, whoever else prunes.
LEMMA UnlinkLeaves ==
    ASSUME GateIInv, NEW p \in Gate!Procs, Gate!UnlinkOldest(p)
    PROVE  \E o \in knows[p].listed :
             /\ o = Gate!Oldest(knows[p].listed) /\ \A m \in knows[p].listed : o <= m
             /\ Gate!Archived' = Gate!Archived \ {o} /\ \E y \in Gate!Archived' : o < y
  <1>1. at[p] = "oldest" /\ versions' = [n \in Gate!Archived \ {Gate!Oldest(knows[p].listed)} |-> versions[n]]
    BY DEF Gate!UnlinkOldest
  <1>2. Knows(p, at[p], knows[p]) /\ Relies(at[p], knows[p]) /\ knows[p] \in Locs /\ Gate!MaxVersions \in Nat \ {0}
    BY <1>1, GateAt, GateConstants DEF GateIInv
  <1>3. PICK S : S = knows[p].listed
    OBVIOUS
  <1>4. /\ S \in SUBSET Nat /\ IsFiniteSet(S) /\ Cardinality(S) > Gate!MaxVersions
        /\ \A x \in S : \E y \in Gate!Archived : x <= y
    BY <1>1, <1>2, <1>3 DEF Knows, Relies, Locs, Numbers
  <1>5. Cardinality(S) \in Nat
    BY <1>4, FS_CardinalityType
  <1>6. S # {}
    BY <1>2, <1>4, <1>5, FS_EmptySet
  <1>7. PICK o \in S : o = Gate!Oldest(S) /\ \A m \in S : o <= m
    BY <1>4, <1>6, OldestIsThere
  <1>8. \E z \in S : z # o
    <2>1. SUFFICES ASSUME S = {o} PROVE FALSE
      BY <1>7
    <2>2. Cardinality(S) = 1
      BY <2>1, FS_Singleton
    <2> QED BY <1>2, <1>4, <2>2
  <1>9. PICK z \in S : o < z
    BY <1>4, <1>7, <1>8
  <1>10. PICK y \in Gate!Archived : z <= y
    BY <1>4
  <1>11. Gate!Archived \subseteq Nat
    BY ArchiveIsFinite DEF GateIInv
  <1>12. o < y
    BY <1>4, <1>9, <1>10, <1>11
  <1>13. Gate!Archived' = Gate!Archived \ {o}
    BY <1>1, <1>3, <1>7 DEF Gate!Archived
  <1>14. y \in Gate!Archived'
    BY <1>4, <1>10, <1>11, <1>12, <1>13
  <1> QED BY <1>3, <1>7, <1>12, <1>13, <1>14

\* The oldest that was listed is removed, or it is gone.
LEMMA GateUnlinks ==
    ASSUME GateIInv, gate' = gate, gate.Serial => Gate!OneAtATime', NEW p \in Gate!Procs, Gate!UnlinkOldest(p)
    PROVE  GateIInv'
  <1>0. at[p] = "oldest" /\ UNCHANGED <<live, md, json, synced, fate, made, deaths>>
    BY DEF Gate!UnlinkOldest
  <1>1. GateType /\ Gate!MaxVersions \in Nat \ {0} /\ Gate!MaxCrashes \in Nat /\ deaths \in 0..Gate!MaxCrashes
    BY GateConstants DEF GateIInv, GateType
  <1>2. /\ Knows(p, at[p], knows[p]) /\ knows[p] \in Locs /\ Relies(at[p], knows[p])
        /\ gate.Serial => Sees(at[p], knows[p])
        /\ gate.Serial /\ Gate!MaxCrashes = 0 => Archives(at[p], knows[p])
    BY <1>0, GateAt
  <1>3. PICK c \in Locs : c = knows[p]
    BY <1>2
  <1>4. PICK o \in c.listed : /\ o = Gate!Oldest(c.listed) /\ \A m \in c.listed : o <= m
                              /\ Gate!Archived' = Gate!Archived \ {o} /\ \E y \in Gate!Archived' : o < y
    BY <1>3, UnlinkLeaves
  <1>5. /\ IsFiniteSet(Gate!Archived) /\ Cardinality(Gate!Archived) \in Nat /\ Gate!Archived \subseteq Nat
        /\ Gate!Archived \subseteq Numbers /\ versions \in [Gate!Archived -> Gate!Updates] /\ Gate!Archived = DOMAIN versions
    BY <1>1, ArchiveIsFinite
  <1>6. versions' = [n \in Gate!Archived \ {o} |-> versions[n]]
    BY <1>3, <1>4 DEF Gate!UnlinkOldest
  <1>7. c.listed \subseteq Numbers /\ c.listed \subseteq Nat /\ IsFiniteSet(c.listed)
    BY <1>0, <1>2, <1>3 DEF Knows, Locs, Numbers
  <1>8. gate.Serial => c.listed = Gate!Archived
    BY <1>0, <1>2, <1>3 DEF Sees
  <1>9. CASE o \notin Gate!Archived
    <2>1. versions' = versions
      <3>1. Gate!Archived \ {o} = Gate!Archived
        BY <1>9
      <3>2. versions' = [n \in Gate!Archived |-> versions[n]]
        BY <1>6, <3>1
      <3> QED BY <1>5, <3>2
    <2>2. Gate!Exit(p)
      BY <1>3, <1>4, <1>9 DEF Gate!UnlinkOldest
    <2>3. ~gate.Serial
      BY <1>4, <1>8, <1>9
    <2>4. UNCHANGED <<Gate!files, fate, made>> /\ deaths' = deaths /\ deaths' \in 0..Gate!MaxCrashes /\ at[p] # "off"
      BY <1>0, <1>1, <2>1 DEF Gate!files
    <2> QED BY <2>2, <2>3, <2>4, GateExit
  <1>10. CASE o \in Gate!Archived
    <2>1. PICK S \in SUBSET Numbers : S = c.listed \ {o}
      BY <1>7
    <2>2. IsFiniteSet(S)
      BY <1>7, <2>1, FS_RemoveElement
    <2>3. Cardinality(S) \in Nat
      BY <2>2, FS_CardinalityType
    <2>4. PICK d : d = [c EXCEPT !.listed = S]
      OBVIOUS
    <2>5. d \in Locs /\ d.listed = S /\ d.op = c.op /\ d.update = c.update /\ d.got = c.got /\ d.first = c.first /\ d.reads = c.reads
      BY <2>4, Lists
    <2>6. PICK l \in GatePlaces : l = IF Cardinality(S) > Gate!MaxVersions THEN "oldest" ELSE "live"
      BY DEF GatePlaces, Archiving
    <2>7. Gate!PruneOf(p, S)
      BY <1>3, <1>4, <1>10, <2>1 DEF Gate!UnlinkOldest
    <2>8. at' = [at EXCEPT ![p] = l]
      BY <2>6, <2>7, GateCounts DEF Gate!PruneOf, Gate!Goto
    <2>9. knows' = [knows EXCEPT ![p] = d]
      BY <1>3, <2>4, <2>7 DEF Gate!PruneOf
    <2>10. Cardinality(Gate!Archived') = Cardinality(Gate!Archived) - 1 /\ IsFiniteSet(Gate!Archived')
      <3>1. Cardinality(Gate!Archived \ {o}) = Cardinality(Gate!Archived) - 1 /\ IsFiniteSet(Gate!Archived \ {o})
        BY <1>5, <1>10, FS_RemoveElement
      <3> QED BY <1>4, <3>1
    <2>11. Numbers' = Numbers /\ Gate!MaxVersions' = Gate!MaxVersions /\ Gate!Updates' = Gate!Updates
      BY GateStays
    <2>12. ArchiveType'
      BY <1>4, <1>5, <1>6, <2>10, <2>11 DEF ArchiveType
    <2>13. \A x \in Gate!Archived : \E y \in Gate!Archived' : x <= y
      <3>1. PICK y \in Gate!Archived' : o < y
        BY <1>4
      <3>2. o <= y /\ \A x \in Gate!Archived : x <= x
        BY <1>4, <1>5, <1>10, <3>1
      <3> QED BY <1>4, <3>1, <3>2
    <2>14. Knows(p, l, d)
      BY <1>0, <1>2, <1>3, <2>2, <2>5, <2>6 DEF Knows, Staging, Archiving, Clearing
    <2>15. Relies(l, d)'
      <3>1. ASSUME NEW x \in S PROVE \E y \in Gate!Archived' : x <= y
        <4>1. x \in c.listed
          BY <2>1
        <4>2. PICK y \in Gate!Archived : x <= y
          BY <1>0, <1>2, <1>3, <4>1 DEF Relies
        <4>3. PICK z \in Gate!Archived' : y <= z
          BY <2>13
        <4>4. x \in Nat /\ y \in Nat /\ z \in Nat
          BY <1>4, <1>5, <1>7, <4>1
        <4>5. x <= z
          BY <4>2, <4>3, <4>4
        <4> QED BY <4>5
      <3> QED BY <2>5, <2>6, <3>1 DEF Relies
    <2>16. ASSUME gate.Serial PROVE Sees(l, d)' /\ S = Gate!Archived'
      <3>1. S = Gate!Archived'
        BY <1>4, <1>8, <2>1, <2>16
      <3>2. Sees(l, d)'
        BY <1>0, <1>2, <1>3, <2>5, <2>6, <2>16, <3>1 DEF Sees, Archiving, Clearing
      <3> QED BY <3>1, <3>2
    <2>17. Bounded'
      <3> SUFFICES ASSUME gate.Serial PROVE Cardinality(Gate!Archived') <= Gate!MaxVersions + Cardinality(Pruning') + deaths
        BY <1>0, <2>11 DEF Bounded
      <3>1. /\ l \notin {"prune", "oldest"} => Cardinality(Pruning') = Cardinality(Pruning) - 1
            /\ l \in {"prune", "oldest"} => Pruning' = Pruning
            /\ Cardinality(Pruning) \in Nat /\ Cardinality(Pruning') \in Nat
        BY <1>0, <1>1, <2>8, PruneCount
      <3>2. Cardinality(Pruning') = Cardinality(Pruning) - 1 \/ Cardinality(Pruning') = Cardinality(Pruning)
        BY <3>1
      <3>3. Cardinality(Gate!Archived) <= Gate!MaxVersions + Cardinality(Pruning) + deaths /\ deaths \in Nat
        BY <1>1 DEF GateIInv, Bounded
      <3> QED BY <1>1, <1>5, <2>10, <3>1, <3>2, <3>3
    <2>18. ASSUME gate.Serial, Gate!MaxCrashes = 0 PROVE Contiguous' /\ Archives(l, d)'
      <3>1. Cardinality(Gate!Archived) > Gate!MaxVersions /\ Cardinality(Gate!Archived) <= Gate!MaxVersions + 1
        BY <1>0, <1>2, <1>3, <1>8, <2>18, ArchiveAlone DEF Knows
      <3>2. Gate!Archived \subseteq 1..Cardinality(Gate!Archived)
        BY <2>18, <3>1 DEF GateIInv, Contiguous
      <3>3. Contiguous'
        <4>1. Cardinality(Gate!Archived') + 1 = Cardinality(Gate!Archived) /\ ~(Cardinality(Gate!Archived') > Gate!MaxVersions)
          BY <1>1, <1>5, <2>10, <3>1
        <4>2. Gate!Archived' \subseteq 1..(Cardinality(Gate!Archived') + 1)
          BY <1>4, <3>2, <4>1
        <4> QED BY <2>11, <4>1, <4>2 DEF Contiguous
      <3>4. PICK k \in Numbers : LastIs(k)
        BY <1>0, <1>2, <2>18 DEF Archives
      <3>5. k # o
        <4>1. PICK y \in Gate!Archived' : o < y
          BY <1>4
        <4>2. y \in Gate!Archived /\ y <= k
          BY <1>4, <3>4, <4>1 DEF LastIs
        <4> QED BY <1>5, <1>10, <4>1, <4>2
      <3>6. LastIs(k)'
        BY <1>0, <1>4, <1>6, <3>4, <3>5 DEF LastIs
      <3>7. Archives(l, d)'
        BY <2>6, <2>11, <3>6 DEF Archives
      <3> QED BY <3>3, <3>7
    <2>19. Gate!PairIsOne' /\ Gate!HeldIsThere' /\ Gate!LessonsAreOfTheLive'
      BY <1>0, GateStays DEF GateIInv, Gate!PairIsOne, Gate!HeldIsThere, Gate!LessonsAreOfTheLive
    <2>20. /\ live' \in Held /\ md' \in Held /\ json' \in Held /\ synced' \subseteq Synced
           /\ fate' \in [Gate!Updates -> Fates] /\ made' \in 0..Gate!MaxUpdates /\ deaths' \in 0..Gate!MaxCrashes
      BY <1>0, <1>1 DEF GateType
    <2>21. json' \in {json, None} /\ md' \in {md, None} /\ (at[p] # "off" \/ l # "off")
      BY <1>0
    <2>22. gate.Serial => Sees(l, d)'
      BY <2>16
    <2> QED BY <2>8, <2>9, <2>12, <2>13, <2>14, <2>15, <2>17, <2>18, <2>19, <2>20, <2>21, <2>22, GateFrame
  <1> QED BY <1>9, <1>10

LEMMA GateStart ==
    ASSUME Gate!Init
    PROVE  GateIInv
  <1>0. /\ gate \in GateScopes /\ live = None /\ md = None /\ json = None /\ synced = {} /\ made = 0 /\ deaths = 0
        /\ versions = [n \in {} |-> None] /\ at = [p \in Gate!Procs |-> "off"] /\ knows = [p \in Gate!Procs |-> None]
        /\ fate = [u \in Gate!Updates |-> None]
    BY DEF Gate!Init
  <1>1. Gate!MaxVersions \in Nat /\ Gate!MaxUpdates \in Nat /\ Gate!MaxCrashes \in Nat
    BY <1>0, GateAssumption DEF Gate!MaxVersions, Gate!MaxUpdates, Gate!MaxCrashes
  <1>3. Gate!Archived = {}
    BY <1>0 DEF Gate!Archived
  <1>14. ArchiveType
    BY <1>0, <1>3, FS_EmptySet DEF ArchiveType
  <1>2. GateType
    BY <1>0, <1>1, <1>14 DEF GateType, Held, GatePlaces, Fates
  <1>4. Cardinality(Gate!Archived) = 0
    BY <1>3, FS_EmptySet
  <1>5. Pruning = {}
    BY <1>0 DEF Pruning
  <1>6. Cardinality(Pruning) = 0
    BY <1>5, FS_EmptySet
  <1>7. Bounded /\ Contiguous
    BY <1>0, <1>1, <1>3, <1>4, <1>6 DEF Bounded, Contiguous
  <1>8. Gate!PairIsOne /\ Gate!LessonsAreOfTheLive
    BY <1>0 DEF Gate!PairIsOne, Gate!LessonsAreOfTheLive
  <1>9. Gate!HeldIsThere
    BY <1>0, GateAssumption DEF Gate!HeldIsThere
  <1>10. \A p \in Gate!Procs : at[p] = "off"
    BY <1>0
  <1>11. \A p \in Gate!Procs : Knows(p, at[p], knows[p]) /\ Relies(at[p], knows[p])
    BY <1>10 DEF Knows, Relies, Staging, Archiving, Clearing
  <1>12. Gate!OneAtATime /\ \A p \in Gate!Procs : Sees(at[p], knows[p])
    BY <1>10 DEF Gate!OneAtATime, Sees, Archiving, Clearing
  <1>13. \A p \in Gate!Procs : Archives(at[p], knows[p])
    BY <1>10 DEF Archives
  <1> QED BY <1>2, <1>7, <1>8, <1>9, <1>11, <1>12, <1>13 DEF GateIInv

LEMMA GateNext ==
    ASSUME GateIInv, [Gate!Next]_<<Gate!vars, gate>>
    PROVE  GateIInv'
  <1>1. CASE Gate!Next
    <2>1. gate' = gate /\ (gate.Serial => Gate!OneAtATime')
      BY <1>1 DEF Gate!Next
    <2>2. PICK p \in Gate!Procs : Gate!Begin(p) \/ Gate!Step(p) \/ Gate!Crash(p)
      BY <1>1 DEF Gate!Next
    <2>3. CASE Gate!Begin(p)
      BY <2>1, <2>3, GateBegins
    <2>4. CASE Gate!Crash(p)
      BY <2>1, <2>4, GateLooks
    <2>5. CASE Gate!Step(p)
      <3>1. CASE Gate!ReadJson(p) \/ Gate!ReadMd(p) \/ Gate!StageLooks(p) \/ Gate!StageFindsPair(p) \/ Gate!FindOrphan(p)
        BY <2>1, <3>1, GateLooks
      <3>2. CASE Gate!DropJson(p) \/ Gate!UnlinkOrphan(p)
        BY <2>1, <3>2, GateDrops
      <3>3. CASE Gate!StageMd(p) \/ Gate!StageJson(p)
        BY <2>1, <3>3, GateStages
      <3>4. CASE Gate!NumberVersion(p) \/ Gate!WriteLive(p)
        BY <2>1, <3>4, GateWrites
      <3>5. CASE Gate!SaveVersion(p)
        BY <2>1, <3>5, GateSaves
      <3>6. CASE Gate!_prune(p)
        BY <2>1, <3>6, GatePrunes
      <3>8. CASE Gate!UnlinkOldest(p)
        BY <2>1, <3>8, GateUnlinks
      <3>7. CASE Gate!ClearMd(p) \/ Gate!ClearJson(p)
        BY <2>1, <3>7, GateClears
      <3> QED BY <2>5, <3>1, <3>2, <3>3, <3>4, <3>5, <3>6, <3>7, <3>8 DEF Gate!Step
    <2> QED BY <2>2, <2>3, <2>4, <2>5
  <1>2. CASE UNCHANGED <<Gate!vars, gate>>
    <2>1. /\ live' = live /\ versions' = versions /\ md' = md /\ json' = json /\ synced' = synced /\ at' = at /\ knows' = knows
          /\ fate' = fate /\ made' = made /\ deaths' = deaths /\ gate' = gate
      BY <1>2 DEF Gate!vars, Gate!files
    <2>2. /\ Gate!Runs' = Gate!Runs /\ Gate!Procs' = Gate!Procs /\ Gate!Updates' = Gate!Updates /\ Held' = Held /\ Gate!MaxVersions' = Gate!MaxVersions
          /\ Gate!MaxUpdates' = Gate!MaxUpdates /\ Gate!MaxCrashes' = Gate!MaxCrashes /\ Numbers' = Numbers /\ Locs' = Locs /\ Synced' = Synced
      BY <2>1, GateStays
    <2>3. Gate!Archived' = Gate!Archived /\ Pruning' = Pruning
      BY <2>1, <2>2 DEF Gate!Archived, Pruning
    <2>4. GateType'
      BY <2>1, <2>2, <2>3 DEF GateIInv, GateType, ArchiveType, GatePlaces, Staging, Archiving, Clearing, Fates
    <2>5. Bounded' /\ Gate!PairIsOne' /\ Gate!HeldIsThere' /\ Gate!LessonsAreOfTheLive'
      BY <2>1, <2>2, <2>3 DEF GateIInv, Bounded, Gate!PairIsOne, Gate!HeldIsThere, Gate!LessonsAreOfTheLive
    <2>6. ASSUME NEW p \in Gate!Procs PROVE Knows(p, at[p], knows[p])' /\ Relies(at[p], knows[p])'
      <3>1. Knows(p, at[p], knows[p]) /\ Relies(at[p], knows[p])
        BY DEF GateIInv
      <3> QED BY <2>1, <2>2, <2>3, <3>1 DEF Knows, Relies, Staging, Archiving, Clearing
    <2>7. ASSUME gate.Serial PROVE Gate!OneAtATime' /\ \A p \in Gate!Procs : Sees(at[p], knows[p])'
      BY <2>1, <2>2, <2>3, <2>7 DEF GateIInv, Gate!OneAtATime, Sees, Pending, Archiving, Clearing
    <2>8. ASSUME gate.Serial, Gate!MaxCrashes = 0 PROVE Contiguous' /\ \A p \in Gate!Procs : Archives(at[p], knows[p])'
      BY <2>1, <2>2, <2>3, <2>8 DEF GateIInv, Contiguous, Archives, LastIs
    <2> QED BY <2>1, <2>2, <2>4, <2>5, <2>6, <2>7, <2>8 DEF GateIInv
  <1> QED BY <1>1, <1>2

LEMMA GateImplied ==
    ASSUME GateIInv
    PROVE  Gate!GateInv
  <1>1. /\ GateType /\ Bounded /\ Gate!PairIsOne /\ Gate!HeldIsThere /\ Gate!LessonsAreOfTheLive
    BY DEF GateIInv
  <1>2. {live, md, json} \subseteq Gate!Updates \cup {None} /\ Gate!Archived \subseteq Nat \ {0} /\ {versions[n] : n \in Gate!Archived} \subseteq Gate!Updates
    BY <1>1 DEF GateType, ArchiveType, Held, Numbers
  <1>3. Gate!FewAreKept
    <2> SUFFICES ASSUME gate.Serial
                 PROVE  Gate!Cardinality(Gate!Archived) <=
                          Gate!MaxVersions + Gate!Cardinality({p \in Gate!Procs : at[p] \in {"prune", "oldest"}}) + deaths
      BY DEF Gate!FewAreKept
    <2> QED BY <1>1, GateCounts DEF Bounded, Pruning
  <1>4. \A p \in Gate!Procs : at[p] \in {"off", "read", "read_md", "staging", "torn", "drop", "orphan", "unlink", "write", "commit",
                                    "archive", "save", "prune", "oldest", "live", "clear", "clear_json"}
    BY <1>1 DEF GateType, GatePlaces, Staging, Archiving, Clearing
  <1>5. /\ synced \subseteq [live : Gate!Updates, lessons : Gate!Updates]
        /\ \A u \in Gate!Updates : fate[u] \in {None, "pending", "approved", "rejected", "superseded"}
    BY <1>1 DEF GateType, Synced, Fates
  <1>6. Gate!TypeOK
    BY <1>2, <1>4, <1>5 DEF Gate!TypeOK
  <1> QED BY <1>1, <1>3, <1>6 DEF Gate!GateInv

\* What a reader of the pending pair sees is one update; while operations come one after the other, it is there until it is
\* decided, the lessons in the skill note are those of the update that went live, and only who is pruning, or died, leaves a
\* version too many.
THEOREM GateSafe == Gate!Spec => []GateInv
  <1>1. Gate!Spec => []GateIInv
    BY GateStart, GateNext, PTL DEF Gate!Spec
  <1>2. GateIInv => GateInv
    BY GateImplied DEF GateInv
  <1> QED BY <1>1, <1>2, PTL

\* While operations come one after the other, an update counts as approved only when it is live, and what a write replaces
\* is the newest archived version, as long as nobody dies.  However many prune at once, a version that goes leaves a newer one.
THEOREM ApprovedGoesLive == Gate!Spec => DecisionsGoLive
  <1> DEFINE Approves == gate.Serial => \A u \in Gate!Updates : fate[u] = "pending" /\ fate'[u] = "approved" => live = u
             Replaces == gate.Serial /\ Gate!MaxCrashes = 0 /\ live' # live /\ live # None =>
                           Gate!Archived # {} /\ versions[Gate!Newest] = live
             Stays == \A n \in Gate!Archived \ Gate!Archived' : \E m \in Gate!Archived' : n < m
  <1>1. Gate!Spec => []GateIInv
    BY GateStart, GateNext, PTL DEF Gate!Spec
  <1>2. ASSUME GateIInv, [Gate!Next]_<<Gate!vars, gate>> PROVE Approves \/ UNCHANGED Gate!vars
    <2>1. SUFFICES ASSUME Gate!Next, gate.Serial, NEW u \in Gate!Updates, fate[u] = "pending", fate'[u] = "approved" PROVE live = u
      BY <1>2
    <2>2. PICK p \in Gate!Procs : Gate!Begin(p) \/ Gate!Step(p) \/ Gate!Crash(p)
      BY <2>1 DEF Gate!Next
    <2>3. fate' # fate /\ fate \in [Gate!Updates -> Fates]
      BY <1>2, <2>1 DEF GateIInv, GateType
    <2>4. Gate!StageJson(p) \/ Gate!ClearMd(p)
      BY <2>2, <2>3 DEF Gate!Begin, Gate!Step, Gate!Crash, Gate!write_or_stage_playbook, Gate!Decide, Gate!ReadJson, Gate!ReadMd, Gate!StageLooks, Gate!StageFindsPair,
                        Gate!DropJson, Gate!FindOrphan, Gate!UnlinkOrphan, Gate!StageMd, Gate!NumberVersion, Gate!SaveVersion, Gate!_prune, Gate!UnlinkOldest,
                        Gate!WriteLive, Gate!ClearJson
    <2>5. CASE Gate!StageJson(p)
      <3>1. fate' = [fate EXCEPT ![knows[p].update] = "pending"]
        BY <2>5 DEF Gate!StageJson
      <3> QED BY <2>1, <2>3, <3>1
    <2>6. CASE Gate!ClearMd(p)
      <3>1. /\ at[p] = "clear"
            /\ fate' = [v \in Gate!Updates |-> IF v = knows[p].got /\ fate[v] = "pending" THEN Gate!Verdict[knows[p].op] ELSE fate[v]]
        BY <2>6 DEF Gate!ClearMd
      <3>2. Knows(p, at[p], knows[p]) /\ Sees(at[p], knows[p]) /\ knows[p] \in Locs
        BY <1>2, <2>1, <3>1, GateAt
      <3>3. u = knows[p].got /\ Gate!Verdict[knows[p].op] = "approved"
        BY <2>1, <3>1
      <3>4. knows[p].op \in {"auto", "approve", "reject"}
        BY <3>1, <3>2 DEF Knows, Clearing, Locs
      <3>5. knows[p].op = "approve"
        BY <3>3, <3>4 DEF Gate!Verdict
      <3> QED BY <3>1, <3>2, <3>3, <3>5 DEF Sees
    <2> QED BY <2>4, <2>5, <2>6
  <1>3. ASSUME GateIInv, [Gate!Next]_<<Gate!vars, gate>> PROVE Replaces \/ UNCHANGED Gate!vars
    <2>1. SUFFICES ASSUME Gate!Next, gate.Serial, Gate!MaxCrashes = 0, live' # live, live # None
                   PROVE  Gate!Archived # {} /\ versions[Gate!Newest] = live
      BY <1>3
    <2>2. PICK p \in Gate!Procs : Gate!Begin(p) \/ Gate!Step(p) \/ Gate!Crash(p)
      BY <2>1 DEF Gate!Next
    <2>3. Gate!WriteLive(p)
      BY <2>1, <2>2 DEF Gate!Begin, Gate!Step, Gate!Crash, Gate!files, Gate!write_or_stage_playbook, Gate!Decide, Gate!ReadJson, Gate!ReadMd, Gate!StageLooks,
                        Gate!StageFindsPair, Gate!DropJson, Gate!FindOrphan, Gate!UnlinkOrphan, Gate!StageMd, Gate!StageJson, Gate!NumberVersion, Gate!SaveVersion,
                        Gate!_prune, Gate!UnlinkOldest, Gate!ClearMd, Gate!ClearJson
    <2>4. at[p] = "live"
      BY <2>3 DEF Gate!WriteLive
    <2>5. Archives(at[p], knows[p])
      BY <1>3, <2>1, <2>4, GateAt
    <2>6. PICK k \in Numbers : LastIs(k)
      BY <2>1, <2>4, <2>5 DEF Archives
    <2>7. k \in Gate!Archived /\ \A m \in Gate!Archived : m <= k
      BY <2>6 DEF LastIs
    <2>8. Gate!Archived \subseteq Nat
      BY <1>3, ArchiveIsFinite DEF GateIInv
    <2>9. \A n \in Gate!Archived : (\A m \in Gate!Archived : m <= n) => n = k
      BY <2>7, <2>8
    <2>10. Gate!Newest = k
      BY <2>7, <2>9 DEF Gate!Newest
    <2> QED BY <2>6, <2>7, <2>10 DEF LastIs
  <1>4. Gate!Spec => [][Approves]_(Gate!vars)
    BY <1>1, <1>2, PTL DEF Gate!Spec
  <1>5. Gate!Spec => [][Replaces]_(Gate!vars)
    BY <1>1, <1>3, PTL DEF Gate!Spec
  <1>6. ASSUME GateIInv, [Gate!Next]_<<Gate!vars, gate>> PROVE Stays \/ UNCHANGED Gate!vars
    <2>1. SUFFICES ASSUME Gate!Next PROVE Stays
      BY <1>6
    <2>2. PICK p \in Gate!Procs : Gate!Begin(p) \/ Gate!Step(p) \/ Gate!Crash(p)
      BY <2>1 DEF Gate!Next
    <2>3. CASE Gate!UnlinkOldest(p)
      BY <1>6, <2>3, UnlinkLeaves
    <2>4. CASE Gate!SaveVersion(p)
      <3>1. Gate!Archived' = Gate!Archived \cup {knows[p].n}
        BY <2>4 DEF Gate!SaveVersion, Gate!Archived
      <3> QED BY <3>1
    <2>5. CASE ~Gate!UnlinkOldest(p) /\ ~Gate!SaveVersion(p)
      <3>1. versions' = versions
        BY <2>2, <2>5 DEF Gate!Begin, Gate!Step, Gate!Crash, Gate!files, Gate!write_or_stage_playbook, Gate!Decide, Gate!ReadJson, Gate!ReadMd, Gate!StageLooks,
                          Gate!StageFindsPair, Gate!DropJson, Gate!FindOrphan, Gate!UnlinkOrphan, Gate!StageMd, Gate!StageJson, Gate!NumberVersion,
                          Gate!_prune, Gate!WriteLive, Gate!ClearMd, Gate!ClearJson
      <3>2. Gate!Archived' = Gate!Archived
        BY <3>1 DEF Gate!Archived
      <3> QED BY <3>2
    <2> QED BY <2>3, <2>4, <2>5
  <1>7. Gate!Spec => [][Stays]_(Gate!vars)
    BY <1>1, <1>6, PTL DEF Gate!Spec
  <1> QED BY <1>4, <1>5, <1>7 DEF DecisionsGoLive, Gate!DecisionsGoLive, Gate!ApprovedIsLive, Gate!ReplacedIsArchived, Gate!NewestStays

-----------------------------------------------------------------------------
(* Evaluator epochs.                                                       *)

EpochPlaces == {"idle", "load", "decide", "promote", "activate", "clear", "stamp", "crashed"}
Scores == [epoch : Registry!Epochs, mark : BOOLEAN]

EpochType == trust \in EpochScopes /\ Registry!TypeOK /\ losses \in Nat

\* One epoch is active, and between two writes of a promotion none but its target.
OnlyOne == \A e, f \in Registry!Actives : e = f
SomeActive == lock = None /\ Registry!Known # {} /\ losses = 0 => Registry!Actives # {}
LockIsHeld ==
    \A p \in Registry!Promoters : /\ where[p] = "activate" <=> lock = p
                                  /\ where[p] = "activate" => Registry!Actives \subseteq {call[p].epoch}

\* Who may activate the epoch of a call.
HasAuthority(c) ==
    \/ c.decision = "approved"
    \/ ~Registry!RequiresApproval /\ c.report = [epoch |-> c.epoch, passes |-> TRUE]

\* What is active, about to be cleared or free of a mark was reviewed, unless a promoter died.
OnlyReviewed ==
    losses = 0 =>
        /\ Registry!Actives \subseteq reviewed
        /\ \A p \in Registry!Promoters : where[p] = "clear" => call[p].epoch \in reviewed
        /\ \A r \in Registry!Runs : seen[r] # None /\ ~seen[r].mark => seen[r].epoch \in reviewed
        /\ \A r \in Registry!Runs : scores[r] # None /\ ~scores[r].mark => scores[r].epoch \in reviewed

InCall(p) == where[p] # "idle" => call[p] \in Registry!Calls /\ call[p].outcome = None
Authorised(p) == where[p] \in {"promote", "activate"} => HasAuthority(call[p])
PriorOK(p) ==
    call[p] \in Registry!Calls =>
        \A r \in call[p].prior : /\ scores[r] # None /\ scores[r].epoch = call[p].epoch
                                 /\ call[p].outcome = "activated" => ~scores[r].mark

PromoterOK(p) == InCall(p) /\ Authorised(p) /\ PriorOK(p)

EpochIInv ==
    /\ EpochType /\ OnlyOne /\ SomeActive /\ LockIsHeld /\ OnlyReviewed
    /\ \A p \in Registry!Promoters : PromoterOK(p)

LEMMA EpochCounts ==
    ASSUME NEW S
    PROVE  Registry!Cardinality(S) = Cardinality(S)
  BY DEF Registry!Cardinality, Cardinality

\* Everything a behaviour is about stays.
LEMMA EpochStays ==
    ASSUME trust' = trust
    PROVE  /\ Registry!Epochs' = Registry!Epochs /\ Registry!Runs' = Registry!Runs /\ Registry!Promoters' = Registry!Promoters /\ Registry!Decisions' = Registry!Decisions
           /\ Registry!RequiresApproval' = Registry!RequiresApproval /\ Registry!Reports' = Registry!Reports /\ Registry!Calls' = Registry!Calls
  BY DEF Registry!Epochs, Registry!Runs, Registry!Promoters, Registry!Decisions, Registry!RequiresApproval, Registry!Reports, Registry!Calls

\* What a call is after its outcome, and after it is made again.
Outcomes == {None, "activated", "pending_review", "rejected", "blocked", "noop"}

LEMMA CallReturns ==
    ASSUME NEW c \in Registry!Calls, NEW o \in Outcomes, NEW x, x = [c EXCEPT !.outcome = o]
    PROVE  x \in Registry!Calls /\ x.outcome = o /\ x.epoch = c.epoch /\ x.prior = c.prior
  BY DEF Registry!Calls, Outcomes

LEMMA CallRenewed ==
    ASSUME NEW c \in Registry!Calls, NEW s \in SUBSET Registry!Runs, NEW x, x = [c EXCEPT !.prior = s]
    PROVE  x \in Registry!Calls /\ x.outcome = c.outcome /\ x.epoch = c.epoch /\ x.prior = s
  BY DEF Registry!Calls

LEMMA EpochTypes ==
    ASSUME EpochIInv
    PROVE  /\ trust \in EpochScopes /\ losses \in Nat
           /\ records \in [Registry!Epochs -> {None, "candidate", "active", "disabled"}]
           /\ decided \in [Registry!Epochs -> Registry!Decisions \cup {None}]
           /\ lock \in Registry!Promoters \cup {None} /\ None \notin Registry!Promoters
           /\ where \in [Registry!Promoters -> EpochPlaces] /\ call \in [Registry!Promoters -> Registry!Calls \cup {None}]
           /\ seen \in [Registry!Runs -> {None} \cup Scores] /\ scores \in [Registry!Runs -> {None} \cup Scores]
           /\ reviewed \subseteq Registry!Epochs
           /\ None \notin {"candidate", "active", "disabled", "activated"} /\ Registry!RequiresApproval \in BOOLEAN
  BY EpochAssumption DEF EpochIInv, EpochType, Registry!TypeOK, EpochPlaces, Scores, Registry!Promoters, Registry!RequiresApproval

LEMMA EpochTyped ==
    ASSUME trust' = trust, trust \in EpochScopes, losses' \in Nat,
           records' \in [Registry!Epochs -> {None, "candidate", "active", "disabled"}],
           decided' \in [Registry!Epochs -> Registry!Decisions \cup {None}],
           lock' \in Registry!Promoters \cup {None},
           where' \in [Registry!Promoters -> EpochPlaces], call' \in [Registry!Promoters -> Registry!Calls \cup {None}],
           seen' \in [Registry!Runs -> {None} \cup Scores], scores' \in [Registry!Runs -> {None} \cup Scores],
           reviewed' \subseteq Registry!Epochs
    PROVE  EpochType'
  BY EpochStays DEF EpochType, Registry!TypeOK, EpochPlaces, Scores

\* A promoter goes on, and no record is touched.
LEMMA EpochFrame ==
    ASSUME EpochIInv, trust' = trust, NEW p \in Registry!Promoters, NEW l \in EpochPlaces, NEW c \in Registry!Calls,
           where' = [where EXCEPT ![p] = l], call' = [call EXCEPT ![p] = c],
           UNCHANGED <<records, lock, seen, scores, reviewed, losses>>, decided' \in [Registry!Epochs -> Registry!Decisions \cup {None}],
           where[p] # "activate", l # "activate",
           l # "idle" => c.outcome = None,
           l = "promote" => HasAuthority(c),
           l = "clear" /\ losses = 0 => c.epoch \in reviewed,
           \A r \in c.prior : /\ scores[r] # None /\ scores[r].epoch = c.epoch
                              /\ c.outcome = "activated" => ~scores[r].mark
    PROVE  EpochIInv'
  <1>0. /\ Registry!Epochs' = Registry!Epochs /\ Registry!Runs' = Registry!Runs /\ Registry!Promoters' = Registry!Promoters /\ Registry!Decisions' = Registry!Decisions
        /\ Registry!RequiresApproval' = Registry!RequiresApproval /\ Registry!Calls' = Registry!Calls
    BY EpochStays
  <1>1. where \in [Registry!Promoters -> EpochPlaces] /\ call \in [Registry!Promoters -> Registry!Calls \cup {None}]
    BY EpochTypes
  <1>2. EpochType'
    <2>1. where' \in [Registry!Promoters -> EpochPlaces] /\ call' \in [Registry!Promoters -> Registry!Calls \cup {None}]
      BY <1>1
    <2> QED BY <2>1, EpochTypes, EpochTyped
  <1>3. Registry!Actives' = Registry!Actives /\ Registry!Known' = Registry!Known
    BY <1>0 DEF Registry!Actives, Registry!Known
  <1>4. OnlyOne' /\ SomeActive'
    BY <1>3 DEF EpochIInv, OnlyOne, SomeActive
  <1>5. where'[p] = l /\ call'[p] = c /\ \A q \in Registry!Promoters \ {p} : where'[q] = where[q] /\ call'[q] = call[q]
    BY <1>1
  <1>6. LockIsHeld'
    BY <1>0, <1>3, <1>5 DEF EpochIInv, LockIsHeld
  <1>7. OnlyReviewed'
    <2> SUFFICES ASSUME losses = 0 PROVE OnlyReviewed'
      BY DEF OnlyReviewed
    <2>1. \A q \in Registry!Promoters : where'[q] = "clear" => call'[q].epoch \in reviewed
      BY <1>5 DEF EpochIInv, OnlyReviewed
    <2> QED BY <1>0, <1>3, <2>1 DEF EpochIInv, OnlyReviewed
  <1>8. ASSUME NEW q \in Registry!Promoters PROVE PromoterOK(q)'
    <2>1. CASE q = p
      <3>1. InCall(q)'
        BY <1>0, <1>5, <2>1 DEF InCall
      <3>2. Authorised(q)'
        BY <1>0, <1>5, <2>1 DEF Authorised, HasAuthority
      <3>3. PriorOK(q)'
        BY <1>0, <1>5, <2>1 DEF PriorOK
      <3> QED BY <3>1, <3>2, <3>3 DEF PromoterOK
    <2>2. CASE q # p
      <3>1. PromoterOK(q) /\ where'[q] = where[q] /\ call'[q] = call[q]
        BY <1>5, <2>2 DEF EpochIInv
      <3>4. InCall(q)'
        BY <1>0, <3>1 DEF PromoterOK, InCall
      <3>2. Authorised(q)'
        BY <1>0, <3>1 DEF PromoterOK, Authorised, HasAuthority
      <3>3. PriorOK(q)'
        BY <1>0, <3>1 DEF PromoterOK, PriorOK
      <3> QED BY <3>2, <3>3, <3>4 DEF PromoterOK
    <2> QED BY <2>1, <2>2
  <1> QED BY <1>0, <1>2, <1>4, <1>6, <1>7, <1>8 DEF EpochIInv

\* A call is made, loads its epoch, is decided, is stamped, or is made again after its promoter died.
LEMMA EpochCallSteps ==
    ASSUME EpochIInv, trust' = trust, NEW p \in Registry!Promoters,
           \/ \E e \in Registry!Epochs, d \in Registry!Decisions : \E c \in Registry!ReportsFor(d) : Registry!Call(p, e, d, c)
           \/ Registry!Load(p) \/ Registry!DecideCall(p) \/ Registry!Stamp(p) \/ Registry!CallAgain(p)
    PROVE  EpochIInv'
  <1>1. /\ where \in [Registry!Promoters -> EpochPlaces] /\ call \in [Registry!Promoters -> Registry!Calls \cup {None}]
        /\ decided \in [Registry!Epochs -> Registry!Decisions \cup {None}] /\ None # "activated"
        /\ records \in [Registry!Epochs -> {None, "candidate", "active", "disabled"}] /\ Registry!RequiresApproval \in BOOLEAN
    BY EpochTypes
  <1>2. \A e \in Registry!Epochs : Registry!ScoredUnder(e) \subseteq Registry!Runs /\ \A r \in Registry!ScoredUnder(e) : scores[r] # None /\ scores[r].epoch = e
    BY DEF Registry!ScoredUnder
  <1>3. CASE \E e \in Registry!Epochs, d \in Registry!Decisions : \E c \in Registry!ReportsFor(d) : Registry!Call(p, e, d, c)
    <2>0. PICK e \in Registry!Epochs, d \in Registry!Decisions : \E c \in Registry!ReportsFor(d) : Registry!Call(p, e, d, c)
      BY <1>3
    <2>1. PICK c \in Registry!ReportsFor(d) : Registry!Call(p, e, d, c)
      BY <2>0
    <2>2. c \in Registry!Reports
      BY DEF Registry!ReportsFor, Registry!Reports
    <2>3. PICK k : k = [epoch |-> e, decision |-> d, report |-> c, prior |-> Registry!ScoredUnder(e), outcome |-> None]
      OBVIOUS
    <2>4. k \in Registry!Calls /\ k.outcome = None /\ k.prior = Registry!ScoredUnder(e) /\ k.epoch = e
      BY <1>2, <2>2, <2>3 DEF Registry!Calls
    <2>5. where' = [where EXCEPT ![p] = "load"] /\ call' = [call EXCEPT ![p] = k] /\ where[p] = "idle"
      BY <2>1, <2>3 DEF Registry!Call, Registry!Goto
    <2>6. UNCHANGED <<records, decided, lock, seen, scores, reviewed, losses>>
      BY <2>1 DEF Registry!Call, Registry!registry
    <2>7. \A r \in k.prior : scores[r] # None /\ scores[r].epoch = k.epoch /\ (k.outcome = "activated" => ~scores[r].mark)
      BY <1>1, <1>2, <2>4
    <2>8. PICK l \in EpochPlaces : l = "load"
      BY DEF EpochPlaces
    <2>9. where' = [where EXCEPT ![p] = l] /\ where[p] # "activate" /\ l \notin {"activate", "promote", "clear"}
      BY <2>5, <2>8
    <2> QED BY <1>1, <2>4, <2>5, <2>6, <2>7, <2>9, EpochFrame
  <1>4. ASSUME where[p] # "idle"
        PROVE  /\ call[p] \in Registry!Calls /\ call[p].outcome = None
               /\ \A r \in call[p].prior : scores[r] # None /\ scores[r].epoch = call[p].epoch
    <2>1. PromoterOK(p)
      BY DEF EpochIInv
    <2>2. call[p] \in Registry!Calls /\ call[p].outcome = None
      BY <1>4, <2>1 DEF PromoterOK, InCall
    <2> QED BY <2>1, <2>2 DEF PromoterOK, PriorOK
  <1>5. ASSUME NEW o \in {None, "pending_review", "rejected", "blocked", "noop"}, Registry!Return(p, o), where[p] \notin {"idle", "activate"},
               UNCHANGED <<records, lock, seen, scores, reviewed, losses>>, decided' \in [Registry!Epochs -> Registry!Decisions \cup {None}]
        PROVE  EpochIInv'
    <2>0. PICK a \in Registry!Calls : a = call[p]
      BY <1>4, <1>5
    <2>1. PICK c : c = [a EXCEPT !.outcome = o]
      OBVIOUS
    <2>2. c \in Registry!Calls /\ c.outcome = o /\ c.prior = call[p].prior /\ c.epoch = call[p].epoch
      BY <2>0, <2>1, CallReturns DEF Outcomes
    <2>3. call' = [call EXCEPT ![p] = c] /\ where' = [where EXCEPT ![p] = "idle"]
      BY <1>5, <2>0, <2>1 DEF Registry!Return, Registry!Goto
    <2>4. PICK l \in EpochPlaces : l = "idle" /\ o # "activated"
      BY <1>1 DEF EpochPlaces
    <2>5. where' = [where EXCEPT ![p] = l] /\ l \notin {"activate", "promote", "clear"}
      BY <2>3, <2>4
    <2>6. \A r \in c.prior : scores[r] # None /\ scores[r].epoch = c.epoch /\ (c.outcome = "activated" => ~scores[r].mark)
      BY <1>4, <1>5, <2>2, <2>4
    <2> QED BY <1>5, <2>2, <2>3, <2>4, <2>5, <2>6, EpochFrame
  <1>6. ASSUME NEW l \in EpochPlaces \ {"activate"}, Registry!Goto(p, l), where[p] \notin {"idle", "activate"},
               UNCHANGED <<call, records, decided, lock, seen, scores, reviewed, losses>>,
               l = "promote" => HasAuthority(call[p]),
               l = "clear" /\ losses = 0 => call[p].epoch \in reviewed
        PROVE  EpochIInv'
    <2>1. PICK c \in Registry!Calls : c = call[p]
      BY <1>4, <1>6
    <2>2. call' = [call EXCEPT ![p] = c] /\ where' = [where EXCEPT ![p] = l]
      BY <1>1, <1>6, <2>1 DEF Registry!Goto
    <2>3. c.outcome = None /\ c.outcome # "activated" /\ \A r \in c.prior : scores[r] # None /\ scores[r].epoch = c.epoch
      BY <1>1, <1>4, <1>6, <2>1
    <2>4. /\ l = "promote" => HasAuthority(c)
          /\ l = "clear" /\ losses = 0 => c.epoch \in reviewed
          /\ \A r \in c.prior : scores[r] # None /\ scores[r].epoch = c.epoch /\ (c.outcome = "activated" => ~scores[r].mark)
      BY <1>6, <2>1, <2>3
    <2>5. decided' \in [Registry!Epochs -> Registry!Decisions \cup {None}]
      BY <1>1, <1>6
    <2> QED BY <1>6, <2>1, <2>2, <2>3, <2>4, <2>5, EpochFrame
  <1>7. CASE Registry!Load(p)
    <2>1. where[p] = "load" /\ UNCHANGED <<records, decided, lock, seen, scores, reviewed, losses>>
      BY <1>7 DEF Registry!Load, Registry!registry
    <2>2. call[p].epoch \in Registry!Epochs
      BY <1>4, <2>1 DEF Registry!Calls
    <2>3. CASE records[call[p].epoch] = None
      <3>1. Registry!Return(p, "noop")
        BY <1>7, <2>3 DEF Registry!Load
      <3> QED BY <1>1, <1>5, <2>1, <3>1
    <2>4. CASE records[call[p].epoch] # None /\ records[call[p].epoch] = "active"
      <3>1. Registry!Goto(p, "clear") /\ UNCHANGED call
        BY <1>7, <2>4 DEF Registry!Load
      <3>2. losses = 0 => call[p].epoch \in reviewed
        BY <2>2, <2>4 DEF EpochIInv, OnlyReviewed, Registry!Actives
      <3> QED BY <1>6, <2>1, <3>1, <3>2 DEF EpochPlaces
    <2>5. CASE records[call[p].epoch] # None /\ records[call[p].epoch] # "active"
      <3>1. Registry!Goto(p, "decide") /\ UNCHANGED call
        BY <1>7, <2>5 DEF Registry!Load
      <3> QED BY <1>6, <2>1, <3>1 DEF EpochPlaces
    <2> QED BY <2>3, <2>4, <2>5
  <1>8. CASE Registry!DecideCall(p)
    <2>1. where[p] = "decide" /\ UNCHANGED <<records, decided, lock, seen, scores, reviewed, losses>>
      BY <1>8 DEF Registry!DecideCall, Registry!registry
    <2>2. CASE call[p].decision = "approved"
      <3>1. Registry!Goto(p, "promote") /\ UNCHANGED call
        BY <1>8, <2>2 DEF Registry!DecideCall
      <3> QED BY <1>6, <2>1, <2>2, <3>1 DEF EpochPlaces, HasAuthority
    <2>3. CASE call[p].decision # "approved" /\ (call[p].decision = "rejected" \/ Registry!RequiresApproval)
      <3>1. Registry!Goto(p, "stamp") /\ UNCHANGED call
        BY <1>8, <2>3 DEF Registry!DecideCall
      <3> QED BY <1>6, <2>1, <3>1 DEF EpochPlaces
    <2>4. CASE /\ call[p].decision # "approved" /\ ~(call[p].decision = "rejected" \/ Registry!RequiresApproval)
               /\ Registry!calibration_passes(call[p])
      <3>1. Registry!Goto(p, "promote") /\ UNCHANGED call
        BY <1>8, <2>4 DEF Registry!DecideCall
      <3>2. call[p].report \in [epoch : Registry!Epochs, passes : BOOLEAN]
        BY <1>4, <2>1, <2>4 DEF Registry!Calls, Registry!Reports, Registry!calibration_passes
      <3>3. call[p].report = [epoch |-> call[p].epoch, passes |-> TRUE]
        BY <2>4, <3>2 DEF Registry!calibration_passes
      <3>4. HasAuthority(call[p])
        BY <2>4, <3>3 DEF HasAuthority
      <3> QED BY <1>6, <2>1, <3>1, <3>4 DEF EpochPlaces
    <2>5. CASE /\ call[p].decision # "approved" /\ ~(call[p].decision = "rejected" \/ Registry!RequiresApproval)
               /\ ~Registry!calibration_passes(call[p])
      <3>1. Registry!Return(p, "blocked")
        BY <1>8, <2>5 DEF Registry!DecideCall
      <3> QED BY <1>1, <1>5, <2>1, <3>1
    <2> QED BY <2>2, <2>3, <2>4, <2>5
  <1>9. CASE Registry!Stamp(p)
    <2>1. where[p] = "stamp" /\ UNCHANGED <<records, lock, seen, scores, reviewed, losses>>
      BY <1>9 DEF Registry!Stamp
    <2>2. decided' = [decided EXCEPT ![call[p].epoch] = call[p].decision]
      BY <1>9 DEF Registry!Stamp
    <2>3. call[p].epoch \in Registry!Epochs /\ call[p].decision \in Registry!Decisions
      BY <1>4, <2>1 DEF Registry!Calls
    <2>4. decided' \in [Registry!Epochs -> Registry!Decisions \cup {None}]
      BY <1>1, <2>2, <2>3
    <2>5. \E o \in {"rejected", "pending_review"} : Registry!Return(p, o)
      BY <1>9 DEF Registry!Stamp
    <2> QED BY <1>5, <2>1, <2>4, <2>5
  <1>10. CASE Registry!CallAgain(p)
    <2>1. where[p] = "crashed" /\ UNCHANGED <<records, decided, lock, seen, scores, reviewed, losses>>
      BY <1>10 DEF Registry!CallAgain, Registry!registry
    <2>2. call[p].epoch \in Registry!Epochs
      BY <1>4, <2>1 DEF Registry!Calls
    <2>3. PICK s \in SUBSET Registry!Runs : s = Registry!ScoredUnder(call[p].epoch)
      BY <1>2, <2>2
    <2>7. PICK a \in Registry!Calls : a = call[p] /\ a.outcome = None
      BY <1>4, <2>1
    <2>4. PICK c : c = [a EXCEPT !.prior = s]
      OBVIOUS
    <2>5. c \in Registry!Calls /\ c.outcome = a.outcome /\ c.prior = s /\ c.epoch = a.epoch
      BY <2>4, CallRenewed
    <2>6. call' = [call EXCEPT ![p] = c] /\ where' = [where EXCEPT ![p] = "load"]
      BY <1>10, <2>3, <2>4, <2>7 DEF Registry!CallAgain, Registry!Goto
    <2>8. \A r \in c.prior : scores[r] # None /\ scores[r].epoch = c.epoch /\ (c.outcome = "activated" => ~scores[r].mark)
      BY <1>1, <1>2, <2>2, <2>3, <2>5, <2>7
    <2>9. PICK l \in EpochPlaces : l = "load"
      BY DEF EpochPlaces
    <2>10. where' = [where EXCEPT ![p] = l] /\ where[p] # "activate" /\ l \notin {"activate", "promote", "clear"}
      BY <2>1, <2>6, <2>9
    <2>11. c.outcome = None /\ decided' \in [Registry!Epochs -> Registry!Decisions \cup {None}]
      BY <1>1, <2>1, <2>5, <2>7
    <2>12. where[p] # "activate" /\ UNCHANGED <<records, lock, seen, scores, reviewed, losses>>
      BY <2>1
    <2> QED BY <2>5, <2>6, <2>8, <2>10, <2>11, <2>12, EpochFrame
  <1> QED BY <1>3, <1>7, <1>8, <1>9, <1>10

\* Scores are written once, and lose their mark but do not get it back.
LEMMA PromoterStays ==
    ASSUME EpochIInv, trust' = trust, NEW q \in Registry!Promoters, where'[q] = where[q], call'[q] = call[q],
           \A r \in Registry!Runs : scores[r] # None => /\ scores'[r] # None /\ scores'[r].epoch = scores[r].epoch
                                                        /\ ~scores[r].mark => ~scores'[r].mark
    PROVE  PromoterOK(q)'
  <1>0. Registry!Calls' = Registry!Calls /\ Registry!RequiresApproval' = Registry!RequiresApproval
    BY EpochStays
  <1>1. PromoterOK(q)
    BY DEF EpochIInv
  <1>2. InCall(q)'
    BY <1>0, <1>1 DEF PromoterOK, InCall
  <1>3. Authorised(q)'
    BY <1>0, <1>1 DEF PromoterOK, Authorised, HasAuthority
  <1>4. PriorOK(q)'
    <2> SUFFICES ASSUME call[q] \in Registry!Calls, NEW r \in call[q].prior
                 PROVE  /\ scores'[r] # None /\ scores'[r].epoch = call[q].epoch
                        /\ call[q].outcome = "activated" => ~scores'[r].mark
      BY <1>0 DEF PriorOK
    <2>1. r \in Registry!Runs
      BY DEF Registry!Calls
    <2>2. /\ scores[r] # None /\ scores[r].epoch = call[q].epoch
          /\ call[q].outcome = "activated" => ~scores[r].mark
      BY <1>1 DEF PromoterOK, PriorOK
    <2> QED BY <2>1, <2>2
  <1> QED BY <1>2, <1>3, <1>4 DEF PromoterOK

\* A run observes its epoch.
LEMMA ObserveStep ==
    ASSUME EpochIInv, trust' = trust, NEW r \in Registry!Runs, NEW e \in Registry!Epochs, Registry!observe_id(r, e)
    PROVE  EpochIInv'
  <1>0. Registry!Epochs' = Registry!Epochs /\ Registry!Runs' = Registry!Runs /\ Registry!Promoters' = Registry!Promoters
    BY EpochStays
  <1>1. /\ records \in [Registry!Epochs -> {None, "candidate", "active", "disabled"}]
        /\ seen \in [Registry!Runs -> {None} \cup Scores] /\ reviewed \subseteq Registry!Epochs
        /\ None \notin {"candidate", "active", "disabled"} /\ None \notin Registry!Promoters
    BY EpochTypes
  <1>2. /\ lock = None /\ UNCHANGED <<decided, lock, where, call, scores, losses>>
        /\ reviewed' = reviewed \cup (IF Registry!Known = {} THEN {e} ELSE {})
        /\ records' = [records EXCEPT ![e] = IF records[e] # None THEN records[e] ELSE IF Registry!Actives = {} THEN "active" ELSE "candidate"]
    BY DEF Registry!observe_id
  <1>3. PICK b \in BOOLEAN : /\ seen' = [seen EXCEPT ![r] = [epoch |-> e, mark |-> b]]
                             /\ ~b => records'[e] = "active"
    <2>1. seen' = [seen EXCEPT ![r] = [epoch |-> e, mark |-> records'[e] # "active"]]
      BY DEF Registry!observe_id
    <2>2. CASE records'[e] = "active"
      BY <2>1, <2>2
    <2>3. CASE records'[e] # "active"
      BY <2>1, <2>3
    <2> QED BY <2>2, <2>3
  <1>4. [epoch |-> e, mark |-> b] \in Scores
    BY DEF Scores
  <1>5. \/ Registry!Actives' = Registry!Actives /\ (Registry!Known = {} => Registry!Actives # {})
        \/ Registry!Actives = {} /\ Registry!Actives' = {e} /\ e \notin Registry!Known
        \/ Registry!Actives' = Registry!Actives /\ Registry!Known # {}
    <2>1. CASE records[e] # None
      <3>1. records' = records /\ e \in Registry!Known
        BY <1>1, <1>2, <2>1 DEF Registry!Known
      <3> QED BY <1>0, <3>1 DEF Registry!Actives
    <2>2. CASE records[e] = None /\ Registry!Actives = {}
      BY <1>0, <1>1, <1>2, <2>2 DEF Registry!Actives, Registry!Known
    <2>3. CASE records[e] = None /\ Registry!Actives # {}
      <3>1. Registry!Actives' = Registry!Actives
        BY <1>0, <1>1, <1>2, <2>3 DEF Registry!Actives
      <3> QED BY <2>3, <3>1
    <2> QED BY <2>1, <2>2, <2>3
  <1>6. SomeActive /\ OnlyOne /\ LockIsHeld /\ OnlyReviewed
    BY DEF EpochIInv
  <1>7. EpochType'
    <2>1. records' \in [Registry!Epochs -> {None, "candidate", "active", "disabled"}]
      BY <1>1, <1>2
    <2>2. seen' \in [Registry!Runs -> {None} \cup Scores] /\ reviewed' \subseteq Registry!Epochs
      BY <1>1, <1>2, <1>3, <1>4
    <2> QED BY <1>2, <2>1, <2>2, EpochTypes, EpochTyped
  <1>8. OnlyOne'
    BY <1>5, <1>6 DEF OnlyOne
  <1>9. losses = 0 => Registry!Actives' # {}
    BY <1>2, <1>5, <1>6 DEF SomeActive
  <1>10. LockIsHeld'
    BY <1>0, <1>1, <1>2, <1>6 DEF LockIsHeld
  <1>11. OnlyReviewed'
    <2> SUFFICES ASSUME losses = 0 PROVE OnlyReviewed'
      BY <1>2 DEF OnlyReviewed
    <2>1. reviewed \subseteq reviewed' /\ Registry!Actives' \subseteq reviewed'
      BY <1>2, <1>5, <1>6 DEF OnlyReviewed, SomeActive
    <2>2. ASSUME NEW x \in Registry!Runs, seen'[x] # None, ~seen'[x].mark PROVE seen'[x].epoch \in reviewed'
      <3>1. CASE x = r
        <4>1. seen'[x].epoch = e /\ seen'[x].mark = b
          BY <1>1, <1>3, <3>1
        <4>2. records'[e] = "active"
          BY <1>3, <2>2, <4>1
        <4> QED BY <1>0, <2>1, <4>1, <4>2 DEF Registry!Actives
      <3>2. CASE x # r
        <4>1. seen'[x] = seen[x]
          BY <1>1, <1>3, <3>2
        <4> QED BY <1>6, <2>1, <2>2, <4>1 DEF OnlyReviewed
      <3> QED BY <3>1, <3>2
    <2>3. \A p \in Registry!Promoters : where'[p] = "clear" => call'[p].epoch \in reviewed'
      BY <1>2, <1>6, <2>1 DEF OnlyReviewed
    <2>4. \A x \in Registry!Runs : scores'[x] # None /\ ~scores'[x].mark => scores'[x].epoch \in reviewed'
      BY <1>2, <1>6, <2>1 DEF OnlyReviewed
    <2> QED BY <1>0, <2>1, <2>2, <2>3, <2>4 DEF OnlyReviewed
  <1>12. \A q \in Registry!Promoters : PromoterOK(q)'
    BY <1>2, PromoterStays
  <1> QED BY <1>0, <1>2, <1>7, <1>8, <1>9, <1>10, <1>11, <1>12 DEF EpochIInv, SomeActive

\* The registry fails a run, whose score is marked.
LEMMA FailStep ==
    ASSUME EpochIInv, trust' = trust, NEW r \in Registry!Runs, NEW e \in Registry!Epochs, Registry!ObserveFails(r, e)
    PROVE  EpochIInv'
  <1>0. Registry!Epochs' = Registry!Epochs /\ Registry!Runs' = Registry!Runs /\ Registry!Promoters' = Registry!Promoters
    BY EpochStays
  <1>1. seen \in [Registry!Runs -> {None} \cup Scores]
    BY EpochTypes
  <1>2. /\ UNCHANGED <<records, decided, lock, where, call, scores, reviewed, losses>>
        /\ seen' = [seen EXCEPT ![r] = [epoch |-> e, mark |-> TRUE]]
    BY DEF Registry!ObserveFails, Registry!registry
  <1>3. PICK s \in Scores : s = [epoch |-> e, mark |-> TRUE] /\ s.mark
    <2>1. [epoch |-> e, mark |-> TRUE] \in Scores /\ [epoch |-> e, mark |-> TRUE].mark
      BY DEF Scores
    <2> QED BY <2>1
  <1>4. seen' = [seen EXCEPT ![r] = s]
    BY <1>2, <1>3
  <1>5. Registry!Actives' = Registry!Actives /\ Registry!Known' = Registry!Known
    BY <1>0, <1>2 DEF Registry!Actives, Registry!Known
  <1>6. EpochType'
    <2>1. seen' \in [Registry!Runs -> {None} \cup Scores]
      BY <1>1, <1>4
    <2> QED BY <1>2, <2>1, EpochTypes, EpochTyped
  <1>7. OnlyOne' /\ SomeActive' /\ LockIsHeld'
    BY <1>0, <1>2, <1>5 DEF EpochIInv, OnlyOne, SomeActive, LockIsHeld
  <1>8. OnlyReviewed'
    <2>1. \A x \in Registry!Runs : seen'[x] = IF x = r THEN s ELSE seen[x]
      BY <1>1, <1>4
    <2> QED BY <1>0, <1>2, <1>3, <1>5, <2>1 DEF EpochIInv, OnlyReviewed
  <1>9. \A q \in Registry!Promoters : PromoterOK(q)'
    BY <1>2, PromoterStays
  <1> QED BY <1>0, <1>6, <1>7, <1>8, <1>9 DEF EpochIInv

\* A score is written, with the mark its run observed.
LEMMA ScoreStep ==
    ASSUME EpochIInv, trust' = trust, NEW r \in Registry!Runs, Registry!upsert_generation(r)
    PROVE  EpochIInv'
  <1>0. Registry!Epochs' = Registry!Epochs /\ Registry!Runs' = Registry!Runs /\ Registry!Promoters' = Registry!Promoters
    BY EpochStays
  <1>1. seen \in [Registry!Runs -> {None} \cup Scores] /\ scores \in [Registry!Runs -> {None} \cup Scores]
    BY EpochTypes
  <1>2. /\ UNCHANGED <<records, decided, lock, where, call, seen, reviewed, losses>>
        /\ scores' = [scores EXCEPT ![r] = seen[r]] /\ scores[r] = None
    BY DEF Registry!upsert_generation, Registry!registry
  <1>5. Registry!Actives' = Registry!Actives /\ Registry!Known' = Registry!Known
    BY <1>0, <1>2 DEF Registry!Actives, Registry!Known
  <1>6. EpochType'
    <2>1. scores' \in [Registry!Runs -> {None} \cup Scores]
      BY <1>1, <1>2
    <2> QED BY <1>2, <2>1, EpochTypes, EpochTyped
  <1>7. OnlyOne' /\ SomeActive' /\ LockIsHeld'
    BY <1>0, <1>2, <1>5 DEF EpochIInv, OnlyOne, SomeActive, LockIsHeld
  <1>3. \A x \in Registry!Runs : scores'[x] = IF x = r THEN seen[r] ELSE scores[x]
    BY <1>1, <1>2
  <1>8. OnlyReviewed'
    BY <1>0, <1>2, <1>3, <1>5 DEF EpochIInv, OnlyReviewed
  <1>9. \A q \in Registry!Promoters : PromoterOK(q)'
    BY <1>2, <1>3, PromoterStays
  <1> QED BY <1>0, <1>6, <1>7, <1>8, <1>9 DEF EpochIInv

\* The incumbent is written ...
LEMMA DemoteStep ==
    ASSUME EpochIInv, trust' = trust, NEW p \in Registry!Promoters, Registry!Demote(p)
    PROVE  EpochIInv'
  <1>0. Registry!Epochs' = Registry!Epochs /\ Registry!Runs' = Registry!Runs /\ Registry!Promoters' = Registry!Promoters /\ Registry!RequiresApproval' = Registry!RequiresApproval /\ Registry!Calls' = Registry!Calls
    BY EpochStays
  <1>1. /\ records \in [Registry!Epochs -> {None, "candidate", "active", "disabled"}]
        /\ where \in [Registry!Promoters -> EpochPlaces] /\ None \notin {"candidate", "active", "disabled"} /\ None \notin Registry!Promoters
    BY EpochTypes
  <1>2. /\ lock = None /\ lock' = p /\ where[p] = "promote" /\ where' = [where EXCEPT ![p] = "activate"]
        /\ records' = [e \in Registry!Epochs |-> IF e \in Registry!Actives \ {call[p].epoch} THEN "disabled" ELSE records[e]]
        /\ UNCHANGED <<decided, call, seen, scores, reviewed, losses>>
    BY DEF Registry!Demote, Registry!Goto
  <1>3. Registry!Actives' \subseteq Registry!Actives /\ Registry!Actives' \subseteq {call[p].epoch}
    BY <1>0, <1>1, <1>2 DEF Registry!Actives
  <1>4. EpochType'
    <2>1. records' \in [Registry!Epochs -> {None, "candidate", "active", "disabled"}]
      BY <1>1, <1>2
    <2>2. where' \in [Registry!Promoters -> EpochPlaces]
      BY <1>1, <1>2 DEF EpochPlaces
    <2> QED BY <1>2, <2>1, <2>2, EpochTypes, EpochTyped
  <1>5. OnlyOne' /\ SomeActive'
    BY <1>1, <1>2, <1>3 DEF EpochIInv, OnlyOne, SomeActive
  <1>6. where'[p] = "activate" /\ \A q \in Registry!Promoters \ {p} : where'[q] = where[q]
    BY <1>1, <1>2
  <1>7. LockIsHeld'
    <2>1. \A q \in Registry!Promoters : where[q] # "activate"
      BY <1>1, <1>2 DEF EpochIInv, LockIsHeld
    <2> QED BY <1>0, <1>2, <1>3, <1>6, <2>1 DEF LockIsHeld
  <1>8. OnlyReviewed'
    BY <1>0, <1>2, <1>3, <1>6 DEF EpochIInv, OnlyReviewed
  <1>9. ASSUME NEW q \in Registry!Promoters PROVE PromoterOK(q)'
    <2>1. CASE q = p
      <3>1. PromoterOK(p)
        BY DEF EpochIInv
      <3>2. InCall(p)'
        BY <1>0, <1>2, <3>1 DEF PromoterOK, InCall
      <3>3. Authorised(p)'
        BY <1>0, <1>2, <3>1 DEF PromoterOK, Authorised, HasAuthority
      <3>4. PriorOK(p)'
        BY <1>0, <1>2, <3>1 DEF PromoterOK, PriorOK
      <3> QED BY <2>1, <3>2, <3>3, <3>4 DEF PromoterOK
    <2>2. CASE q # p
      BY <1>2, <1>6, <2>2, PromoterStays
    <2> QED BY <2>1, <2>2
  <1> QED BY <1>0, <1>4, <1>5, <1>7, <1>8, <1>9 DEF EpochIInv

\* ... and then the target.
LEMMA ActivateStep ==
    ASSUME EpochIInv, trust' = trust, NEW p \in Registry!Promoters, Registry!Activate(p)
    PROVE  EpochIInv'
  <1>0. Registry!Epochs' = Registry!Epochs /\ Registry!Runs' = Registry!Runs /\ Registry!Promoters' = Registry!Promoters /\ Registry!RequiresApproval' = Registry!RequiresApproval /\ Registry!Calls' = Registry!Calls
    BY EpochStays
  <1>1. /\ records \in [Registry!Epochs -> {None, "candidate", "active", "disabled"}]
        /\ decided \in [Registry!Epochs -> Registry!Decisions \cup {None}] /\ reviewed \subseteq Registry!Epochs
        /\ where \in [Registry!Promoters -> EpochPlaces] /\ None \notin {"candidate", "active", "disabled"} /\ None \notin Registry!Promoters
    BY EpochTypes
  <1>2. /\ lock' = None /\ where[p] = "activate" /\ where' = [where EXCEPT ![p] = "clear"]
        /\ records' = [records EXCEPT ![call[p].epoch] = "active"]
        /\ decided' = [decided EXCEPT ![call[p].epoch] = call[p].decision]
        /\ reviewed' = reviewed \cup
             (IF call[p].decision = "approved" \/ (~Registry!RequiresApproval /\ call[p].report = [epoch |-> call[p].epoch, passes |-> TRUE])
              THEN {call[p].epoch} ELSE {})
        /\ UNCHANGED <<call, seen, scores, losses>>
    BY DEF Registry!Activate, Registry!Goto
  <1>3. PromoterOK(p)
    BY DEF EpochIInv
  <1>4. call[p] \in Registry!Calls /\ call[p].epoch \in Registry!Epochs /\ call[p].decision \in Registry!Decisions
    <2>1. call[p] \in Registry!Calls
      BY <1>2, <1>3 DEF PromoterOK, InCall
    <2> QED BY <2>1 DEF Registry!Calls
  <1>5. reviewed' = reviewed \cup {call[p].epoch}
    <2>1. HasAuthority(call[p])
      BY <1>2, <1>3 DEF PromoterOK, Authorised
    <2> QED BY <1>2, <2>1 DEF HasAuthority
  <1>6. Registry!Actives' = {call[p].epoch}
    <2>1. Registry!Actives \subseteq {call[p].epoch}
      BY <1>2 DEF EpochIInv, LockIsHeld
    <2> QED BY <1>0, <1>1, <1>2, <1>4, <2>1 DEF Registry!Actives
  <1>7. EpochType'
    <2>1. records' \in [Registry!Epochs -> {None, "candidate", "active", "disabled"}] /\ decided' \in [Registry!Epochs -> Registry!Decisions \cup {None}]
      BY <1>1, <1>2, <1>4
    <2>2. where' \in [Registry!Promoters -> EpochPlaces] /\ reviewed' \subseteq Registry!Epochs
      BY <1>1, <1>2, <1>4, <1>5 DEF EpochPlaces
    <2> QED BY <1>2, <2>1, <2>2, EpochTypes, EpochTyped
  <1>8. OnlyOne' /\ SomeActive'
    BY <1>6 DEF OnlyOne, SomeActive
  <1>9. where'[p] = "clear" /\ \A q \in Registry!Promoters \ {p} : where'[q] = where[q]
    BY <1>1, <1>2
  <1>10. LockIsHeld'
    <2>1. lock = p /\ \A q \in Registry!Promoters \ {p} : where[q] # "activate"
      BY <1>2 DEF EpochIInv, LockIsHeld
    <2> QED BY <1>0, <1>1, <1>2, <1>9, <2>1 DEF LockIsHeld
  <1>11. OnlyReviewed'
    <2> SUFFICES ASSUME losses = 0 PROVE OnlyReviewed'
      BY <1>2 DEF OnlyReviewed
    <2>1. \A q \in Registry!Promoters : where'[q] = "clear" => call'[q].epoch \in reviewed'
      BY <1>2, <1>5, <1>9 DEF EpochIInv, OnlyReviewed
    <2>2. Registry!Actives' \subseteq reviewed'
      BY <1>5, <1>6
    <2> QED BY <1>0, <1>2, <1>5, <2>1, <2>2 DEF EpochIInv, OnlyReviewed
  <1>12. ASSUME NEW q \in Registry!Promoters PROVE PromoterOK(q)'
    <2>1. CASE q = p
      <3>2. InCall(p)'
        BY <1>0, <1>2, <1>3 DEF PromoterOK, InCall
      <3>3. Authorised(p)'
        BY <1>9 DEF Authorised
      <3>4. PriorOK(p)'
        BY <1>0, <1>2, <1>3 DEF PromoterOK, PriorOK
      <3> QED BY <2>1, <3>2, <3>3, <3>4 DEF PromoterOK
    <2>2. CASE q # p
      BY <1>2, <1>9, <2>2, PromoterStays
    <2> QED BY <2>1, <2>2
  <1> QED BY <1>0, <1>7, <1>8, <1>10, <1>11, <1>12 DEF EpochIInv

\* The scores of the epoch lose their marks, and the call returns.
LEMMA ClearStep ==
    ASSUME EpochIInv, trust' = trust, NEW p \in Registry!Promoters, Registry!Clear(p)
    PROVE  EpochIInv'
  <1>0. Registry!Epochs' = Registry!Epochs /\ Registry!Runs' = Registry!Runs /\ Registry!Promoters' = Registry!Promoters /\ Registry!RequiresApproval' = Registry!RequiresApproval /\ Registry!Calls' = Registry!Calls
    BY EpochStays
  <1>1. /\ where \in [Registry!Promoters -> EpochPlaces] /\ call \in [Registry!Promoters -> Registry!Calls \cup {None}]
        /\ scores \in [Registry!Runs -> {None} \cup Scores] /\ None \notin Registry!Promoters
    BY EpochTypes
  <1>2. /\ where[p] = "clear" /\ where' = [where EXCEPT ![p] = "idle"] /\ call' = [call EXCEPT ![p] = [call[p] EXCEPT !.outcome = "activated"]]
        /\ scores' = [r \in Registry!Runs |-> IF r \in Registry!ScoredUnder(call[p].epoch) THEN [scores[r] EXCEPT !.mark = FALSE] ELSE scores[r]]
        /\ UNCHANGED <<records, decided, lock, seen, reviewed, losses>>
    BY DEF Registry!Clear, Registry!Return, Registry!Goto, Registry!registry
  <1>3. PromoterOK(p) /\ call[p] \in Registry!Calls
    BY <1>2 DEF EpochIInv, PromoterOK, InCall
  <1>4. PICK a \in Registry!Calls : a = call[p]
    BY <1>3
  <1>5. PICK c : c = [a EXCEPT !.outcome = "activated"]
    OBVIOUS
  <1>6. c \in Registry!Calls /\ c.outcome = "activated" /\ c.epoch = a.epoch /\ c.prior = a.prior
    BY <1>5, CallReturns DEF Outcomes
  <1>7. call' = [call EXCEPT ![p] = c]
    BY <1>2, <1>4, <1>5
  <1>8. ASSUME NEW r \in Registry!Runs
        PROVE  /\ scores'[r] \in {None} \cup Scores
               /\ scores[r] = None => scores'[r] = None
               /\ scores[r] # None => /\ scores'[r] \in Scores /\ scores'[r].epoch = scores[r].epoch
                                      /\ ~scores[r].mark => ~scores'[r].mark
                                      /\ scores[r].epoch = a.epoch => ~scores'[r].mark
                                      /\ scores[r].epoch # a.epoch => scores'[r] = scores[r]
    <2>1. CASE scores[r] # None /\ scores[r].epoch = a.epoch
      <3>1. PICK s \in Scores : s = scores[r]
        BY <1>1, <2>1
      <3>2. scores'[r] = [s EXCEPT !.mark = FALSE]
        BY <1>2, <1>4, <2>1, <3>1 DEF Registry!ScoredUnder
      <3>3. PICK t : t = [s EXCEPT !.mark = FALSE]
        OBVIOUS
      <3>4. t \in Scores /\ t.epoch = s.epoch /\ ~t.mark
        BY <3>3 DEF Scores
      <3> QED BY <2>1, <3>1, <3>2, <3>3, <3>4
    <2>2. CASE ~(scores[r] # None /\ scores[r].epoch = a.epoch)
      <3>1. scores'[r] = scores[r]
        BY <1>2, <1>4, <2>2 DEF Registry!ScoredUnder
      <3> QED BY <1>1, <2>2, <3>1
    <2> QED BY <2>1, <2>2
  <1>9. Registry!Actives' = Registry!Actives /\ Registry!Known' = Registry!Known
    BY <1>0, <1>2 DEF Registry!Actives, Registry!Known
  <1>10. where'[p] = "idle" /\ call'[p] = c /\ \A q \in Registry!Promoters \ {p} : where'[q] = where[q] /\ call'[q] = call[q]
    BY <1>1, <1>2, <1>7
  <1>11. EpochType'
    <2>1. scores' \in [Registry!Runs -> {None} \cup Scores]
      <3>1. scores' = [r \in Registry!Runs |-> scores'[r]]
        BY <1>2
      <3> QED BY <1>8, <3>1
    <2>2. where' \in [Registry!Promoters -> EpochPlaces] /\ call' \in [Registry!Promoters -> Registry!Calls \cup {None}]
      BY <1>1, <1>2, <1>6, <1>7 DEF EpochPlaces
    <2> QED BY <1>2, <2>1, <2>2, EpochTypes, EpochTyped
  <1>12. OnlyOne' /\ SomeActive'
    BY <1>2, <1>9 DEF EpochIInv, OnlyOne, SomeActive
  <1>13. LockIsHeld'
    BY <1>0, <1>2, <1>9, <1>10 DEF EpochIInv, LockIsHeld
  <1>14. OnlyReviewed'
    <2> SUFFICES ASSUME losses = 0 PROVE OnlyReviewed'
      BY <1>2 DEF OnlyReviewed
    <2>1. a.epoch \in reviewed
      BY <1>2, <1>4 DEF EpochIInv, OnlyReviewed
    <2>2. \A r \in Registry!Runs : scores'[r] # None /\ ~scores'[r].mark => scores'[r].epoch \in reviewed
      BY <1>8, <2>1 DEF EpochIInv, OnlyReviewed
    <2>3. \A q \in Registry!Promoters : where'[q] = "clear" => call'[q].epoch \in reviewed
      BY <1>10 DEF EpochIInv, OnlyReviewed
    <2> QED BY <1>0, <1>2, <1>9, <2>2, <2>3 DEF EpochIInv, OnlyReviewed
  <1>15. ASSUME NEW q \in Registry!Promoters PROVE PromoterOK(q)'
    <2>1. CASE q = p
      <3>2. InCall(p)' /\ Authorised(p)'
        BY <1>10 DEF InCall, Authorised
      <3>4. PriorOK(p)'
        <4> SUFFICES ASSUME NEW r \in c.prior PROVE scores'[r] # None /\ scores'[r].epoch = c.epoch /\ ~scores'[r].mark
          BY <1>6, <1>10 DEF PriorOK
        <4>1. r \in Registry!Runs
          BY <1>6 DEF Registry!Calls
        <4>2. scores[r] # None /\ scores[r].epoch = a.epoch
          BY <1>3, <1>4, <1>6 DEF PromoterOK, PriorOK
        <4>3. scores'[r] # None
          <5>1. None \notin Scores
            BY EpochAssumption DEF Scores, Registry!Epochs, EpochIInv, EpochType
          <5> QED BY <1>8, <4>1, <4>2, <5>1
        <4> QED BY <1>6, <1>8, <4>1, <4>2, <4>3
      <3> QED BY <2>1, <3>2, <3>4 DEF PromoterOK
    <2>2. CASE q # p
      <3>1. None \notin Scores
        BY EpochAssumption DEF Scores, Registry!Epochs, EpochIInv, EpochType
      <3>2. \A r \in Registry!Runs : scores[r] # None => /\ scores'[r] # None /\ scores'[r].epoch = scores[r].epoch
                                                         /\ ~scores[r].mark => ~scores'[r].mark
        BY <1>8, <3>1
      <3> QED BY <1>10, <2>2, <3>2, PromoterStays
    <2> QED BY <2>1, <2>2
  <1> QED BY <1>0, <1>11, <1>12, <1>13, <1>14, <1>15 DEF EpochIInv

\* A promoter dies, and its lock with it.
LEMMA DieStep ==
    ASSUME EpochIInv, trust' = trust, NEW p \in Registry!Promoters, Registry!Crash(p)
    PROVE  EpochIInv'
  <1>0. Registry!Epochs' = Registry!Epochs /\ Registry!Runs' = Registry!Runs /\ Registry!Promoters' = Registry!Promoters /\ Registry!RequiresApproval' = Registry!RequiresApproval /\ Registry!Calls' = Registry!Calls
    BY EpochStays
  <1>1. where \in [Registry!Promoters -> EpochPlaces] /\ None \notin Registry!Promoters /\ lock \in Registry!Promoters \cup {None} /\ losses \in Nat
    BY EpochTypes
  <1>2. /\ where[p] # "idle" /\ where' = [where EXCEPT ![p] = "crashed"] /\ losses' = losses + 1
        /\ lock' = (IF lock = p THEN None ELSE lock)
        /\ UNCHANGED <<records, decided, call, seen, scores, reviewed>>
    BY DEF Registry!Crash, Registry!Goto, Registry!registry
  <1>3. losses' \in Nat /\ losses' # 0
    BY <1>1, <1>2
  <1>4. Registry!Actives' = Registry!Actives
    BY <1>0, <1>2 DEF Registry!Actives
  <1>5. where'[p] = "crashed" /\ \A q \in Registry!Promoters \ {p} : where'[q] = where[q]
    BY <1>1, <1>2
  <1>6. EpochType'
    <2>1. where' \in [Registry!Promoters -> EpochPlaces] /\ lock' \in Registry!Promoters \cup {None}
      BY <1>1, <1>2 DEF EpochPlaces
    <2> QED BY <1>2, <1>3, <2>1, EpochTypes, EpochTyped
  <1>7. OnlyOne' /\ SomeActive' /\ OnlyReviewed'
    BY <1>3, <1>4 DEF EpochIInv, OnlyOne, SomeActive, OnlyReviewed
  <1>8. LockIsHeld'
    <2>1. ASSUME NEW q \in Registry!Promoters PROVE where'[q] = "activate" <=> lock' = q
      BY <1>1, <1>2, <1>5, <2>1 DEF EpochIInv, LockIsHeld
    <2>2. ASSUME NEW q \in Registry!Promoters, where'[q] = "activate" PROVE Registry!Actives' \subseteq {call'[q].epoch}
      BY <1>2, <1>4, <1>5, <2>2 DEF EpochIInv, LockIsHeld
    <2> QED BY <1>0, <2>1, <2>2 DEF LockIsHeld
  <1>9. ASSUME NEW q \in Registry!Promoters PROVE PromoterOK(q)'
    <2>1. CASE q = p
      <3>1. PromoterOK(p)
        BY DEF EpochIInv
      <3>2. InCall(p)'
        BY <1>0, <1>2, <3>1 DEF PromoterOK, InCall
      <3>3. Authorised(p)'
        BY <1>5 DEF Authorised
      <3>4. PriorOK(p)'
        BY <1>0, <1>2, <3>1 DEF PromoterOK, PriorOK
      <3> QED BY <2>1, <3>2, <3>3, <3>4 DEF PromoterOK
    <2>2. CASE q # p
      BY <1>2, <1>5, <2>2, PromoterStays
    <2> QED BY <2>1, <2>2
  <1> QED BY <1>0, <1>6, <1>7, <1>8, <1>9 DEF EpochIInv

LEMMA EpochInit == Registry!Init => EpochIInv
  <1> SUFFICES ASSUME Registry!Init PROVE EpochIInv
    OBVIOUS
  <1> USE DEF Registry!Init
  <1>1. None \notin {"candidate", "active", "disabled", "activated"} /\ None \notin Registry!Promoters
    BY EpochAssumption DEF Registry!Promoters
  <1>2. Registry!TypeOK
    <2>1. /\ records \in [Registry!Epochs -> {None, "candidate", "active", "disabled"}] /\ decided \in [Registry!Epochs -> Registry!Decisions \cup {None}]
          /\ lock \in Registry!Promoters \cup {None} /\ reviewed \subseteq Registry!Epochs
      OBVIOUS
    <2>2. /\ where \in [Registry!Promoters -> EpochPlaces] /\ call \in [Registry!Promoters -> Registry!Calls \cup {None}]
      BY DEF EpochPlaces
    <2>3. seen \in [Registry!Runs -> {None} \cup Scores] /\ scores \in [Registry!Runs -> {None} \cup Scores]
      OBVIOUS
    <2> QED BY <2>1, <2>2, <2>3 DEF Registry!TypeOK, EpochPlaces, Scores
  <1>3. Registry!Actives = {}
    BY <1>1 DEF Registry!Actives
  <1>4. EpochType /\ OnlyOne /\ LockIsHeld
    BY <1>1, <1>2, <1>3 DEF EpochType, OnlyOne, LockIsHeld
  <1>5. SomeActive
    BY DEF SomeActive, Registry!Known
  <1>6. OnlyReviewed
    BY <1>3 DEF OnlyReviewed
  <1>7. ASSUME NEW p \in Registry!Promoters PROVE PromoterOK(p)
    <2>1. where[p] = "idle" /\ call[p] = None
      OBVIOUS
    <2>2. None \notin Registry!Calls
      BY EpochAssumption DEF Registry!Calls, Registry!Reports, Registry!Epochs, Registry!Decisions, Registry!Runs
    <2> QED BY <2>1, <2>2 DEF PromoterOK, InCall, Authorised, PriorOK
  <1> QED BY <1>4, <1>5, <1>6, <1>7 DEF EpochIInv

LEMMA EpochStep == EpochIInv /\ [Registry!Next]_<<Registry!vars, trust>> => EpochIInv'
  <1> SUFFICES ASSUME EpochIInv, [Registry!Next]_<<Registry!vars, trust>> PROVE EpochIInv'
    OBVIOUS
  <1>1. CASE UNCHANGED <<Registry!vars, trust>>
    <2>1. UNCHANGED <<records, decided, lock, where, call, seen, scores, reviewed, losses, trust>>
      BY <1>1 DEF Registry!vars, Registry!registry
    <2>2. /\ Registry!Epochs' = Registry!Epochs /\ Registry!Runs' = Registry!Runs /\ Registry!Promoters' = Registry!Promoters
          /\ Registry!Actives' = Registry!Actives /\ Registry!Known' = Registry!Known
      BY <2>1, EpochStays DEF Registry!Actives, Registry!Known
    <2>3. EpochType'
      BY <2>1, EpochTypes, EpochTyped
    <2>4. OnlyOne' /\ SomeActive' /\ LockIsHeld'
      BY <2>1, <2>2 DEF EpochIInv, OnlyOne, SomeActive, LockIsHeld
    <2>5. OnlyReviewed'
      BY <2>1, <2>2 DEF EpochIInv, OnlyReviewed
    <2>6. \A q \in Registry!Promoters : PromoterOK(q)'
      BY <2>1, PromoterStays
    <2> QED BY <2>2, <2>3, <2>4, <2>5, <2>6 DEF EpochIInv
  <1>2. CASE Registry!Next
    <2>1. trust' = trust
      BY <1>2 DEF Registry!Next
    <2>2. ASSUME NEW r \in Registry!Runs, NEW e \in Registry!Epochs, Registry!observe_id(r, e) \/ Registry!ObserveFails(r, e) PROVE EpochIInv'
      BY <2>1, <2>2, ObserveStep, FailStep
    <2>3. ASSUME NEW r \in Registry!Runs, Registry!upsert_generation(r) PROVE EpochIInv'
      BY <2>1, <2>3, ScoreStep
    <2>4. ASSUME NEW p \in Registry!Promoters, \E e \in Registry!Epochs, d \in Registry!Decisions : \E c \in Registry!ReportsFor(d) : Registry!Call(p, e, d, c)
          PROVE  EpochIInv'
      BY <2>1, <2>4, EpochCallSteps
    <2>5. ASSUME NEW p \in Registry!Promoters, Registry!Step(p) PROVE EpochIInv'
      <3>1. CASE Registry!Load(p) \/ Registry!DecideCall(p) \/ Registry!Stamp(p) \/ Registry!CallAgain(p)
        BY <2>1, <3>1, EpochCallSteps
      <3>2. CASE Registry!Demote(p)
        BY <2>1, <3>2, DemoteStep
      <3>3. CASE Registry!Activate(p)
        BY <2>1, <3>3, ActivateStep
      <3>4. CASE Registry!Clear(p)
        BY <2>1, <3>4, ClearStep
      <3> QED BY <2>5, <3>1, <3>2, <3>3, <3>4 DEF Registry!Step
    <2>6. ASSUME NEW p \in Registry!Promoters, Registry!Crash(p) PROVE EpochIInv'
      BY <2>1, <2>6, DieStep
    <2> QED BY <1>2, <2>2, <2>3, <2>4, <2>5, <2>6 DEF Registry!Next
  <1> QED BY <1>1, <1>2

LEMMA EpochImplied == EpochIInv => Registry!EpochInv
  <1> SUFFICES ASSUME EpochIInv PROVE Registry!OneActive /\ Registry!TrustedWasReviewed /\ Registry!PriorScoresCleared
    BY DEF Registry!EpochInv, EpochIInv, EpochType
  <1>1. Registry!OneActive
    <2>1. Cardinality(Registry!Actives) <= 1
      <3>1. CASE Registry!Actives = {}
        BY <3>1, FS_EmptySet
      <3>2. CASE Registry!Actives # {}
        <4>0. PICK e \in Registry!Actives : TRUE
          BY <3>2
        <4>1. Registry!Actives = {e}
          BY <4>0 DEF EpochIInv, OnlyOne
        <4>2. Cardinality({e}) = 1
          BY FS_Singleton
        <4> QED BY <4>1, <4>2
      <3> QED BY <3>1, <3>2
    <2> QED BY <2>1, EpochCounts DEF Registry!OneActive, EpochIInv, SomeActive
  <1>2. Registry!TrustedWasReviewed
    BY DEF EpochIInv, OnlyReviewed, Registry!TrustedWasReviewed
  <1>3. Registry!PriorScoresCleared
    <2> SUFFICES ASSUME NEW p \in Registry!Promoters, call[p] # None, call[p].outcome = "activated", NEW r \in call[p].prior PROVE ~scores[r].mark
      BY DEF Registry!PriorScoresCleared
    <2>1. PriorOK(p)
      BY DEF EpochIInv, PromoterOK
    <2>2. call[p] \in Registry!Calls
      BY EpochTypes
    <2> QED BY <2>1, <2>2 DEF PriorOK
  <1> QED BY <1>1, <1>2, <1>3

\* A scenario has one active epoch at most, only reviewed epochs score without a mark, and who activates an epoch leaves
\* none of its earlier scores marked: for any runs, epochs, promoters, deaths and failures of the registry.
THEOREM EpochSafe == Registry!Spec => []EpochInv
  <1>1. Registry!Spec => []EpochIInv
    BY EpochInit, EpochStep, PTL DEF Registry!Spec
  <1>2. EpochIInv => EpochInv
    BY EpochImplied DEF EpochInv
  <1> QED BY <1>1, <1>2, PTL

=============================================================================
