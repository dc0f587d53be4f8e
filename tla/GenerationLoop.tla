---------------------------- MODULE GenerationLoop -----------------------------
(***************************************************************************)
(* One run of the generation loop in SQLite: its row, its generations, and *)
(* the processes that run it, resume it or extend its target: commands and *)
(* workers of the interactive server, which can be asked to stop and whose *)
(* rows the server repairs when they are gone.  Nothing keeps two of them  *)
(* from the same run.  Every statement commits by itself.                  *)
(*                                                                         *)
(* A generation is what it leaves in its row; recovery markers, scores and *)
(* artifacts are left out, the post-run tail is its snapshot and receipt.  *)
(***************************************************************************)
EXTENDS Integers, FiniteSets

CONSTANTS Scopes,  \* what a behaviour is about: the fields below
          None

ASSUME LoopAssumption ==
    /\ \A s \in Scopes : IsFiniteSet(s.Commands \cup s.Workers) /\ s.MaxTarget \in Nat
    /\ None \notin {"running", "completed", "failed", "stopped"}

VARIABLES status,    \* of the run's row; None while there is none
          target,    \* its target_generations
          gens,      \* generation -> the status of its row, or None
          snapshots, \* targets the run's knowledge was snapshotted at
          receipts,  \* target -> run_completed events, 0, 1 or 2 for more
          pc, loc,   \* process -> where it is, what it knows
          abandoned, \* a process died and nobody repaired what it left
          failures, crashes,
          scope      \* which of Scopes; it never changes

Commands == scope.Commands    \* processes started by hand
Workers == scope.Workers      \* by the server
MaxTarget == scope.MaxTarget  \* generations asked for are 1 .. MaxTarget
MaxFailures == scope.MaxFailures
MaxCrashes == scope.MaxCrashes

rows == <<status, target, gens>>
tail == <<snapshots, receipts>>
bounds == <<failures, crashes>>
vars == <<rows, tail, pc, loc, abandoned, bounds>>

Procs == Commands \cup Workers
Targets == 1..MaxTarget

Init ==
    /\ scope \in Scopes
    /\ status = None /\ target = 0 /\ gens = [g \in Targets |-> None]
    /\ snapshots = {} /\ receipts = [t \in Targets |-> 0]
    /\ pc = [p \in Procs |-> "off"] /\ loc = [p \in Procs |-> None]
    /\ abandoned = FALSE /\ failures = 0 /\ crashes = 0

Goto(p, l) == pc' = [pc EXCEPT ![p] = l]

Know(p, r) == loc' = [loc EXCEPT ![p] = r]

(* A command is gone; a worker has to be reaped.                           *)
Exit(p) ==
    /\ Goto(p, IF p \in Workers THEN "reaped" ELSE "off")
    /\ Know(p, None)

Running == {g \in Targets : gens[g] = "running"}
Done == Cardinality({g \in Targets : gens[g] = "completed"})
Larger(a, b) == IF a >= b THEN a ELSE b

-----------------------------------------------------------------------------
(* run() reads the row.  A stopped run is refused: it is terminal.         *)
Enter(p, n) ==
    /\ pc[p] = "off" /\ status # "stopped"
    /\ Know(p, [existed |-> status, want |-> n, target |-> n, reopen |-> FALSE, g |-> 1,
                stop |-> FALSE, stopped |-> FALSE, left |-> {}, raised |-> FALSE])
    /\ Goto(p, IF status = None THEN "starting" ELSE "recovering")
    /\ UNCHANGED <<rows, tail, abandoned, bounds>>

(* recover_stale_run_state is over: a run that is being entered goes on, a *)
(* run that raised is left.                                                *)
Recovered(p) == IF loc[p].raised THEN Exit(p) ELSE Goto(p, "refreshing") /\ Know(p, [loc[p] EXCEPT !.left = {}])

(* It is for runs that are still running, and lists their running          *)
(* generations ...                                                         *)
ReadStale(p) ==
    /\ pc[p] = "recovering"
    /\ IF status = "running"
       THEN Goto(p, "repairing") /\ Know(p, [loc[p] EXCEPT !.left = Running])
       ELSE Recovered(p)
    /\ UNCHANGED <<rows, tail, abandoned, bounds>>

(* ... marks them failed one after the other, without looking again ...    *)
FailStaleGeneration(p) ==
    /\ pc[p] = "repairing" /\ loc[p].left # {}
    /\ LET g == CHOOSE g \in loc[p].left : \A h \in loc[p].left : g <= h IN
       /\ gens' = [gens EXCEPT ![g] = "failed"]
       /\ Know(p, [loc[p] EXCEPT !.left = @ \ {g}])
    /\ UNCHANGED <<status, target, tail, pc, abandoned, bounds>>

(* ... and then the run.                                                   *)
mark_run_failed(p) ==
    /\ pc[p] = "repairing" /\ loc[p].left = {}
    /\ status' = "failed"
    /\ Recovered(p)
    /\ UNCHANGED <<target, gens, tail, abandoned, bounds>>

(* The target is the larger of the stored and the requested one; a run     *)
(* that was completed at it is left unchanged.                             *)
Refresh(p) ==
    /\ pc[p] = "refreshing"
    /\ LET t == Larger(target, loc[p].want) IN
       IF loc[p].existed = "completed" /\ Done >= t
       THEN Exit(p)
       ELSE /\ Goto(p, "starting")
            /\ Know(p, [loc[p] EXCEPT !.target = t, !.reopen = status # "completed" \/ Done < t])
    /\ UNCHANGED <<rows, tail, abandoned, bounds>>

(* The RUN_START hook refuses the run.                                     *)
HookRefuses(p) ==
    /\ pc[p] = "starting" /\ failures < MaxFailures
    /\ failures' = failures + 1
    /\ Exit(p)
    /\ UNCHANGED <<rows, tail, abandoned, crashes>>

(* create_run, which ignores a row that is there, or mark_run_running.     *)
Start(p) ==
    /\ pc[p] = "starting"
    /\ IF (IF loc[p].existed = None THEN status = None ELSE loc[p].reopen)
       THEN status' = "running" /\ target' = loc[p].target
       ELSE UNCHANGED <<status, target>>
    /\ Goto(p, "looping")
    /\ UNCHANGED <<gens, tail, loc, abandoned, bounds>>

-----------------------------------------------------------------------------
(* Mutant: a generation that failed before is not run again.               *)
RoundOfFresh(p) ==
    LET me == loc[p] IN
    /\ pc[p] = "looping"
    /\ CASE me.g > me.target -> Goto(p, "closing") /\ UNCHANGED <<status, loc>>
         [] me.g <= me.target /\ me.stop ->
              /\ status' = IF status = "running" THEN "stopped" ELSE status
              /\ Know(p, [me EXCEPT !.stopped = TRUE]) /\ Goto(p, "snapshotting")
         [] OTHER -> IF gens[me.g] = "completed"
                     THEN Know(p, [me EXCEPT !.g = @ + 1]) /\ UNCHANGED <<status, pc>>
                     ELSE IF gens[me.g] = "failed"
                     THEN Know(p, [me EXCEPT !.raised = TRUE]) /\ Goto(p, "recovering") /\ UNCHANGED status
                     ELSE Goto(p, "opening") /\ UNCHANGED <<status, loc>>
    /\ UNCHANGED <<target, gens, tail, abandoned, bounds>>

(* A round: past the target the loop is over; a stop that was asked for    *)
(* marks the run stopped if it is still running, and ends the loop either  *)
(* way; a completed generation is skipped, any other is run.               *)
Round(p) ==
    LET me == loc[p] IN
    /\ pc[p] = "looping"
    /\ CASE me.g > me.target -> Goto(p, "closing") /\ UNCHANGED <<status, loc>>
         [] me.g <= me.target /\ me.stop ->
              /\ status' = IF status = "running" THEN "stopped" ELSE status
              /\ Know(p, [me EXCEPT !.stopped = TRUE]) /\ Goto(p, "snapshotting")
         [] OTHER -> IF gens[me.g] = "completed"
                     THEN Know(p, [me EXCEPT !.g = @ + 1]) /\ UNCHANGED <<status, pc>>
                     ELSE Goto(p, "opening") /\ UNCHANGED <<status, loc>>
    /\ UNCHANGED <<target, gens, tail, abandoned, bounds>>

Write(p, s) == gens' = [gens EXCEPT ![loc[p].g] = s]

OpenGeneration(p) ==
    /\ pc[p] = "opening"
    /\ Write(p, "running")
    /\ Goto(p, "working")
    /\ UNCHANGED <<status, target, tail, loc, abandoned, bounds>>

(* stage_persistence: the last thing the pipeline writes to the row.       *)
stage_persistence(p) ==
    /\ pc[p] = "working"
    /\ Write(p, "completed")
    /\ Goto(p, "persisted")
    /\ UNCHANGED <<status, target, tail, loc, abandoned, bounds>>

(* The pipeline raises, before or after that (a GENERATION_END hook        *)
(* refuses), and the row says failed.                                      *)
GenerationFails(p) ==
    /\ pc[p] \in {"working", "persisted"} /\ failures < MaxFailures
    /\ failures' = failures + 1
    /\ Write(p, "failed")
    /\ Know(p, [loc[p] EXCEPT !.raised = TRUE])
    /\ Goto(p, "netting")
    /\ UNCHANGED <<status, target, tail, abandoned, crashes>>

GenerationReturns(p) ==
    /\ pc[p] = "persisted"
    /\ Goto(p, "netting")
    /\ UNCHANGED <<rows, tail, loc, abandoned, bounds>>

(* The generation is over: raise, or go on with the next.                  *)
Leave(p) ==
    IF loc[p].raised
    THEN Goto(p, "recovering") /\ UNCHANGED loc
    ELSE Goto(p, "looping") /\ Know(p, [loc[p] EXCEPT !.g = @ + 1])

(* The safety net: a row that still says running is marked failed.         *)
ReadNet(p) ==
    /\ pc[p] = "netting"
    /\ IF gens[loc[p].g] = "running" THEN Goto(p, "stalling") /\ UNCHANGED loc ELSE Leave(p)
    /\ UNCHANGED <<rows, tail, abandoned, bounds>>

MarkStalled(p) ==
    /\ pc[p] = "stalling"
    /\ Write(p, "failed")
    /\ Leave(p)
    /\ UNCHANGED <<status, target, tail, abandoned, bounds>>

-----------------------------------------------------------------------------
mark_run_completed(p) ==
    /\ pc[p] = "closing"
    /\ status' = IF status # "stopped" THEN "completed" ELSE status
    /\ Goto(p, "snapshotting")
    /\ UNCHANGED <<target, gens, tail, loc, abandoned, bounds>>

(* The post-run tail: reports and the knowledge snapshot ...               *)
save_knowledge_snapshot(p) ==
    /\ pc[p] = "snapshotting"
    /\ snapshots' = snapshots \cup {loc[p].target}
    /\ IF loc[p].stopped THEN Exit(p) ELSE Goto(p, "announcing") /\ UNCHANGED loc
    /\ UNCHANGED <<rows, receipts, abandoned, bounds>>

(* ... and the run_completed receipt of a run that was not stopped.        *)
Announce(p) ==
    /\ pc[p] = "announcing"
    /\ receipts' = [receipts EXCEPT ![loc[p].target] = IF @ < 2 THEN @ + 1 ELSE @]
    /\ Exit(p)
    /\ UNCHANGED <<rows, snapshots, abandoned, bounds>>

-----------------------------------------------------------------------------
(* The server asks its worker to stop.                                     *)
RequestStop(p) ==
    /\ p \in Workers /\ loc[p] # None /\ ~loc[p].stop
    /\ Know(p, [loc[p] EXCEPT !.stop = TRUE])
    /\ UNCHANGED <<rows, tail, pc, abandoned, bounds>>

(* A process dies; or the server does, before it repaired what a worker    *)
(* left.                                                                   *)
Crash(p) ==
    /\ pc[p] # "off" /\ crashes < MaxCrashes
    /\ crashes' = crashes + 1
    /\ IF p \in Workers /\ pc[p] # "reaped"
       THEN Goto(p, "reaped") /\ UNCHANGED abandoned
       ELSE Goto(p, "off") /\ abandoned' = TRUE
    /\ Know(p, None)
    /\ UNCHANGED <<rows, tail, failures>>

(* Mutant: only the run is repaired.                                       *)
RepairRun(p) ==
    /\ pc[p] = "reaped"
    /\ status' = IF status = "running" THEN "failed" ELSE status
    /\ Goto(p, "off")
    /\ UNCHANGED <<target, gens, tail, loc, abandoned, bounds>>

(* _repair_interrupted_run_state, in one transaction.                      *)
mark_running_run_and_generations_failed(p) ==
    /\ pc[p] = "reaped"
    /\ gens' = [g \in Targets |-> IF gens[g] = "running" THEN "failed" ELSE gens[g]]
    /\ status' = IF status = "running" THEN "failed" ELSE status
    /\ Goto(p, "off")
    /\ UNCHANGED <<target, tail, loc, abandoned, bounds>>

Step(p) ==
    \/ ReadStale(p) \/ FailStaleGeneration(p) \/ mark_run_failed(p) \/ Refresh(p) \/ Start(p)
    \/ Round(p) \/ OpenGeneration(p) \/ stage_persistence(p) \/ GenerationReturns(p)
    \/ ReadNet(p) \/ MarkStalled(p)
    \/ mark_run_completed(p) \/ save_knowledge_snapshot(p) \/ Announce(p)
    \/ mark_running_run_and_generations_failed(p)

(* Nobody enters the run while somebody else is at it.                     *)
OneAtATime == Cardinality({p \in Procs : pc'[p] # "off"}) <= 1

Next ==
    /\ \E p \in Procs :
         \/ \E n \in Targets : Enter(p, n)
         \/ Step(p) \/ HookRefuses(p) \/ GenerationFails(p) \/ RequestStop(p) \/ Crash(p)
    /\ scope.Serial => OneAtATime
    /\ scope' = scope

(* Where the run is resumed, it is so again and again, and what is begun   *)
(* goes on.                                                                *)
Resumes(p) == scope.Resumed /\ p \in Procs /\ \E n \in Targets : Enter(p, n)
GoesOn(p) == scope.Resumed /\ p \in Procs /\ Step(p)

Fairness == \A p \in UNION {s.Commands \cup s.Workers : s \in Scopes} : WF_vars(Resumes(p)) /\ WF_vars(GoesOn(p))

Spec == Init /\ [][Next]_<<vars, scope>> /\ Fairness

-----------------------------------------------------------------------------
RunStatuses == {"running", "completed", "failed", "stopped"}

TypeOK ==
    /\ status \in RunStatuses \cup {None}
    /\ IF status = None THEN target = 0 ELSE target \in Targets
    /\ gens \in [Targets -> {"running", "completed", "failed", None}]
    /\ snapshots \subseteq Targets /\ receipts \in [Targets -> 0..2]
    /\ \A p \in Procs : loc[p] # None => loc[p].g \in 1..MaxTarget + 1

(* A completed run has completed every generation of its target, whatever  *)
(* failed, crashed, was stopped or extended on the way, while one process  *)
(* is at it at a time.                                                     *)
CompletedIsDone == scope.Serial /\ status = "completed" => \A g \in 1..target : gens[g] = "completed"

(* The run_completed receipt of a target is given once, however often the  *)
(* run is entered again, by one process at a time.                         *)
OneReceipt == scope.Serial => \A t \in Targets : receipts[t] <= 1

(* Whoever leaves the run last, returning, raising, stopping or killed     *)
(* under the server's eyes, leaves neither run nor generation running.     *)
NothingLeftRunning ==
    (\A p \in Procs : pc[p] = "off") /\ ~abandoned => status # "running" /\ Running = {}

(* A stopped run is terminal: while one process is at it at a time, and    *)
(* not when two are.                                                       *)
StoppedIsFinal == [][scope.Serial /\ status = "stopped" => status' = "stopped"]_vars

(* A run that is resumed again and again ends up completed or stopped.     *)
RunSettles == <>[](scope.Resumed => status \in {"completed", "stopped"})

(* A run's rows tell what was done, by whoever was at it.                  *)
LoopInv == TypeOK /\ CompletedIsDone /\ OneReceipt /\ NothingLeftRunning

(* A run ends, and a stop is final.                                        *)
RunEnds == StoppedIsFinal /\ RunSettles

=============================================================================
