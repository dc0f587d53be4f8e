------------------------------ MODULE TaskRunner ------------------------------
(***************************************************************************)
(* The daemons that work off the task queue: TaskRunner of                 *)
(* execution/task_runner.py and of ts/src/execution/task-runner.ts, any    *)
(* number of each on one database.  A runner sweeps stale rows once, when  *)
(* it starts, then claims a batch one row at a time, runs the batch's      *)
(* tasks at the same time, and polls again.  A thread is one claimed task  *)
(* in a runner's memory; its `attempt` is the count its claim returned.    *)
(*                                                                         *)
(* Faults: a process dies at any point, a statement on the database        *)
(* raises, a task outlives the stale threshold.  The evaluation of a task  *)
(* is the choice between completing and raising; a complete_task that      *)
(* raises is a Raise.  A sweep that raises ends the runner before it has   *)
(* done anything, a stuttering step.                                       *)
(***************************************************************************)
EXTENDS TaskQueue

CONSTANTS Workers,      \* runner processes
          Python,       \* those that run task_runner.py
          Concurrency,  \* batch size
          MaxEmpty,     \* MaxEmpty[w]: max_consecutive_empty; 0 = run forever
          MaxCrashes,   \* bound: process deaths
          MaxFaults,    \* bound: statements that raise
          MaxSlow       \* bound: times a running task outlives the threshold

VARIABLES rows,      \* the task_queue table
          pc,        \* worker -> where its run() is; "off" = no such process
          threads,   \* worker -> its claimed and unfinished tasks
          claimed,   \* worker -> rows claimed in this batch
          succeeded, \* worker -> threads of this batch that returned
          empties,   \* worker -> consecutive empty polls
          shutdown,  \* worker -> a signal was received
          crashes, faults, slow

vars == <<rows, pc, threads, claimed, succeeded, empties, shutdown, crashes, faults, slow>>

batch == <<threads, claimed, succeeded>>
counters == <<crashes, faults, slow>>

Threads == [task : Tasks, attempt : Nat, stage : {"work", "failing"}]

(* Some runner is at work on the task.                                     *)
Held(t) == \E w \in Workers : \E th \in threads[w] : th.task = t

Init ==
    /\ rows = [t \in Tasks |-> NoRow]
    /\ pc = [w \in Workers |-> "off"]
    /\ threads = [w \in Workers |-> {}]
    /\ claimed = [w \in Workers |-> 0]
    /\ succeeded = [w \in Workers |-> 0]
    /\ empties = [w \in Workers |-> 0]
    /\ shutdown = [w \in Workers |-> FALSE]
    /\ crashes = 0 /\ faults = 0 /\ slow = 0

-----------------------------------------------------------------------------
(* The process is gone; the rows it claimed stay running.                  *)
Gone(w) ==
    /\ pc' = [pc EXCEPT ![w] = "off"]
    /\ threads' = [threads EXCEPT ![w] = {}]
    /\ claimed' = [claimed EXCEPT ![w] = 0]
    /\ succeeded' = [succeeded EXCEPT ![w] = 0]
    /\ empties' = [empties EXCEPT ![w] = 0]
    /\ shutdown' = [shutdown EXCEPT ![w] = FALSE]

(* A batch of size 0 begins.                                               *)
NewBatch(w) ==
    /\ threads' = [threads EXCEPT ![w] = {}]
    /\ claimed' = [claimed EXCEPT ![w] = 0]
    /\ succeeded' = [succeeded EXCEPT ![w] = 0]

(* The head of the loop: another batch unless a signal came.               *)
Loop(w) ==
    IF shutdown[w] THEN Gone(w)
    ELSE /\ pc' = [pc EXCEPT ![w] = "claiming"]
         /\ NewBatch(w)
         /\ UNCHANGED shutdown

(* A batch that processed nothing: stop at the limit, sleep otherwise.     *)
EmptyPoll(w) ==
    IF MaxEmpty[w] > 0 /\ empties[w] + 1 >= MaxEmpty[w] THEN Gone(w)
    ELSE /\ pc' = [pc EXCEPT ![w] = "sleeping"]
         /\ empties' = [empties EXCEPT ![w] = IF MaxEmpty[w] > 0 THEN @ + 1 ELSE 0]
         /\ NewBatch(w)
         /\ UNCHANGED shutdown

-----------------------------------------------------------------------------
Enqueue(t, now) ==
    /\ rows[t].status = "absent"
    /\ rows' = enqueue_task(rows, t, now)
    /\ UNCHANGED <<pc, batch, empties, shutdown, counters>>

(* Mutant: a runner starts without the sweep.                              *)
StartWithoutSweep(w) ==
    /\ pc[w] = "off"
    /\ pc' = [pc EXCEPT ![w] = "claiming"]
    /\ UNCHANGED <<rows, batch, empties, shutdown, counters>>

(* run() begins: the sweep, then the loop.                                 *)
Start(w) ==
    /\ pc[w] = "off"
    /\ rows' = requeue_stale_running(rows)
    /\ pc' = [pc EXCEPT ![w] = "claiming"]
    /\ UNCHANGED <<batch, empties, shutdown, counters>>

(* One claim of the batch.                                                 *)
Claim(w, t) ==
    /\ pc[w] = "claiming"
    /\ claimed[w] < Concurrency
    /\ t \in Candidates(rows, w \in Python)
    /\ rows' = claim(rows, t)
    /\ threads' = [threads EXCEPT ![w] = @ \cup {[task |-> t, attempt |-> rows'[t].attempts, stage |-> "work"]}]
    /\ claimed' = [claimed EXCEPT ![w] = @ + 1]
    /\ UNCHANGED <<pc, succeeded, empties, shutdown, counters>>

(* A claim that raises ends run(): what the batch already holds is         *)
(* stranded, as it is when the process dies.                               *)
ClaimRaises(w) ==
    /\ pc[w] = "claiming"
    /\ claimed[w] < Concurrency
    /\ faults < MaxFaults
    /\ faults' = faults + 1
    /\ Gone(w)
    /\ UNCHANGED <<rows, crashes, slow>>

(* The batch is full, or nothing is left to claim.                         *)
Dispatch(w) ==
    /\ pc[w] = "claiming"
    /\ claimed[w] = Concurrency \/ Claimable(rows, w \in Python) = {}
    /\ IF claimed[w] = 0 THEN EmptyPoll(w)
       ELSE /\ pc' = [pc EXCEPT ![w] = "processing"]
            /\ UNCHANGED <<batch, empties, shutdown>>
    /\ UNCHANGED <<rows, counters>>

-----------------------------------------------------------------------------
(* Mutant: the events sent after complete_task can raise, and the          *)
(* exception reaches fail_task.                                            *)
CompleteThenRaise(w, th) ==
    /\ pc[w] = "processing"
    /\ th \in threads[w] /\ th.stage = "work"
    /\ rows' = complete_task(rows, th.task, th.attempt)
    /\ threads' = [threads EXCEPT ![w] = (@ \ {th}) \cup {[th EXCEPT !.stage = "failing"]}]
    /\ UNCHANGED <<pc, claimed, succeeded, empties, shutdown, counters>>

(* The task ran and complete_task wrote its result, whatever the row says  *)
(* by now.                                                                 *)
Complete(w, th) ==
    /\ pc[w] = "processing"
    /\ th \in threads[w] /\ th.stage = "work"
    /\ rows' = complete_task(rows, th.task, th.attempt)
    /\ threads' = [threads EXCEPT ![w] = @ \ {th}]
    /\ succeeded' = [succeeded EXCEPT ![w] = @ + 1]
    /\ UNCHANGED <<pc, claimed, empties, shutdown, counters>>

(* The task, or complete_task, raised.                                     *)
Raise(w, th) ==
    /\ pc[w] = "processing"
    /\ th \in threads[w] /\ th.stage = "work"
    /\ threads' = [threads EXCEPT ![w] = (@ \ {th}) \cup {[th EXCEPT !.stage = "failing"]}]
    /\ UNCHANGED <<rows, pc, claimed, succeeded, empties, shutdown, counters>>

(* The exception handler: fail_task, after which the thread returns.       *)
Fail(w, th) ==
    /\ pc[w] = "processing"
    /\ th \in threads[w] /\ th.stage = "failing"
    /\ rows' = fail_task(rows, th.task)
    /\ threads' = [threads EXCEPT ![w] = @ \ {th}]
    /\ succeeded' = [succeeded EXCEPT ![w] = @ + 1]
    /\ UNCHANGED <<pc, claimed, empties, shutdown, counters>>

(* fail_task itself raises: the thread ends in an exception that run_batch *)
(* logs, and the row stays running.                                        *)
FailRaises(w, th) ==
    /\ pc[w] = "processing"
    /\ th \in threads[w] /\ th.stage = "failing"
    /\ faults < MaxFaults
    /\ faults' = faults + 1
    /\ threads' = [threads EXCEPT ![w] = @ \ {th}]
    /\ UNCHANGED <<rows, pc, claimed, succeeded, empties, shutdown, crashes, slow>>

(* What run_batch returns: the threads that returned in Python, the rows   *)
(* claimed in TypeScript.                                                  *)
Processed(w) == IF w \in Python THEN succeeded[w] ELSE claimed[w]

EndBatch(w) ==
    /\ pc[w] = "processing"
    /\ threads[w] = {}
    /\ IF Processed(w) = 0 THEN EmptyPoll(w)
       ELSE /\ Loop(w)
            /\ empties' = [empties EXCEPT ![w] = 0]
    /\ UNCHANGED <<rows, counters>>

(* The poll interval is over, or a signal cut it short.                    *)
Wake(w) ==
    /\ pc[w] = "sleeping"
    /\ Loop(w)
    /\ empties' = [empties EXCEPT ![w] = IF shutdown[w] THEN 0 ELSE @]
    /\ UNCHANGED <<rows, counters>>

(* SIGINT or SIGTERM: the batch under way is finished first.               *)
Signal(w) ==
    /\ pc[w] # "off"
    /\ ~shutdown[w]
    /\ shutdown' = [shutdown EXCEPT ![w] = TRUE]
    /\ UNCHANGED <<rows, pc, batch, empties, counters>>

Crash(w) ==
    /\ pc[w] # "off"
    /\ crashes < MaxCrashes
    /\ crashes' = crashes + 1
    /\ Gone(w)
    /\ UNCHANGED <<rows, faults, slow>>

-----------------------------------------------------------------------------
(* A retry's backoff, or the schedule it was enqueued with, is over.       *)
Due(t) ==
    /\ rows[t].status = "pending" /\ ~rows[t].due
    /\ rows' = [rows EXCEPT ![t].due = TRUE]
    /\ UNCHANGED <<pc, batch, empties, shutdown, counters>>

(* A running row's started_at passes the threshold.  That a runner still   *)
(* works on the task is what MaxSlow bounds.                               *)
Age(t) ==
    /\ rows[t].status = "running" /\ ~rows[t].stale
    /\ Held(t) => slow < MaxSlow
    /\ slow' = IF Held(t) THEN slow + 1 ELSE slow
    /\ rows' = [rows EXCEPT ![t].stale = TRUE]
    /\ UNCHANGED <<pc, batch, empties, shutdown, crashes, faults>>

ThreadStep(w, th) == Complete(w, th) \/ Raise(w, th) \/ Fail(w, th)

RunnerStep(w) ==
    \/ \E t \in Tasks : Claim(w, t)
    \/ Dispatch(w) \/ EndBatch(w) \/ Wake(w)

Next ==
    \/ \E t \in Tasks : Due(t) \/ Age(t) \/ \E now \in BOOLEAN : Enqueue(t, now)
    \/ \E w \in Workers :
          \/ Start(w) \/ RunnerStep(w) \/ Signal(w)
          \/ \E th \in threads[w] : ThreadStep(w, th) \/ FailRaises(w, th)
          \/ ClaimRaises(w) \/ Crash(w)

Spec == Init /\ [][Next]_vars

(* Every runner is restarted when it ends, its steps and its handlers      *)
(* return, and time passes.                                                *)
Restarted == \A w \in Workers : WF_vars(Start(w))

Running ==
    /\ \A w \in Workers : WF_vars(RunnerStep(w)) /\ WF_vars(\E th \in threads[w] : ThreadStep(w, th))
    /\ \A t \in Tasks : WF_vars(Due(t)) /\ WF_vars(Age(t))

RunningSpec == Spec /\ Restarted /\ Running

-----------------------------------------------------------------------------
TypeOK ==
    /\ rows \in [Tasks -> Rows]
    /\ pc \in [Workers -> {"off", "claiming", "processing", "sleeping"}]
    /\ threads \in [Workers -> SUBSET Threads]
    /\ claimed \in [Workers -> 0..Concurrency]
    /\ succeeded \in [Workers -> Nat]
    /\ empties \in [Workers -> Nat]
    /\ shutdown \in [Workers -> BOOLEAN]
    /\ crashes \in Nat /\ faults \in Nat /\ slow \in Nat

(* However runners crash, raise, retry, sweep and finish late, a task is   *)
(* handed out at most max_attempts times: a pending row has an attempt     *)
(* left, so a poison task reaches the dead letters.                        *)
AttemptsBounded ==
    \A t \in Tasks : /\ rows[t].attempts <= MaxAttempts
                     /\ rows[t].status = "pending" => rows[t].attempts < MaxAttempts

(* No task is dead-lettered while it has an attempt left.                  *)
FailedIsSpent == \A t \in Tasks : rows[t].status = "failed" => Spent(rows[t])

(* Every claim is one execution: two executions of one task, in one runner *)
(* or in two, never carry the same attempt.                                *)
AttemptsAreDistinct ==
    \A w, v \in Workers : \A a \in threads[w], b \in threads[v] :
        a.task = b.task /\ a.attempt = b.attempt => w = v /\ a = b

(* Until a task outlives the stale threshold, whoever works on a task has  *)
(* its row: the row is running and the attempt is the last one handed out. *)
(* So no two runners work on one task.                                     *)
WorkerHasRow ==
    slow = 0 => \A w \in Workers : \A th \in threads[w] :
                    rows[th.task].status = "running" /\ rows[th.task].attempts = th.attempt

(* Until then a completed or dead-lettered row is never touched again.     *)
EndedIsFinal ==
    [][\A t \in Tasks : slow = 0 /\ rows[t].status \in {"completed", "failed"} => rows'[t] = rows[t]]_vars

(* Every task ends, and stays ended, completed or dead-lettered.           *)
TasksEnd ==
    \A t \in Tasks : rows[t].status # "absent" ~> [](rows[t].status \in {"completed", "failed"})

(* A task in hand was handed out, and its row exists.                      *)
AttemptWasHandedOut ==
    \A w \in Workers : \A th \in threads[w] :
        rows[th.task].status # "absent" /\ th.attempt <= rows[th.task].attempts

(* Until a task is slow, nobody works on a stale row.                      *)
StaleIsUnheld ==
    slow = 0 => \A w \in Workers : \A th \in threads[w] : ~rows[th.task].stale

(* The inductive invariant of the queue.                                   *)
QueueInv ==
    /\ TypeOK /\ AttemptsBounded /\ FailedIsSpent
    /\ AttemptWasHandedOut /\ AttemptsAreDistinct
    /\ WorkerHasRow /\ StaleIsUnheld

=============================================================================
