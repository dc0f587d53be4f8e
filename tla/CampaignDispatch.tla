-------------------------- MODULE CampaignDispatch --------------------------
(***************************************************************************)
(* The two dispatch loops of the campaign scheduler                        *)
(* (campaign_scheduler_dispatch.py): run_scheduler_service, which polls    *)
(* until it is stopped, and run_scheduler_until_idle, which drains.  Both  *)
(* claim a wave of leases, run it in a thread of its own whose groups run  *)
(* in further threads, and end through cancel_active_jobs.                 *)
(*                                                                         *)
(* The scheduler is reduced to a table of jobs; CampaignScheduler models   *)
(* its operations in full.  Here it is the order of the loop's own reads   *)
(* (dead threads, error queue, counts) against what the threads do in      *)
(* between that is at stake.                                               *)
(***************************************************************************)
EXTENDS Naturals, Sequences, FiniteSets

CONSTANTS
    Jobs,
    Scopes          \* what a behaviour is about: the fields below

\* A request allows for one attempt at least.
ASSUME DispatchAssumption ==
    /\ IsFiniteSet(Jobs)
    /\ \A s \in Scopes : s.MaxAttempts \in [Jobs -> Nat \ {0}] /\ s.Inherited \subseteq Jobs

VARIABLES
    \* the scheduler's job table
    status, attempts,
    expired,        \* jobs whose lease's expires_at has passed
    orphans,        \* _restart_orphan_lease_ids that can be resumed
    usable,         \* FALSE once the object is stale or its store fails for good
    \* wave and group threads
    wave,           \* the wave a lease was dispatched in, 0 for none
    running,        \* leases a group thread is executing
    completed,      \* per wave, the queue of finished groups
    reported,       \* leases whose result was passed to complete()
    alive,          \* waves whose thread has not ended
    wave_errors,    \* number of exceptions in the error queue
    cancel_threads, \* jobs for which a cancel() call has yet to start
    cancel_waits,   \* jobs whose worker was asked to cancel
    \* the loop
    pc, active_waves, queued_seen, running_seen, stop_event, deadline, active, why,
    scope           \* which of Scopes; it never changes

Kind == scope.Kind              \* of a job: "runnable", or "exhausted" (no budget)
GroupKey == scope.GroupKey      \* jobs of a wave with one key run as one batch
Cancelable == scope.Cancelable  \* jobs another thread may cancel
Inherited == scope.Inherited    \* jobs that are leased, with durable replay, by an object that is gone
Serving == scope.Serving        \* TRUE: run_scheduler_service, FALSE: run_scheduler_until_idle
MaxConcurrency == scope.MaxConcurrency
MaxWaves == scope.MaxWaves
MaxAttempts == scope.MaxAttempts    \* of each job's request

Leases == UNION {{<<j, a>> : a \in 1 .. MaxAttempts[j]} : j \in Jobs}
Waves == 1 .. Cardinality(Leases)
Keys == {GroupKey[j] : j \in Jobs}

jobVars == <<status, attempts, expired, orphans, usable>>
waveVars == <<wave, running, completed, reported, alive, wave_errors>>
cancelVars == <<cancel_threads, cancel_waits>>
readVars == <<active_waves, queued_seen, running_seen, active>>
inputVars == <<stop_event, deadline>>
vars == <<jobVars, waveVars, cancelVars, readVars, inputVars, pc, why>>

-----------------------------------------------------------------------------

Busy == {"leased", "canceling"}
Queued == {j \in Jobs : status[j] = "queued"}
Active == {j \in Jobs : status[j] \in Busy}
LeaseOf(j) == <<j, attempts[j]>>
Ended == {"returned", "raised"}

MayRetry(j) == attempts[j] < MaxAttempts[j]

Init ==
    /\ scope \in Scopes
    /\ status = [j \in Jobs |-> IF j \in Inherited THEN "leased" ELSE "absent"]
    /\ attempts = [j \in Jobs |-> IF j \in Inherited THEN 1 ELSE 0]
    /\ orphans = Inherited /\ expired = {} /\ usable = TRUE
    /\ wave = [l \in Leases |-> 0] /\ running = {} /\ reported = {}
    /\ completed = [w \in Waves |-> <<>>]
    /\ alive = {} /\ wave_errors = 0 /\ cancel_threads = {} /\ cancel_waits = {}
    /\ pc = "poll" /\ active_waves = {}
    /\ queued_seen = FALSE /\ running_seen = FALSE /\ active = {} /\ why = "none"
    /\ stop_event = FALSE /\ deadline = FALSE

-----------------------------------------------------------------------------
(* The world around the loop. *)

\* Another thread enqueues a job.
Enqueue(j) ==
    /\ status[j] = "absent" /\ usable
    /\ status' = [status EXCEPT ![j] = "queued"]
    /\ UNCHANGED <<attempts, expired, orphans, usable, waveVars, cancelVars, readVars, inputVars, pc, why>>

\* Another thread calls cancel().
UserCancels(j) ==
    /\ j \in Cancelable /\ status[j] \in Busy \cup {"queued"} /\ j \notin cancel_threads
    /\ cancel_threads' = cancel_threads \cup {j}
    /\ UNCHANGED <<jobVars, waveVars, cancel_waits, readVars, inputVars, pc, why>>

\* The stop event is set; the drain's deadline passes; another process appends to the log.
Interrupts == (IF stop_event THEN 1 ELSE 0) + (IF deadline THEN 1 ELSE 0) + (IF usable THEN 0 ELSE 1)
MayInterrupt == Interrupts < scope.MaxInterrupts
Stop ==
    /\ MayInterrupt /\ ~stop_event /\ stop_event' = TRUE
    /\ UNCHANGED <<jobVars, waveVars, cancelVars, readVars, deadline, pc, why>>
DeadlinePasses ==
    /\ MayInterrupt /\ ~Serving /\ ~deadline /\ deadline' = TRUE
    /\ UNCHANGED <<jobVars, waveVars, cancelVars, readVars, stop_event, pc, why>>
BecomeStale ==
    /\ MayInterrupt /\ usable /\ usable' = FALSE
    /\ UNCHANGED <<status, attempts, expired, orphans, waveVars, cancelVars, readVars, inputVars, pc, why>>

LeaseExpires(j) ==
    /\ status[j] \in Busy /\ j \notin expired
    /\ expired' = expired \cup {j}
    /\ UNCHANGED <<status, attempts, orphans, usable, waveVars, cancelVars, readVars, inputVars, pc, why>>

\* The group's heartbeat thread: only leases that are still held, only while the group runs.
HeartbeatAssignments(w, k) ==
    LET held == {j \in Jobs : /\ status[j] = "leased" /\ GroupKey[j] = k
                              /\ LeaseOf(j) \in running /\ wave[LeaseOf(j)] = w}
    IN  /\ held \cap expired # {} /\ usable
        /\ expired' = expired \ held
        /\ UNCHANGED <<status, attempts, orphans, usable, waveVars, cancelVars, readVars, inputVars, pc, why>>

-----------------------------------------------------------------------------
(* cancel(), in a thread of its own. *)

CancelStarts(j) ==
    /\ j \in cancel_threads
    /\ cancel_threads' = cancel_threads \ {j}
    /\ status' = CASE ~usable -> status      \* the append raises in this thread
                   [] usable /\ status[j] = "queued" -> [status EXCEPT ![j] = "canceled"]
                   [] usable /\ status[j] = "leased" -> [status EXCEPT ![j] = "canceling"]
                   [] OTHER -> status
    /\ cancel_waits' = IF status'[j] = "canceling" /\ status[j] = "leased"
                         THEN cancel_waits \cup {j} ELSE cancel_waits
    /\ UNCHANGED <<attempts, expired, orphans, usable, waveVars, readVars, inputVars, pc, why>>

\* The worker answers, at any time or never; the status is read again.
CancelAnswered(j, confirmed) ==
    /\ j \in cancel_waits
    /\ cancel_waits' = cancel_waits \ {j}
    /\ status' = IF confirmed /\ status[j] = "canceling" /\ usable
                   THEN [status EXCEPT ![j] = "canceled"] ELSE status
    /\ expired' = IF status' = status THEN expired ELSE expired \ {j}
    /\ UNCHANGED <<attempts, orphans, usable, cancel_threads, waveVars, readVars, inputVars, pc, why>>

-----------------------------------------------------------------------------
(* A wave: its groups run in parallel, their results are completed in the  *)
(* order in which the groups end.                                          *)

Group(w, k) == {l \in running : wave[l] = w /\ GroupKey[l[1]] = k}

\* _execute_group turns every Exception of a worker into a failure result; what is left is a
\* BaseException, which takes the whole group.
GroupEnds(w, k, error) ==
    /\ Group(w, k) # {}
    /\ running' = running \ Group(w, k)
    /\ completed' = [completed EXCEPT ![w] = Append(@, [group |-> Group(w, k), error |-> error])]
    /\ UNCHANGED <<jobVars, wave, reported, alive, wave_errors, cancelVars, readVars, inputVars, pc, why>>

\* complete(): what it does to the job, by the status of the lease.
Completed(l, retryable) ==
    LET j == l[1]
    IN  IF l # LeaseOf(j) \/ status[j] \notin Busy THEN status
        ELSE [status EXCEPT ![j] = IF @ = "canceling" THEN "canceled"
                                   ELSE IF retryable /\ MayRetry(j) THEN "queued"
                                   ELSE "finished"]

\* The wave thread takes the next result of the group at the head of its queue.
Report(w) ==
    /\ w \in alive /\ completed[w] # <<>> /\ ~Head(completed[w]).error /\ usable
    /\ \E l \in Head(completed[w]).group \ reported, retryable \in BOOLEAN :
          /\ status' = Completed(l, retryable)
          /\ expired' = IF status' = status THEN expired ELSE expired \ {l[1]}
          /\ reported' = reported \cup {l}
          /\ completed' = IF Head(completed[w]).group \subseteq reported'
                            THEN [completed EXCEPT ![w] = Tail(@)] ELSE completed
    /\ UNCHANGED <<attempts, orphans, usable, wave, running, alive, wave_errors, cancelVars, readVars,
                   inputVars, pc, why>>

WaveDone(w) == \A l \in Leases : wave[l] = w => l \in reported

\* All groups of the wave were taken: execute_assignment_groups joins its threads and returns.
WaveReturns(w) ==
    /\ w \in alive /\ WaveDone(w)
    /\ alive' = alive \ {w}
    /\ UNCHANGED <<jobVars, wave, running, completed, reported, wave_errors, cancelVars, readVars,
                   inputVars, pc, why>>

PutError == wave_errors' = wave_errors + 1

\* A group's exception, or complete() raising, ends the wave; what its other groups return is lost.
WaveRaises(w) ==
    /\ w \in alive /\ completed[w] # <<>>
    /\ alive' = alive \ {w}
    /\ PutError
    /\ UNCHANGED <<jobVars, wave, running, completed, reported, cancelVars, readVars, inputVars, pc, why>>

-----------------------------------------------------------------------------
(* The loop. *)

Raise(reason) == pc' = "cancel" /\ why' = reason

\* The stop event and the deadline.
Poll ==
    /\ pc = "poll"
    /\ IF stop_event \/ deadline
         THEN Raise(IF stop_event THEN "stopped" ELSE "deadline")
         ELSE pc' = "reap" /\ UNCHANGED why
    /\ UNCHANGED <<jobVars, waveVars, cancelVars, readVars, inputVars>>

\* Mutant: all waves are joined, the running ones too.
ReapByJoining ==
    /\ pc = "reap" /\ active_waves \cap alive = {}
    /\ active_waves' = {} /\ pc' = "errors"
    /\ UNCHANGED <<jobVars, waveVars, cancelVars, queued_seen, running_seen, active, inputVars, why>>

\* _reap_waves joins only threads that have ended.
Reap ==
    /\ pc = "reap"
    /\ active_waves' = active_waves \cap alive /\ pc' = "errors"
    /\ UNCHANGED <<jobVars, waveVars, cancelVars, queued_seen, running_seen, active, inputVars, why>>

ErrorPending == wave_errors > 0

\* if not wave_errors.empty(): raise wave_errors.get()
CheckErrors ==
    /\ pc = "errors"
    /\ IF ErrorPending
         THEN Raise("wave") /\ wave_errors' = wave_errors - 1
         ELSE pc' = "reconcile" /\ UNCHANGED <<wave_errors, why>>
    /\ UNCHANGED <<jobVars, wave, running, completed, reported, alive, cancelVars, readVars, inputVars>>

\* reconcile(): a canceling lease that expired is canceled, another one is retried or failed,
\* unless it can be resumed.
Lapsed == {j \in expired : status[j] = "canceling" \/ (status[j] = "leased" /\ j \notin orphans)}
Reconciled(retry) ==
    [j \in Jobs |-> IF j \notin Lapsed THEN status[j]
                    ELSE IF status[j] = "canceling" THEN "canceled"
                    ELSE IF j \in retry /\ MayRetry(j) THEN "queued" ELSE "finished"]

Reconcile ==
    /\ pc = "reconcile" /\ usable
    /\ \E retry \in SUBSET Lapsed : status' = Reconciled(retry)
    /\ expired' = expired \ Lapsed
    /\ pc' = IF Serving THEN "claim" ELSE "counts"
    /\ UNCHANGED <<attempts, orphans, usable, waveVars, cancelVars, readVars, inputVars, why>>

\* The waves started so far.
Started == Cardinality({wave[l] : l \in Leases} \ {0})

\* Mutant: the waves still running are not looked at.
IdleByCounts == Queued = {} /\ Active = {}
Idle == Queued = {} /\ Active = {} /\ active_waves = {}

\* work_counts() of the drain, and the decision to return.
Counts ==
    /\ pc = "counts"
    /\ IF Idle
         THEN pc' = "returned" /\ UNCHANGED why
         ELSE IF Started >= MaxWaves /\ Queued # {} /\ Active = {} /\ active_waves = {}
         THEN Raise("max_waves")
         ELSE /\ pc' = IF Started < MaxWaves /\ Queued \cup Active # {} THEN "claim" ELSE "poll"
              /\ UNCHANGED why
    /\ queued_seen' = (Queued # {} /\ pc' = "claim")
    /\ running_seen' = (Active # {} /\ pc' = "claim")
    /\ UNCHANGED <<jobVars, waveVars, cancelVars, active_waves, active, inputVars>>

Free == MaxConcurrency - Cardinality(Active)
Runnable == {j \in Queued : Kind[j] = "runnable"}
Exhausted == {j \in Queued : Kind[j] = "exhausted"}

\* _claim_dispatch_wave: resumable leases that expired, then as many queued jobs as fit; jobs
\* without budget are ended when they are visited, before the slots run out.
Claim ==
    /\ pc = "claim" /\ usable
    /\ \E taken \in SUBSET Runnable, ended \in SUBSET Exhausted :
          LET resumed == orphans \cap expired \cap {j \in Jobs : status[j] = "leased"}
              assigned == resumed \cup taken
              n == Started + 1
          IN  /\ Cardinality(taken) <= Free
              /\ (Cardinality(taken) < Free => taken = Runnable /\ ended = Exhausted)
              /\ (Free = 0 => ended = {})
              /\ attempts' = [j \in Jobs |-> IF j \in taken THEN attempts[j] + 1 ELSE attempts[j]]
              /\ status' = [j \in Jobs |-> IF j \in taken THEN "leased"
                                           ELSE IF j \in ended THEN "budget_exhausted" ELSE status[j]]
              /\ expired' = expired \ resumed /\ orphans' = {j \in orphans \ resumed : status[j] = "leased"}
              /\ IF assigned # {}
                   THEN LET new == {<<j, attempts'[j]>> : j \in assigned}
                        IN  /\ wave' = [l \in Leases |-> IF l \in new THEN n ELSE wave[l]]
                            /\ running' = running \cup new
                            /\ alive' = alive \cup {n} /\ active_waves' = active_waves \cup {n}
                            /\ pc' = "poll"
                   ELSE /\ pc' = IF ~Serving /\ queued_seen /\ ~running_seen /\ active_waves = {}
                                   THEN "recount" ELSE "poll"
                        /\ UNCHANGED <<wave, running, alive, active_waves>>
    /\ queued_seen' = FALSE /\ running_seen' = FALSE     \* read no more
    /\ UNCHANGED <<usable, completed, reported, wave_errors, cancelVars, active, inputVars, why>>

\* Nothing was claimed: count again before giving up.
Recount ==
    /\ pc = "recount"
    /\ IF Queued = {} /\ Active = {} THEN pc' = "poll" /\ UNCHANGED why ELSE Raise("no_runnable")
    /\ UNCHANGED <<jobVars, waveVars, cancelVars, readVars, inputVars>>

\* An append inside reconcile() or claim() raises.
LoopAppendRaises ==
    /\ pc \in {"reconcile", "claim"} /\ ~usable
    /\ Raise("append")
    /\ UNCHANGED <<jobVars, waveVars, cancelVars, readVars, inputVars>>

-----------------------------------------------------------------------------
(* cancel_active_jobs *)

\* The active jobs are listed once; each is canceled in a thread of its own.
CancelActive ==
    /\ pc = "cancel"
    /\ active' = Active /\ cancel_threads' = cancel_threads \cup Active
    /\ pc' = "grace"
    /\ UNCHANGED <<jobVars, waveVars, cancel_waits, active_waves, queued_seen, running_seen,
                   inputVars, why>>

Leave(outcome) == pc' = IF Serving /\ why = "stopped" THEN "returned" ELSE outcome

\* Until the grace ends: reconcile, and leave when no job of the list is active.
GracePoll ==
    /\ pc = "grace" /\ usable
    /\ \E retry \in SUBSET Lapsed : status' = Reconciled(retry)
    /\ expired' = expired \ Lapsed
    /\ IF \A j \in active : status'[j] \notin Busy THEN Leave("raised") ELSE UNCHANGED pc
    /\ UNCHANGED <<attempts, orphans, usable, waveVars, cancelVars, readVars, inputVars, why>>

Unsealed == {j \in active : status[j] \in Busy}

\* The grace has ended: what is still active is sealed, under one lock.
Seal ==
    /\ pc = "grace" /\ usable
    /\ status' = [j \in Jobs |-> IF j \in Unsealed THEN "canceled" ELSE status[j]]
    /\ expired' = {j \in expired : status'[j] \in Busy}
    /\ Leave("raised")
    /\ UNCHANGED <<attempts, orphans, usable, waveVars, cancelVars, readVars, inputVars, why>>

\* An object that cannot append any more leaves the jobs to the next one.
SealRaises ==
    /\ pc = "grace" /\ ~usable
    /\ pc' = "raised"
    /\ UNCHANGED <<jobVars, waveVars, cancelVars, readVars, inputVars, why>>

-----------------------------------------------------------------------------

LoopStep == \/ Poll \/ Reap \/ CheckErrors \/ Reconcile \/ Counts \/ Claim \/ Recount \/ LoopAppendRaises
            \/ CancelActive \/ GracePoll \/ Seal \/ SealRaises
JobStep(j) == \/ Enqueue(j) \/ UserCancels(j) \/ LeaseExpires(j) \/ CancelStarts(j)
              \/ \E confirmed \in BOOLEAN : CancelAnswered(j, confirmed)
WaveStep(w) == \/ Report(w) \/ WaveReturns(w) \/ WaveRaises(w)
               \/ \E k \in Keys : \/ HeartbeatAssignments(w, k)
                                  \/ \E error \in BOOLEAN : GroupEnds(w, k, error)

\* The model ends with the loop; threads that outlive it are daemons.
Exited == pc \in Ended /\ UNCHANGED vars

Next == /\ \/ /\ pc \notin Ended
              /\ \/ LoopStep \/ Stop \/ DeadlinePasses \/ BecomeStale
                 \/ \E j \in Jobs : JobStep(j)
                 \/ \E w \in Waves : WaveStep(w)
           \/ Exited
        /\ scope' = scope

\* The loop's thread runs and the grace of cancel_active_jobs ends.  Nothing is assumed of
\* workers, waves or cancel threads, nor that the drain's deadline passes.
LoopRuns == \/ Poll \/ Reap \/ CheckErrors \/ Reconcile \/ Counts \/ Claim \/ Recount \/ LoopAppendRaises
            \/ CancelActive \/ Seal \/ SealRaises

\* In some scopes the fleet works: groups return or raise, waves go on, leases that are not
\* heartbeated expire.
FleetRuns ==
    /\ WF_vars(scope.Fleet /\ \E w \in Waves : Report(w) \/ WaveReturns(w) \/ WaveRaises(w))
    /\ WF_vars(scope.Fleet /\ \E w \in Waves, k \in Keys, error \in BOOLEAN : GroupEnds(w, k, error))
    /\ \A j \in Jobs : WF_vars(scope.Fleet /\ LeaseExpires(j) /\ LeaseOf(j) \notin running)

Fairness == WF_vars(LoopRuns) /\ FleetRuns

Spec == Init /\ [][Next]_<<vars, scope>> /\ Fairness

-----------------------------------------------------------------------------
(* Properties. *)

TypeOK ==
    /\ status \in [Jobs -> {"absent", "queued", "leased", "canceling", "canceled", "finished",
                            "budget_exhausted"}]
    /\ \A j \in Jobs : attempts[j] \in 0 .. MaxAttempts[j]
    /\ expired \subseteq Active /\ orphans \subseteq Jobs /\ usable \in BOOLEAN
    /\ wave \in [Leases -> Waves \cup {0}] /\ running \subseteq Leases /\ reported \subseteq Leases
    /\ completed \in [Waves -> Seq([group : SUBSET Leases, error : BOOLEAN])]
    /\ alive \subseteq Waves /\ wave_errors \in 0 .. Cardinality(Waves)
    /\ cancel_threads \subseteq Jobs /\ cancel_waits \subseteq Jobs
    /\ pc \in {"poll", "reap", "errors", "reconcile", "counts", "claim", "recount", "cancel", "grace"} \cup Ended
    /\ active_waves \subseteq Waves /\ active \subseteq Jobs
    /\ {queued_seen, running_seen, stop_event, deadline} \subseteq BOOLEAN
    /\ why \in {"none", "stopped", "deadline", "wave", "max_waves", "no_runnable", "append"}

\* run_until_idle "drains until every job is terminal": when it returns, every job
\* is terminal, no wave is running, no error of a wave was swallowed, and every result of every
\* dispatched lease reached complete().
DrainReturnsIdle ==
    pc = "returned" /\ ~Serving =>
        /\ Active = {} /\ Queued = {}
        /\ alive = {} /\ wave_errors = 0
        /\ \A l \in Leases : wave[l] # 0 => l \in reported

\* However a loop ends (stop, deadline, a failed wave, a failed claim), cancel_active_jobs leaves no
\* job leased or canceling, the ones whose results a failed wave lost included; only an object
\* that can no longer append leaves them to its successor.
ExitSealsAll == pc \in Ended /\ usable => Active = {}

\* A lease whose result no thread will ever report (its group raised, or a sibling group or complete()
\* ended the wave) is only held while the loop still runs: it cannot stay leased unnoticed.
Lost(l) == /\ wave[l] # 0 /\ l \notin reported /\ wave[l] \notin alive
LostIsNoticed ==
    \A j \in Active : Lost(LeaseOf(j)) =>
        \/ wave_errors > 0 \/ why # "none"
        \/ pc \in Ended /\ ~usable

\* Shutdown is not tied to workers: once the stop event is set or a wave has failed the loop ends, though
\* every worker, wave and cancel call may hang; it is never left polling over a wave that died.
LoopEnds == stop_event \/ wave_errors > 0 ~> pc \in Ended

\* On a fleet that works the drain ends by itself, without its deadline and without being stopped:
\* neither the recount, nor an inherited lease, nor a lease canceled by others keeps it polling.
DrainEnds == <>(scope.Fleet => pc \in Ended)

\* Nothing is left behind: not by a drain that returns, not by a loop that ends in another way,
\* and not by a wave that fails while the loop goes on.
DispatchInv == TypeOK /\ DrainReturnsIdle /\ ExitSealsAll /\ LostIsNoticed

\* Both loops end: once they are told to, or a wave failed, and a drain of a working fleet by itself.
LoopsEnd == LoopEnds /\ DrainEnds

=============================================================================
