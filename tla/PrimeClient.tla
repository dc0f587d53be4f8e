----------------------------- MODULE PrimeClient -----------------------------
(***************************************************************************)
(* PrimeIntellectClient (integrations/primeintellect/client.py and         *)
(* _execution.py) on one request.  Several processes, each with a client   *)
(* of its own, execute the same request against one outbox; in each of     *)
(* them another thread may cancel it.  An execution replays or claims the  *)
(* row, creates a sandbox, runs the command, deletes the sandbox, commits  *)
(* the result and delivers it to the ledger sink; every step may fail, and *)
(* a process may die between any two.                                      *)
(***************************************************************************)
EXTENDS Naturals, FiniteSets, ExternalEvalOutbox

CONSTANT Scopes    \* what a behaviour is about: the fields below
ASSUME ScopesAssumption == \A c \in Scopes : c.MaxRetries \in Nat

VARIABLES
    pc,
    attempt, clean, fault, sent, result,    \* locals of the running execution
    requested, committed, active,           \* _cancellation_requested, _result_committed, _active_sandboxes
    box, cleanup, deletes,                  \* per sandbox: at the provider, ActiveSandbox, delete calls
    canceler,                               \* the thread inside cancel_request, and its sandbox
    paid, heard,                            \* sandboxes whose command the provider accepted; the sink
    acked, ran, returned,                   \* cancel returned True; the execution claimed; what it returned
    late, slow, crashes,
    scope                                   \* which of Scopes; it never changes

Sinkless == scope.Sinkless      \* processes whose client has no ledger sink
MaxRetries == scope.MaxRetries  \* max_retries
StoreFails == scope.StoreFails  \* TRUE: SQLite may fail a transaction

registryVars == <<requested, committed, active>>
localVars == <<attempt, clean, fault, sent, result>>
boxVars == <<box, cleanup, deletes>>
callVars == <<acked, ran, returned>>
faultVars == <<late, slow, crashes>>
vars == <<row, pc, localVars, registryVars, boxVars, canceler, paid, heard, callVars, faultVars>>

Sandboxes == Procs \X (1 .. MaxRetries + 1)
Success == [status |-> "success", cleanup |-> TRUE, retryable |-> FALSE]
Canceled(c) == [status |-> "canceled", cleanup |-> c, retryable |-> FALSE]
Failure(c, retryable) == [status |-> "error", cleanup |-> c, retryable |-> retryable]
Results == [status : {"success", "error", "canceled"}, cleanup : BOOLEAN, retryable : BOOLEAN]

ASSUME NoneAssumption == None \notin Procs /\ None \notin Procs \X Nat /\ None \notin Results

InFlight(p) == pc[p] # "idle"
Current(p) == <<p, attempt[p] + 1>>     \* the sandbox of the running attempt
NoThread == [at |-> "idle", box |-> None]

Goto(p, to) == pc' = [pc EXCEPT ![p] = to]

Init ==
    /\ scope \in Scopes
    /\ row = NoRow /\ pc = [p \in Procs |-> "idle"]
    /\ attempt = [p \in Procs |-> 0] /\ clean = [p \in Procs |-> TRUE]
    /\ fault = [p \in Procs |-> "none"] /\ sent = [p \in Procs |-> FALSE]
    /\ result = [p \in Procs |-> None]
    /\ requested = {} /\ committed = {} /\ active = [p \in Procs |-> None]
    /\ box = [s \in Sandboxes |-> "none"] /\ cleanup = [s \in Sandboxes |-> "no"]
    /\ deletes = [s \in Sandboxes |-> 0]
    /\ canceler = [p \in Procs |-> NoThread]
    /\ paid = {} /\ heard = {}
    /\ acked = {} /\ ran = {} /\ returned = [p \in Procs |-> None]
    /\ late = {} /\ slow = 0 /\ crashes = 0

-----------------------------------------------------------------------------
(* The ends of an execution: _end_task forgets the task; its locals are gone. *)

EndTask(p) ==
    /\ Goto(p, "idle")
    /\ requested' = requested \ {p} /\ committed' = committed \ {p}
    /\ active' = [active EXCEPT ![p] = None]
    /\ attempt' = [attempt EXCEPT ![p] = 0] /\ clean' = [clean EXCEPT ![p] = TRUE]
    /\ fault' = [fault EXCEPT ![p] = "none"] /\ sent' = [sent EXCEPT ![p] = FALSE]
    /\ result' = [result EXCEPT ![p] = None]

Return(p) == EndTask(p) /\ returned' = [returned EXCEPT ![p] = result[p]] /\ UNCHANGED <<acked, ran>>
Raise(p) == EndTask(p) /\ UNCHANGED callVars

\* A result is known; _commit_and_emit is next.
Publish(p, r) ==
    /\ result' = [result EXCEPT ![p] = r]
    /\ Goto(p, "publish") /\ UNCHANGED <<attempt, clean, fault, sent, registryVars, callVars>>

Stay(p, to) == Goto(p, to) /\ UNCHANGED <<localVars, registryVars, callVars>>

-----------------------------------------------------------------------------
(* execute_with_retries up to the claim. *)

\* execute_request and _begin_task. A cancel call of the previous execution that
\* is still running touches only the sandbox it holds: it is let finish first.
Begin(p) ==
    /\ pc[p] = "idle" /\ canceler[p] = NoThread
    /\ Goto(p, "replay")
    /\ acked' = acked \ {p} /\ ran' = ran \ {p} /\ returned' = [returned EXCEPT ![p] = None]
    /\ late' = late \ {p}
    /\ UNCHANGED <<row, localVars, registryVars, boxVars, canceler, paid, heard, slow, crashes>>

\* The claim carries the row's result.
Adopt(p) ==
    /\ result' = [result EXCEPT ![p] = row.result]
    /\ Goto(p, "adopt") /\ UNCHANGED <<attempt, clean, fault, sent, registryVars, callVars>>

\* _replay_outbox, before the mutable gates and again when one of them refused.
Replay(p) ==
    /\ pc[p] \in {"replay", "refused"}
    /\ \/ Replayable /\ Adopt(p)
       \/ Pending /\ Raise(p)
       \/ ~Replayable /\ ~Pending /\ (IF pc[p] = "replay" THEN Stay(p, "preflight") ELSE Raise(p))
       \/ StoreFails /\ Raise(p)
    /\ UNCHANGED <<row, boxVars, canceler, paid, heard, faultVars>>

\* _prepare_dispatch: offline mode, SDK, grants.
Preflight(p) ==
    /\ pc[p] = "preflight"
    /\ \E to \in {"claim", "refused"} : Stay(p, to)
    /\ UNCHANGED <<row, boxVars, canceler, paid, heard, faultVars>>

\* Mutant: an unfinished claim of another execution is taken over.
ClaimAgain(p) ==
    /\ pc[p] = "claim"
    /\ \/ Replayable /\ Adopt(p) /\ UNCHANGED row
       \/ /\ ~Replayable
          /\ row' = Claimed /\ ran' = ran \cup {p} /\ Goto(p, "loop")
          /\ UNCHANGED <<localVars, registryVars, acked, returned>>
    /\ UNCHANGED <<boxVars, canceler, paid, heard, faultVars>>
Claim(p) ==
    /\ pc[p] = "claim"
    /\ \/ Replayable /\ Adopt(p) /\ UNCHANGED row
       \/ Pending /\ Raise(p) /\ UNCHANGED row
       \/ /\ ~Replayable /\ ~Pending
          /\ row' = Claimed /\ ran' = ran \cup {p} /\ Goto(p, "loop")
          /\ UNCHANGED <<localVars, registryVars, acked, returned>>
       \/ StoreFails /\ Raise(p) /\ UNCHANGED row
    /\ UNCHANGED <<boxVars, canceler, paid, heard, faultVars>>

\* _deliver_replayed_result marks the result committed, then delivers it.
DeliverReplayed(p) ==
    /\ pc[p] = "adopt"
    /\ committed' = committed \cup {p} /\ Goto(p, "reserve")
    /\ UNCHANGED <<row, localVars, requested, active, boxVars, canceler, paid, heard, callVars, faultVars>>

-----------------------------------------------------------------------------
(* One provider attempt. *)

\* The head of the loop: canceled before the attempt, or a gate that closed since.
Loop(p) ==
    /\ pc[p] = "loop"
    /\ \/ p \in requested /\ Publish(p, Canceled(clean[p]))
       \/ p \notin requested /\ Stay(p, "gate")
    /\ UNCHANGED <<row, boxVars, canceler, paid, heard, faultVars>>

Gate(p) ==
    /\ pc[p] = "gate"
    /\ Stay(p, "create") \/ Publish(p, Failure(clean[p], FALSE))
    /\ UNCHANGED <<row, boxVars, canceler, paid, heard, faultVars>>

\* The request model is refused or the SDK is gone before anything was created.
CreateRefused(p) ==
    /\ pc[p] = "create"
    /\ \/ Publish(p, Failure(clean[p], FALSE))
       \/ Publish(p, IF p \in requested THEN Canceled(TRUE) ELSE Failure(FALSE, FALSE))
    /\ UNCHANGED <<row, boxVars, canceler, paid, heard, faultVars>>

\* client.create raised: SandboxCreationOutcomeUnknown, whether it created one or not.
CreateUnknown(p) ==
    /\ pc[p] = "create"
    /\ \E there \in {"none", "alive"} : box' = [box EXCEPT ![Current(p)] = there]
    /\ Publish(p, IF p \in requested THEN Canceled(FALSE) ELSE Failure(FALSE, FALSE))
    /\ UNCHANGED <<row, cleanup, deletes, canceler, paid, heard, faultVars>>

Create(p) ==
    /\ pc[p] = "create"
    /\ box' = [box EXCEPT ![Current(p)] = "alive"] /\ Stay(p, "register")
    /\ UNCHANGED <<row, cleanup, deletes, canceler, paid, heard, faultVars>>

RegisterSandbox(p) ==
    /\ pc[p] = "register"
    /\ active' = [active EXCEPT ![p] = Current(p)] /\ Goto(p, "wait")
    /\ UNCHANGED <<row, localVars, requested, committed, boxVars, canceler, paid, heard, callVars, faultVars>>

Faulted(p, f, to) ==
    /\ fault' = [fault EXCEPT ![p] = f]
    /\ Goto(p, to) /\ UNCHANGED <<attempt, clean, sent, result, registryVars, callVars>>

\* wait_for_creation, then get and the check of the allocation, each behind a
\* look at the cancellation flag.
Provision(p) ==
    /\ pc[p] \in {"wait", "get"}
    /\ \/ p \in requested /\ Stay(p, "cleanup")
       \/ p \notin requested /\ Stay(p, IF pc[p] = "wait" THEN "get" ELSE "check")
       \/ p \notin requested /\ Faulted(p, "provider", "cleanup")
       \/ p \notin requested /\ pc[p] = "get" /\ Faulted(p, "terminal", "cleanup")
    /\ UNCHANGED <<row, boxVars, canceler, paid, heard, faultVars>>

CheckCanceled(p) ==
    /\ pc[p] = "check"
    /\ Stay(p, IF p \in requested THEN "cleanup" ELSE "dispatch")
    /\ UNCHANGED <<row, boxVars, canceler, paid, heard, faultVars>>

\* execute_command is called: the provider accepts it unless the sandbox is gone.
Dispatch(p) ==
    /\ pc[p] = "dispatch"
    /\ sent' = [sent EXCEPT ![p] = TRUE]
    /\ paid' = IF box[Current(p)] = "alive" THEN paid \cup {Current(p)} ELSE paid
    /\ Goto(p, "running")
    /\ UNCHANGED <<row, attempt, clean, fault, result, registryVars, boxVars, canceler, heard, callVars, faultVars>>

\* ... and answers, times out (or its answer is refused later), or raises.
Command(p) ==
    /\ pc[p] = "running"
    /\ \E f \in {"none", "terminal", "provider"} :
          (f = "none" => Current(p) \in paid) /\ Faulted(p, f, "cleanup")
    /\ UNCHANGED <<row, boxVars, canceler, paid, heard, faultVars>>

-----------------------------------------------------------------------------
(* _cleanup_once, by the execution and by a cancel call: one of them deletes. *)

OwnsCleanup(s) == cleanup[s] = "no"

\* client.delete with its timeout; the outcome is recorded and the task forgets
\* the sandbox. A failed delete may have deleted it.
DeleteSandbox(p, s) ==
    /\ deletes' = [deletes EXCEPT ![s] = @ + 1]
    /\ \/ cleanup' = [cleanup EXCEPT ![s] = "ok"] /\ box' = [box EXCEPT ![s] = "gone"]
       \/ cleanup' = [cleanup EXCEPT ![s] = "failed"] /\ \E b \in {"alive", "gone"} :
             (b = "alive" => box[s] = "alive") /\ box' = [box EXCEPT ![s] = b]
    /\ active' = IF active[p] = s THEN [active EXCEPT ![p] = None] ELSE active

Cleanup(p) ==
    /\ pc[p] = "cleanup"
    /\ \/ OwnsCleanup(Current(p)) /\ cleanup' = [cleanup EXCEPT ![Current(p)] = "started"] /\ Stay(p, "delete")
       \/ ~OwnsCleanup(Current(p)) /\ Stay(p, "await") /\ UNCHANGED cleanup
    /\ UNCHANGED <<row, box, deletes, canceler, paid, heard, faultVars>>

Delete(p) ==
    /\ pc[p] = "delete"
    /\ DeleteSandbox(p, Current(p))
    /\ clean' = [clean EXCEPT ![p] = (cleanup'[Current(p)] = "ok")]
    /\ Goto(p, "exit")
    /\ UNCHANGED <<row, attempt, fault, sent, result, requested, committed, canceler, paid, heard, callVars, faultVars>>

\* The other thread's outcome, or a timeout.
Await(p) ==
    /\ pc[p] = "await"
    /\ \E c \in {cleanup[Current(p)] = "ok", FALSE} : clean' = [clean EXCEPT ![p] = c]
    /\ Goto(p, "exit")
    /\ UNCHANGED <<row, attempt, fault, sent, result, registryVars, boxVars, canceler, paid, heard, callVars, faultVars>>

-----------------------------------------------------------------------------
(* What the attempt comes to. *)

Retry(p) ==
    IF attempt[p] + 1 <= MaxRetries
      THEN /\ attempt' = [attempt EXCEPT ![p] = @ + 1]
           /\ fault' = [fault EXCEPT ![p] = "none"]
           /\ Goto(p, "loop")
           /\ UNCHANGED <<clean, sent, result, registryVars, callVars>>
      ELSE Publish(p, Failure(clean[p], TRUE))

ProviderFault(p, exitFails) ==
    IF ~clean[p] \/ sent[p] THEN Publish(p, Failure(clean[p], FALSE))
    ELSE IF exitFails THEN Publish(p, Failure(TRUE, TRUE)) ELSE Retry(p)

\* The client context closes (or fails to), and the tail of _execute_request_once.
Classify(p) ==
    /\ pc[p] = "exit"
    /\ \E exitFails \in BOOLEAN :
          \/ p \in requested /\ Publish(p, Canceled(clean[p]))
          \/ p \notin requested /\ fault[p] = "provider" /\ ProviderFault(p, exitFails)
          \/ p \notin requested /\ fault[p] = "terminal" /\ Publish(p, Failure(clean[p], FALSE))
          \/ p \notin requested /\ fault[p] = "none"
             /\ Publish(p, IF clean[p] THEN Success ELSE Failure(FALSE, FALSE))
    /\ UNCHANGED <<row, boxVars, canceler, paid, heard, faultVars>>

-----------------------------------------------------------------------------
(* _commit_and_emit and _deliver_committed_ledger. *)

\* Mutant: the flag is not read with the lock held.
LinearizeLate(p) ==
    /\ pc[p] = "publish"
    /\ committed' = committed \cup {p}
    /\ Goto(p, "commit")
    /\ UNCHANGED <<row, localVars, requested, active, boxVars, canceler, paid, heard, callVars, faultVars>>

\* The lock section that orders the result against cancellation.
Linearize(p) ==
    /\ pc[p] = "publish"
    /\ committed' = committed \cup {p}
    /\ result' = [result EXCEPT ![p] = IF p \in requested THEN Canceled(@.cleanup) ELSE @]
    /\ Goto(p, "commit")
    /\ UNCHANGED <<row, attempt, clean, fault, sent, requested, active, boxVars, canceler, paid, heard, callVars, faultVars>>

Commit(p) ==
    /\ pc[p] = "commit"
    /\ \/ /\ CommitAccepts(result[p]) /\ row' = Committed(result[p], p \notin Sinkless)
          /\ Stay(p, "reserve")
       \/ ~CommitAccepts(result[p]) /\ Raise(p) /\ UNCHANGED row
       \/ StoreFails /\ Raise(p) /\ UNCHANGED row
    /\ UNCHANGED <<boxVars, canceler, paid, heard, faultVars>>

\* Nothing to deliver, another process is delivering, or the lease is ours.
\* already_delivered, read with the result, only saves this look at the row.
Reserve(p) ==
    /\ pc[p] = "reserve"
    /\ \/ (p \in Sinkless \/ row.delivered) /\ Return(p) /\ UNCHANGED <<row, late>>
       \/ p \notin Sinkless /\ Reservable /\ row' = Reserved(p) /\ late' = late \ {p} /\ Stay(p, "sink")
       \/ p \notin Sinkless /\ ~row.delivered /\ ~Reservable /\ Raise(p) /\ UNCHANGED <<row, late>>
       \/ p \notin Sinkless /\ StoreFails /\ Raise(p) /\ UNCHANGED <<row, late>>
    /\ UNCHANGED <<boxVars, canceler, paid, heard, slow, crashes>>

\* The sink keys entries by attempt id; it may raise after it took the entry.
SinkTakes(p) ==
    /\ pc[p] = "sink"
    /\ heard' = heard \cup {row.result} /\ Stay(p, "ack")
    /\ UNCHANGED <<row, boxVars, canceler, paid, faultVars>>
SinkRaises(p) ==
    /\ pc[p] = "sink"
    /\ heard' \in {heard, heard \cup {row.result}} /\ Stay(p, "fail")
    /\ UNCHANGED <<row, boxVars, canceler, paid, faultVars>>

MarkSinkDelivered(p) ==
    /\ pc[p] = "ack"
    /\ \/ OwnsLease(p) /\ row' = Acknowledged /\ Return(p)
       \/ ~OwnsLease(p) /\ UNCHANGED row /\ (IF row.delivered THEN Return(p) ELSE Raise(p))
       \/ StoreFails /\ Raise(p) /\ UNCHANGED row
    /\ UNCHANGED <<boxVars, canceler, paid, heard, faultVars>>

RecordSinkFailure(p) ==
    /\ pc[p] = "fail"
    /\ \/ row' = IF OwnsLease(p) THEN Released ELSE row
       \/ StoreFails /\ UNCHANGED row
    /\ Raise(p) /\ UNCHANGED <<boxVars, canceler, paid, heard, faultVars>>

-----------------------------------------------------------------------------
(* cancel_request, in another thread of the process. *)

CancelRequest(p) ==
    /\ p \in scope.Cancels /\ InFlight(p) /\ p \notin committed /\ canceler[p] = NoThread
    /\ requested' = requested \cup {p}
    /\ IF active[p] = None
         THEN acked' = acked \cup {p} /\ UNCHANGED canceler
         ELSE canceler' = [canceler EXCEPT ![p] = [at |-> "cleanup", box |-> active[p]]] /\ UNCHANGED acked
    /\ UNCHANGED <<row, pc, localVars, committed, active, boxVars, paid, heard, ran, returned, faultVars>>

\* cancel_request returns what the cleanup came to, or raises if its own client fails.
CancelReturns(p, ok) ==
    /\ canceler' = [canceler EXCEPT ![p] = NoThread]
    /\ \E raised \in BOOLEAN : acked' = IF ok /\ ~raised /\ InFlight(p) THEN acked \cup {p} ELSE acked

CancelCleanup(p) ==
    LET s == canceler[p].box IN
    /\ canceler[p].at = "cleanup"
    /\ \/ OwnsCleanup(s) /\ cleanup' = [cleanup EXCEPT ![s] = "started"]
          /\ canceler' = [canceler EXCEPT ![p].at = "delete"] /\ UNCHANGED acked
       \/ ~OwnsCleanup(s) /\ canceler' = [canceler EXCEPT ![p].at = "await"] /\ UNCHANGED <<cleanup, acked>>
       \/ CancelReturns(p, FALSE) /\ UNCHANGED cleanup
    /\ UNCHANGED <<row, pc, localVars, registryVars, box, deletes, paid, heard, ran, returned, faultVars>>

CancelDelete(p) ==
    LET s == canceler[p].box IN
    /\ canceler[p].at = "delete"
    /\ DeleteSandbox(p, s) /\ CancelReturns(p, cleanup'[s] = "ok")
    /\ UNCHANGED <<row, pc, localVars, requested, committed, paid, heard, ran, returned, faultVars>>

CancelAwait(p) ==
    /\ canceler[p].at = "await"
    /\ \E ok \in {cleanup[canceler[p].box] = "ok", FALSE} : CancelReturns(p, ok)
    /\ UNCHANGED <<row, pc, localVars, registryVars, boxVars, paid, heard, ran, returned, faultVars>>

-----------------------------------------------------------------------------
(* The environment. *)

Delivering(p) == pc[p] \in {"sink", "ack", "fail"}

\* A lease runs out: of a process that died, or under a delivery that takes longer.
Expire ==
    /\ row.token # None /\ ~row.expired
    /\ row' = Lapsed
    /\ IF Delivering(row.token)
         THEN slow < scope.MaxSlow /\ slow' = slow + 1 /\ late' = late \cup {row.token}
         ELSE UNCHANGED <<slow, late>>
    /\ UNCHANGED <<pc, localVars, registryVars, boxVars, canceler, paid, heard, callVars, crashes>>

Crash(p) ==
    /\ InFlight(p) /\ crashes < scope.MaxCrashes
    /\ crashes' = crashes + 1
    /\ EndTask(p) /\ canceler' = [canceler EXCEPT ![p] = NoThread]
    /\ UNCHANGED <<row, boxVars, paid, heard, callVars, late, slow>>

-----------------------------------------------------------------------------
Step(p) ==
    \/ Replay(p) \/ Preflight(p) \/ Claim(p) \/ DeliverReplayed(p)
    \/ Loop(p) \/ Gate(p) \/ CreateRefused(p) \/ CreateUnknown(p) \/ Create(p) \/ RegisterSandbox(p)
    \/ Provision(p) \/ CheckCanceled(p) \/ Dispatch(p) \/ Command(p)
    \/ Cleanup(p) \/ Delete(p) \/ Await(p) \/ Classify(p)
    \/ Linearize(p) \/ Commit(p) \/ Reserve(p) \/ SinkTakes(p) \/ SinkRaises(p)
    \/ MarkSinkDelivered(p) \/ RecordSinkFailure(p)

CancelStep(p) == CancelRequest(p) \/ CancelCleanup(p) \/ CancelDelete(p) \/ CancelAwait(p)

Next ==
    /\ \/ \E p \in Procs : Begin(p) \/ Step(p) \/ CancelStep(p) \/ Crash(p)
       \/ Expire
    /\ scope' = scope

\* Every call an execution makes ends or times out; a cancel call may hang.
ExecutionsRun == \A p \in Procs : WF_vars(Step(p))

\* In some scopes the request is executed again and again, cancel calls end, an
\* abandoned lease runs out and the sink does not raise forever.
RequestIsRetried ==
    /\ WF_vars(scope.Retried /\ Expire)
    /\ \A p \in Procs : /\ WF_vars(scope.Retried /\ Begin(p)) /\ SF_vars(scope.Retried /\ SinkTakes(p))
                        /\ WF_vars(scope.Retried /\ (CancelCleanup(p) \/ CancelDelete(p) \/ CancelAwait(p)))

Spec == Init /\ [][Next]_<<vars, scope>> /\ ExecutionsRun /\ RequestIsRetried

-----------------------------------------------------------------------------
(* Properties. *)

Points == {"idle", "replay", "refused", "preflight", "claim", "adopt", "loop", "gate", "create", "register",
           "wait", "get", "check", "dispatch", "running", "cleanup", "delete", "await", "exit", "publish",
           "commit", "reserve", "sink", "ack", "fail"}

\* Every variable has its type, and only a completed row of the outbox has a
\* result, a delivery mark or a delivery lease.
TypeOK ==
    /\ row \in [state : {"none", "claimed", "completed"}, result : Results \cup {None}, delivered : BOOLEAN,
                token : Procs \cup {None}, expired : BOOLEAN]
    /\ (row.state = "completed") = (row.result # None)
    /\ row.delivered \/ row.token # None => row.state = "completed"
    /\ ~(row.delivered /\ row.token # None)
    /\ pc \in [Procs -> Points]
    /\ attempt \in [Procs -> 0 .. MaxRetries] /\ clean \in [Procs -> BOOLEAN]
    /\ fault \in [Procs -> {"none", "provider", "terminal"}] /\ sent \in [Procs -> BOOLEAN]
    /\ result \in [Procs -> Results \cup {None}] /\ returned \in [Procs -> Results \cup {None}]
    /\ requested \subseteq Procs /\ committed \subseteq Procs /\ acked \subseteq Procs /\ ran \subseteq Procs
    /\ active \in [Procs -> Sandboxes \cup {None}]
    /\ box \in [Sandboxes -> {"none", "alive", "gone"}]
    /\ cleanup \in [Sandboxes -> {"no", "started", "ok", "failed"}]
    /\ paid \subseteq Sandboxes /\ heard \subseteq Results /\ late \subseteq Procs

\* execute_with_retries, "without retrying ambiguous paid work": whatever races,
\* fails or dies, the request is claimed first, one command at most is paid for,
\* the result never changes and the sink hears that result only.
Evaluation == INSTANCE PaidEvaluation WITH
    Verdicts <- Results, Undecided <- None,
    claimed <- row.state # "none", commands <- Cardinality(paid), verdict <- row.result, heard <- heard
Implements == Evaluation!Spec

\* RemoteCleanupOutcome.succeeded: a committed result that reports its cleanup
\* as done leaves no sandbox running, of any of its attempts.
CleanupHonest == Replayable /\ row.result.cleanup => \A s \in Sandboxes : box[s] # "alive"

\* RemoteExecutionResult.retryable: the scheduler runs such a job again, so no
\* command was dispatched for it and nothing of it still runs.
RetryableIsUnpaid ==
    Replayable /\ row.result.retryable => paid = {} /\ \A s \in Sandboxes : box[s] # "alive"

\* docs/remote-execution-sessions.md: "execution cleanup and concurrent
\* cancellation share one exactly-once delete outcome".
DeletedOnce == \A s \in Sandboxes : deletes[s] <= 1

\* A cancel call that returned True is honoured by the execution it was for: if
\* that execution ran the request itself, it returns a canceled result.
AckedCancelEnds ==
    \A p \in acked \cap ran : returned[p] # None => returned[p].status = "canceled"

\* Once a cancel call returned True, its execution dispatches no command that a
\* sandbox would run: neither from before the sandbox existed nor from between
\* the last look at the flag and the call. (A sandbox whose delete failed is
\* forgotten by the task, and cancel_request then returns True for nothing.)
CanceledIsNotPaid == [][\A s \in paid' \ paid : s[1] \in acked => cleanup[s] = "failed"]_vars

\* A process that delivers within its lease is the one the row names: a process
\* that lost its lease neither releases nor acknowledges for it.
LeaseIsHeld == \A p \in Procs \ late : Delivering(p) => row.token = p

\* A row becomes delivered only after the sink took its entry, or when a client
\* without a sink commits it; a sinkless replay of another's row settles nothing.
SettledIsHeard ==
    [][~row.delivered /\ row'.delivered =>
          heard # {} \/ (row.state = "claimed" /\ \E p \in Sinkless : pc[p] = "commit")]_vars

\* Every execution ends, although the cancel call it shares the cleanup with may
\* hang: the wait for the other thread's delete has a timeout.
ExecutionEnds == \A p \in Procs : InFlight(p) ~> ~InFlight(p)

\* A committed result reaches the ledger: when the committer dies or its sink
\* raises, later executions of the request deliver what it left.
EventuallyDelivered == scope.Retried /\ row.state = "completed" ~> row.delivered

\* What holds of one request's row, sandboxes and cancel calls at every moment.
ClientInv == /\ TypeOK /\ CleanupHonest /\ RetryableIsUnpaid /\ DeletedOnce
             /\ AckedCancelEnds /\ LeaseIsHeld

\* What an execution does in time: it ends, pays for nothing once a cancel was acknowledged, and
\* its committed result is delivered, and settled only when it was.
ExecutionsSettle == CanceledIsNotPaid /\ SettledIsHeard /\ ExecutionEnds /\ EventuallyDelivered

=============================================================================
