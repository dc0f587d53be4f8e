# autocontext: TLA+ models and proofs

This directory holds the formal models of autocontext: TLA+ modules for the parts
of the system whose correctness depends on interleavings, crashes and retries, the
TLC configurations that check them on small instances, and TLAPS proofs of what
matters for every instance.  Paths below are relative to
`src/autocontext/src/autocontext/` unless they start with `ts/` or `docs/`.

`PROJECT.json` records, for each definition, the lines it translates; for each
run, its properties; for each property, a mutation of the model that it catches;
and the hazards the properties are about, each at its line.

## 1. Inventory

| Component | State it keeps | Operations | Interacts with | What is hard |
|---|---|---|---|---|
| Campaign scheduler (`execution/campaign_scheduler.py`, `_replay`, `_cancellation`, `_models`) | jobs, leases and their history, workers, budgets, cohorts, evidence grants; all of it the replay of one event log | configure, register, heartbeat, grant, enqueue, claim, complete, cancel, reconcile | event store, workers, auditor | several objects and processes on one log; results after expiry; a cancel made without the lock; restart |
| Event store (`_store`) | one JSONL file and a lock file | append, read with repair | scheduler, runtime builder | torn appends, an append that raises after writing, power loss, stale writers |
| Dispatch loops (`_dispatch`, `_cancellation`) | wave threads, an error queue, cancel threads | `run_scheduler_service`, `run_scheduler_until_idle`, `cancel_active_jobs` | claim, complete, reconcile, workers | idle decision between waves, one failing group, shutdown with workers that hang |
| Runtime builder (`_runtime`) | none; writes configuration, plan fingerprint and jobs to the log | build | scheduler, store | crash between its events, builders of other plans |
| External evaluation outbox (`execution/external_eval_outbox.py`) | one SQLite row per request | replay, claim, commit, reserve, deliver | Prime client, ledger sink | paid work and its record across crashes |
| Prime Intellect client (`integrations/primeintellect/`) | active sandboxes, cancellations, results | execute with retries, cancel, clean up | outbox, provider | cancel against success, ambiguous creation, cleanup shared by threads |
| Context bundles (`context_bundles/`) | bundles, candidates, active pointer, evidence, risk and fixture reservations | propose, evaluate, confirm, promote, reject, roll back, roll over | generation loop, evaluators | multi-file transactions, sibling promotions, alpha spent once |
| Task queue and runner (`storage/sqlite_store_task_queue.py`, `execution/task_runner.py`, `ts/src/execution/task-runner.ts`) | task rows | enqueue, claim, complete, fail, sweep | workers of two languages | competing runners, crash while running |
| Ambient daemon (`ambient/`, `training/model_registry.py`) | model records, serving manifest, usage ledger | train, evaluate, promote | charter, judge | crash between writes, one-shot stages beside the daemon |
| Missions (`mission/`) | mission, subgoals, steps, verifications, checkpoints | run, pause, resume, cancel, restore | executor, verifier | check and write in separate statements |
| Mission campaigns (`ts/src/mission/campaign*.ts`) | campaign, members, dependencies | add, remove, transition, reconcile on read | missions | derived status written back from stale reads |
| Run server (`server/run_manager.py`, `_run_process_monitor.py`, `harness/core/controller.py`) | the run, its child process, monitor, relay and reaper threads, one controller | start, stop, pause, hint, chat, shut down | child over IPC, subscribers, database | children that cannot be killed, subscribers that block, commands against the end of a run |
| Generation loop (`loop/generation_runner.py`, `run_reentry.py`) | run and generation rows | enter, recover, run, stop, complete | run server, SQLite | re-entry after a crash, two processes on one run |
| Playbook approval (`storage/playbook_approval.py`, `harness/storage/versioned_store.py`) | live playbook, archived versions, the pending pair | stage, approve, reject, archive | runs, operators | files without a lock |
| Evaluator epochs (`execution/evaluator_epoch*.py`) | one record per epoch, marks on scores | observe, promote, reject | runs, reviewers | several files and a database, crash in between |
| Audits, adapters, codecs; TypeScript port beyond the above | | | | see section 6 |

What makes each correct is the list of properties in section 3.

## 2. Modules

| Module | Models |
|---|---|
| `CampaignLog` | the abstract log: a sequence that only an object which has applied all of it may extend |
| `CampaignEventStore` | the JSONL file: lines, tail, lock, fsync, repair, failures; refines `CampaignLog` |
| `CampaignScheduler`, `CampaignAccounting` | all scheduler operations and the replay of their events; what reservations and consumption add up to |
| `CampaignDispatch` | both dispatch loops, their waves and cancel threads, over a reduced job table |
| `CampaignRuntime` | builders of one campaign's runtime on one log |
| `ExternalEvalOutbox`, `PrimeClient` | the outbox row as a record with an operator per method; executions, cancels and deliveries that use it |
| `PaidEvaluation` | the abstract promise of the two: claimed before paid, at most one command ever dispatched, one verdict written once, and the sink hears only that verdict; `PrimeClient` refines it |
| `ContextBundles` | store, coordinators and campaign reservations |
| `TaskQueue`, `TaskRunner` | the statements on the table; the loops that use them |
| `AmbientTrainer` | the three stages, the daemon, one-shot stages |
| `MissionLifecycle`, `Mission`, `MissionCampaign` | the transition table; one mission; one campaign over missions |
| `LoopController`, `RunServer` | the controller as a record; manager, child, monitor, relay, reapers, clients |
| `GenerationLoop`, `PlaybookGate`, `EpochRegistry` | one run's rows; the playbook's files; the epochs of a scenario |
| `CampaignService`, `StoredWork`, `Generations` | what is run or kept together: a dispatch loop, the builder of its runtime and its event file; missions, their campaigns and the task queue; a run, the playbook and the epochs of a scenario |
| `CampaignServiceProofs`, `CampaignSchedulerProofs`, `StoredWorkProofs`, `ContextBundlesProofs`, `PrimeClientProofs`, `GenerationsProofs`, `AmbientTrainerProofs`, `RunServerProofs` | the proofs |
| `MC*` | instances: the constants of the runs, and components that share a run |

### Conventions

*Atomicity.*  What the code does under a lock or in one SQLite statement or transaction
is one action; everything else (each file operation, each statement of a sequence, each call
between two lock regions) is a step of its own with a program counter, and a process may die
between any two.  State a process has read and uses later is in its local record
(`loc`, `snap`, `held`, `seen`), so that it can be stale.

*Time.*  Deadlines and timeouts are nondeterminism: what waits for one may go on at any time.
A lease or a stale threshold is whether it has passed.

*Scopes.*  Most modules take a constant `Scopes`, a set of records of
bounds and participants (the proofs are for any such set); the variable `scope` is chosen in `Init` and never changes, so one run
covers several instances (one process at a time, two at once, with crashes, with a second backend,
...).  A property that holds only in some of them says so in its first conjunct, and section 5
says what happens in the others.  The scopes are in the MC modules.  Where two components share a
run, each behaviour belongs to one of them and the other's scope is empty.

*Mutants.*  A definition commented "Mutant:" stands before the definition it would replace.

### How the scheduler model corresponds to the code

`CampaignScheduler._record` appends an event and only then applies it; a new object
replays the log.  All objects that have applied the whole log are therefore in the
same state, and the variables of `CampaignScheduler` are that state, under the names
of the code (`_leases` is `leases`, `_JobState.status` is `status`, and so on).
`synced` is the set of objects that have applied everything.  `Record(i)` is an
append by object `i`: it needs `i \in synced` and leaves either `{i}` (the append
returned) or `{}` (it raised after the line was written).  An object that is not
synced gets `StaleCampaignSchedulerError`, changes nothing, and stays so until it is
constructed again (`Restart`).  That the file really behaves like this is what
`CampaignEventStore` shows by refining `CampaignLog`.

`claim`, `reconcile` and `cancel_active_jobs` append inside a loop, so each iteration is
an action.  `FirstVisited` keeps the order in which `claim` visits jobs.  `cancel` is split
where it releases the lock.  `complete` is four actions, one per event it may append; calls
that append nothing are stuttering steps.  A lease id is the pair of job and attempt it is
issued for; resources are one number; budgets are functions over the dimensions `Dims`; a result
is its outcome, whether it may be retried, and what it consumed; `charge` is a history
variable.  Counters that only `report()` reads, and events of older logs, are left out.

`CampaignDispatch` keeps of a job its status, attempts and whether its lease expired, and of a
claim only that it takes runnable jobs while there is concurrency, or ends one that has no budget.
`CampaignRuntime` has the log as a sequence of events and `Append1` as `Record` in the scheduler.  Its jobs are compared
with a plan's by rank (`Follows`): the n-th event that enqueues a job has the plan's n-th.

`CampaignService`, `StoredWork` and `Generations` put components beside each other whose states are disjoint in the code
(`CampaignService`: the loop and the builder are modelled over an abstract log, so they share no variable with the file).
They declare the variables of all of them and no action of their own; a run steps the components it is about, and the theorems
are about each component's own specification.

### How the event store model corresponds to the code

An `append` is `BeginAppend` (lock, read and repair, compare sequence numbers), any of
`WritePart`, `WriteRecord` and `WriteLine` (how far `os.write` got), then `Acknowledge`
(`fsync` returned) or `AppendRaises`.  `RefuseStale` is the sequence mismatch; it repairs
the file all the same.  `Crash` ends one process, whose writes the operating system keeps
and whose advisory lock it drops; `PowerLoss` ends all and may cut the file anywhere after what
was fsynced.  Repair is one step: a crash inside it leaves a file that is also reached
by a crash before it or by an append that raised.

### The other modules

- `PrimeClient`: `execute_with_retries` is replay, gates, claim, attempts, commit, delivery, each a
  step; an attempt is create, register, dispatch, fetch, cleanup.  `cancel_request` is a second
  thread of the process.  The provider may fail before or after it did what was asked.  `row` is
  the outbox row, in SQLite and thus shared.
- `ContextBundles`: the coordinator `co[p]` walks `promotion.py`; each durable file (pointer,
  record, trials, marker, ledger, reservations) is a variable and each write a step.  A comparison is
  reduced to wins, losses and how many pairs each lane has.
- `TaskRunner`: both runners claim a batch one row at a time and run its tasks at the same time; the Python
  one counts the threads that returned, the TypeScript one the tasks it claimed.
- `AmbientTrainer`: records are files; every write puts back the record as it was listed.
- `Mission`: a run is a loop of budget check, step, subgoal, verification, completion.  Restores load a
  checkpoint collected table by table.
- `RunServer`: `Outcomes` is what `_terminate_run_process` can achieve; `Finalize`, `Retain` and
  `RetainRelay` are the three ways out of a cleanup.
- `GenerationLoop`: the pipeline is what it leaves in the generation's row.
- `PlaybookGate`, `EpochRegistry`: one step per file; a pruner lists the versions in one step and removes them by that list, one
  step each, failing where one is gone.

## 3. Runs

| Run | Instances | States | Shows |
|---|---|---|---|
| `event_log` | 2 objects, 2 events, log of 3; builders of two plans, from empty and from legacy logs | 118k | prefixes, durability and refinement of `CampaignLog`; one plan per log, jobs only after the plan, retried builds succeed |
| `scheduler` | 2 objects that may die, 1 job of 2 attempts, fairness | 81k | every lease settled once, late results counted once and never scored, finished jobs stay; cancellations end, expired leases are handled |
| `budgets` | *attempts*: 2 jobs with retries and wall time; *budget*: 2 branches, 2 grants; *cohort*: 2 workers, 3 descriptors | 476k | reservations and consumption add up, no order of claims, refunds and grants exceeds a limit, one environment per cohort, concurrency |
| `dispatch` | *Drain*, *Serve*, *Fleet* (workers that do return) | 764k | the drain returns only when idle, an exit seals all leases, a lost lease is noticed, loops end although a worker hangs |
| `prime` | *Failing* (provider errors), *Slow* (leases expire), *Redelivered* (deliveries fail and are retried) | 152k | refinement of `PaidEvaluation`, honest cleanup, one delete per sandbox, a retryable failure was not paid, acknowledged cancels end, delivery happens |
| `bundles` | *Promotion*, *SharedFixtures*, *Lineage*, *Evidence*; symmetric coordinators | 1.17M | what is served earned it, dismissed candidates stay out, alpha and fixtures are spent once, evidence is kept |
| `bundles_settle` | *Together*, *Alone*, with retries | 267k | a candidate whose coordinator is retried does not stay pending |
| `queue` | a Python and a TypeScript runner, fairness | 212k | attempts bounded and distinct, dead letters spent, ended rows final, every task ends |
| `ambient` | *Alone*, *Closed* (charter edits), *Once* (one-shot stages) | 406k | one live model, routed before it is active, only better ones promoted, within budget, served again after a crash |
| `missions` | mission: *Serial*, *Shared*, *Dying* (crashes), *Asked*; campaign: *Adding*, *Moving* | 360k | completion verified and final, steps within budget and accounted; dependencies acyclic and of members; missions settle, campaigns catch up |
| `run_server` | *Stubborn* (unkillable children), *Chatting*, *Stalling* (blocked subscribers), *Steered*, *Released* | 1.36M | one child, nothing of a run reaches another, no committed value lost, everything released in the end |
| `generations` | run: *Serial*, *Shared*, *Settles*; playbook: *Racing*, *Crashing*, *Versioned*; epochs: *Reviewed*, *Calibrated*, *Dying* | 1.16M | re-entered runs complete once and stop for good; a held update is one update and goes live as approved; only reviewed epochs score |

A property that a run names may stand for several, which its definition lists:

| Property | Parts |
|---|---|
| `StoreInv` | `TypeOK`, `ViewsArePrefixes`, `AcknowledgedSurvive`, `HolderIsCurrent` |
| `RuntimeInv` | `TypeOK`, `OnePlanPerLog`, `JobsFollowPlan`, `BuiltIsPlanned` |
| `SchedulerInv` | `TypeOK`, `AttemptsLeft`, `LeaseIndexesAgree`, `EveryLeaseSettled`, `LateCountedOnce`, `ScoredResultIsLastAttempt` |
| `LeasesEnd` | `CancelingEnds`, `ExpiredLeaseHandled` |
| `AccountsAddUp`; `LimitsHold` | `ReservedIsHeld`, `ConsumedIsLedger`; `AdmittedWithinLimit` (in *budget*), `GlobalConcurrency` (in *cohort*) |
| `DispatchInv`; `LoopsEnd` | `TypeOK`, `DrainReturnsIdle`, `ExitSealsAll`, `LostIsNoticed`; `LoopEnds`, `DrainEnds` |
| `ClientInv` | `TypeOK`, `CleanupHonest`, `RetryableIsUnpaid`, `DeletedOnce`, `AckedCancelEnds`, `LeaseIsHeld` |
| `ExecutionsSettle` | `CanceledIsNotPaid`, `SettledIsHeard`, `ExecutionEnds`, `EventuallyDelivered` |
| `BundleInv`; `SpentOnce` | `TypeOK`, `ServedIsEarned`, `ServedIsNotRejected`; `FixturesFresh`, `AlphaSpentOnce` |
| `DecisionsStand` | `DismissedStaysOut`, `SupersededIsOnlyRestored`, `EvidenceIsKept` |
| `QueueInv` | `TypeOK`, `AttemptsBounded`, `FailedIsSpent`, `AttemptWasHandedOut`, `AttemptsAreDistinct`, `WorkerHasRow`, `StaleIsUnheld` |
| `TrainerInv`; `ServingHolds` | `TypeOK`, `OneLive`, `ActiveIsRouted`, `WithinBudget`; `PromotionImproves`, `ServedAgain` |
| `MissionInv`; `MissionEnds` | `TypeOK`, `CompletedIsVerified`, `StepsWithinBudget`, `SubgoalsAreAccounted`; `MissionSettles`, `CompletedIsFinal` |
| `CampaignInv`; `CampaignFollows` | `TypeOK`, `CanBeOrdered`; `AddedDependsOnMembers`, `StatusCatchesUp` |
| `ServerInv`; `SteeringInv` | `TypeOK`, `OneChild`, `ReleasedIsRepaired`, `RelayIsOver`; `WaitingIsHeld`, `AnsweredByItsRun`, `SteeredByItsOwn`, `NoValueLost` |
| `LoopInv`; `RunEnds` | `TypeOK`, `CompletedIsDone`, `OneReceipt`, `NothingLeftRunning`; `StoppedIsFinal`, `RunSettles` |
| `GateInv`; `DecisionsGoLive` | `TypeOK`, `PairIsOne`, `HeldIsThere`, `LessonsAreOfTheLive`, `FewAreKept`; `ApprovedIsLive`, `ReplacedIsArchived`, `NewestStays` |
| `EpochInv` | `TypeOK`, `OneActive`, `TrustedWasReviewed`, `PriorScoresCleared` |

Each run finishes in less than three and a half minutes with two workers.

**Bounds.**  Every bound is a constant or a field of a scope, and stands in a guard; no
constraint cuts the state space.  They are the least at which the cases happen: two attempts, so that a result
can be late for a lease that was superseded; two objects, processes or operators, so that one acts
on what the other has changed; two jobs, so that one reservation holds another back; two crashes
where recovery itself may be interrupted and one elsewhere; one more playbook version than is
kept, twice over, so that pruning repeats; two epochs and two calls, so that an approved
candidate replaces one that was itself promoted (two runs can make no more than two of them known).  Worker results include more and less than was reserved, and
`LeaseWalls` a value above the reserved wall time, so that refunds go both ways.  The *budget* setup
starts from a log with the limits configured, as the runtime builder leaves it.  Each fault has a bound of
its own (`MaxCrashes`, `MaxFailures`, `MaxSlow`, ...).  `prime` has no expiring lease in
*Redelivered*: two processes can take an expiring lease from each other for ever.

**Fairness.**

- `scheduler`: time passes (a lease expires or is heartbeated: weak fairness of that choice); a
  service polls, hence strong fairness of `Poll(j)`, for heartbeats may revive a lease between two polls;
  when no object can append, one is constructed again.  Nothing is assumed of workers.
- `event_log`: a builder that died or was refused as stale is started again (`RetriesSucceed`).
- `dispatch`: the loop's own threads run.  Workers return only in *Fleet*, so `LoopEnds` holds with
  workers that never do and `DrainEnds` where they do.
- `prime`: a started execution goes on; in the scope that redelivers, the caller asks again.
- `bundles_settle`: a coordinator goes on, and a candidate that is still pending is retried again and
  again (strong fairness: between two retries a sibling may promote).
- `queue`: runners are started again, threads go on, backoffs and stale thresholds pass.
- `ambient`, `missions`, `generations`: the daemon, the campaign's reader, the resumed worker and the promoters go on, and are
  launched again after a crash.  Operators, one-shot stages and other processes need not do anything.
- `run_server`: in *Released*, threads go on, the child dies once it is killed often enough, and a blocked
  subscriber returns.  The code waits for exactly these.

## 4. Proofs

A proof module `XProofs` extends `X` and holds the theorems of its components, for every value of the
constants (`CampaignSchedulerProofs` extends `CampaignAccounting`): any number of processes, jobs, records, faults, and any scopes.  Each follows the same plan: an
inductive invariant that TLC checked first, a lemma for each operation, a frame lemma that says what has to be
shown of a step of one process for the invariant to hold of all, and the theorem by `PTL`.  What the constants are
assumed to be is the `ASSUME` of the module that declares them: `None` is none of the values it stands
beside, bounds are numbers, sets of participants are finite where the code counts them; what more is assumed is named
below.  TLC evaluates them in every run.  Every safety invariant and every action property of the runs is proved.

`CampaignServiceProofs`

- `StoreSafe` (`StoreInv`): `TypeOK`, `ViewsArePrefixes`, `AcknowledgedSurvive`, `HolderIsCurrent`.  The
  invariant needs all four together.  `ViewsArePrefixes` is preserved by an append
  because the holder had applied exactly the lines (`HolderIsCurrent`), which the comparison of
  *lengths* gives only because every view is a prefix; and a power loss cannot cut an
  acknowledged event because what is acknowledged is at most what is `flushed`.
  `ViewsStayPrefixes` states its second part alone.
- `StoreImplementsLog`: each step is a step of `CampaignLog` or changes none of its variables,
  under the mapping `log <- Repaired`, `synced <-` the objects whose memory equals it.
- `DispatchSafe` (`DispatchInv`).  Waves are threads that the loop counts, so that the invariant relates three countings: waves are
  numbered in the order in which they start, end once and leave one error at most (`WavesOK`, by which the loop's comparison of
  errors and waves means something); the groups that ended are of leases that were dispatched (`GroupsOK`); and a lease that nobody
  will report has left an error or has ended the loop (`LostOK`).  `LoopOK` says what survives between the loop's looks: past the one
  at the errors, an error can only come from a wave that the loop still waits for, which is why a drain may return.
- `RuntimeSafe` (`RuntimeInv`).  A builder reads the store, and appends later.  What it read is of use only as long as it has
  applied the whole log, and then the append would be refused otherwise: in place "bind" its plan fits the jobs in
  the log *if* no plan is bound and it is not stale (`BuilderOK`).  Two steps of the argument are about the model's operators: the ranks of
  the jobs in a log are the numbers up to their count (`EveryRank`, from an injection between finite sets of one size), so a
  builder that has its first n jobs in the log, and not the next, is where the log ends (`NextJob`).  Assumed of the inputs:
  a plan's idempotency keys are unique (`CampaignSchedulerRuntimePlan` refuses others) and a log without a plan was configured once
  at most.

`CampaignSchedulerProofs`

- `SchedulerSafe` (`SchedulerInv`): `TypeOK`, `LeaseIndexesAgree`, `EveryLeaseSettled`, `LateCountedOnce`,
  `ScoredResultIsLastAttempt`, and `AttemptsLeft`: a queued
  job has attempts left, which is why `claim` may take `attempts + 1` unchecked (so that
  a fresh lease is in no index) and why `TypeOK` bounds attempts by `max_attempts`.
  `IndexesStayConsistent`, `LateResultsCountOnce` and `LastAttemptScores` state its parts.
- `FinishedJobsStay` (`TerminalIsFinal`) and `FinalChargesStay` (`FinalChargeIsFinal`), from the same
  invariant: only a job with a lease, or a queued one, changes status, and only a provisional
  settled lease is charged anew.
- `CohortsStayMatched` (`MatchedCohort`): the cohort's record keeps the environment of its first lease and the lane
  of its first job (`EnvironmentsKept`, `LanesKept`), and every claim and submission is compared with it.
- `InheritedLeasesAreWaitedFor` (`InheritedLeaseNotReissued`).  As it stands it is not inductive: when the attempt is
  counted by the next claim, the lease was requeued some steps before.  `PassedOnResult` says of a lease that is no longer
  its job's latest, or whose job is queued again, that it ended with its own result if every object inherited it.

- `ConcurrencyNeverExceeds`: `GlobalConcurrency`.  A claim compares `max_concurrency` with what the workers' indexes hold, the
  bound is on the leases that exist; `IndexesCoverLeases` joins the two.
- `AccountsBalance` (`AccountsAddUp`): reservations are those of held leases, consumption is the charges and grants, for every
  account.  The code subtracts with a clamp at zero, so the induction has to show that nothing is ever subtracted from less.
  `RefundIsCharge` does for the refund of a late result: a provisional charge is what was charged, at least as much as the
  reservation, and an unsettled lease is charged nothing.  The sums are not folds: `SumOver` counts units (pairs of a lease and one of
  the numbers up to its amount), so that adding, removing and replacing a summand are facts about finite sets
  (`SumAdd`, `SumRemove`, `SumReplace`), which need no induction over data.
- `LimitsAreKept`: `AdmittedWithinLimit`, from any configuration of limits when none follows it (`Configurations = {}`; a limit
  lowered below what has been admitted is exceeded at once, in the code as well).

There is one lemma per operation (`EnqueueStep`, `ClaimStep`,
`CompleteStep`, `CancelStep`, `ReconcileStep`, ...).  The ways in which a lease ends share `Settle`, so
`SettleStep` is proved once, and `Restatus` says which changes of status keep the rest of the
invariant.

`StoredWorkProofs`

- `MissionSafe` (`MissionInv`).  A mission is written in separate statements by processes that read it before, so `LocalOK` says
  what each may still rely on: nobody but a run with a passing verification sets "completed", and a runner that looked at the budget may
  add one step.  `BudgetOK` therefore counts steps and runners past their look together.  A checkpoint is collected table by
  table; its invariant (`ShotOK`, `CheckpointOK`) needs the order in which `save_checkpoint` reads them: verifications come last and can
  only have gained a pass.  `AccountOK` counts, beside the closed subgoals, the step that is about to be marked as failed and the
  one that is about to be recorded.
- `MissionCompletedIsFinal` (`CompletedIsFinal`): one process at a time, the status is as it was read (`SerialOK`).
- `MissionCampaignSafe` (`CampaignInv`) and `AddedDepends` (`AddedDependsOnMembers`).  Check and insert are two statements, and two callers
  may be between them; what a caller validated stays true because members only come (`WantOK`), and the one that inserts last waits
  for nobody who waits for it, since dependencies stay within the members (`Within`).
- `QueueSafe` (`QueueInv`): `TypeOK`, `AttemptsBounded`, `FailedIsSpent`,
  `AttemptWasHandedOut`, `AttemptsAreDistinct`, `WorkerHasRow`, `StaleIsUnheld`.  Attempts are distinct
  because an execution's attempt is at most its row's counter (`AttemptWasHandedOut`), and a claim is
  the only statement that raises it; `StaleIsUnheld` (before a task outlives the threshold, a
  stale row has no worker) is what keeps the sweep from taking a row from its worker, and so gives
  `WorkerHasRow`.
- `DeadLettersAreSpent`, `ClaimsAreExclusive` and `RunnerOwnsRow` state its parts;
  `EndedStaysEnded` (`EndedIsFinal`) is the action property that follows: the unguarded
  `UPDATE` of a completion or a failure finds its own row running.

`ContextBundlesProofs`

- `BundleSafe` (`BundleInv`), `ResourcesSpentOnce` (`SpentOnce`), `DecisionsAreKept` (`DecisionsStand`).  The coordinators
  share durable files and write them in no common transaction, so the argument is one of rely and guarantee: `Progress` says what no
  step of anybody takes back (evidence, a marker, a reservation, an authorization), and `Knows(p)` what
  coordinator `p` may conclude from having reached its place; `Knows` is kept by every `Progress` step of the others.
  What is promoted earned it because the promotion's critical section looks again at everything
  that `Progress` does not keep.
- `ServedIsNotRejected` is about lineages with at most one lost mirror.  When the mirrors of a promotion and of its
  successor's promotion are both lost, the rollback target still says "confirmed", can be dismissed as stale, and a
  rollback restores it (`store_transactions.py`, `promote` and `rollback`); see section 5.

`PrimeClientProofs`

- `ClientSafe` (`ClientInv`) and `ClientImplementsEvaluation` (`Implements`, the refinement of `PaidEvaluation`); the
  action properties `CanceledPaysNothing` (`CanceledIsNotPaid`) and `SettledWasHeard` (`SettledIsHeard`); and
  `ReturnsTheRecord`: what an execution returns is what the outbox holds.  The claim of the row makes one process its
  worker for good (`OneWorker`): no other one ever creates a sandbox or dispatches, so a step of the worker is alone
  with sandboxes and row, and only deliveries and cancels are shared.  `BoxesOK` and `HeardOK` say what sandboxes and
  sink have seen, and `ProcOK` what a process at its place knows of them.

`GenerationsProofs`

- `LoopSafe` (`LoopInv`).  Whatever the number of processes at a run, its row says running only while somebody is left
  who will end it (`RunIsOwned`), and a generation's only while somebody works on it (`GenerationsAreOwned`: after
  a failure that is an `Exception` the safety net finds nothing to do; an interrupt is not modelled).  With one process at a time, `SerialOK` says what each
  place in the loop knows: a run that is entered again and completed has something to do only if the target grew, so a
  receipt is of a target that was passed (`ReceiptsOK`).
- `StopIsFinal` (`StoppedIsFinal`), from the same invariant.
- `GateSafe` (`GateInv`) and `ApprovedGoesLive` (`DecisionsGoLive`).  Two files are a pair without a lock.  `Relies` is what
  a process relies on whoever else is at work.  It keeps the pair whole while one run stages: that run found no provenance, and
  nobody else writes one.  And it keeps the newest version while several prune, each by its own list: for each version listed
  there is one as new in the archive, and a pruner removes only the oldest of a list of two or more, so `NewestStays` holds for
  any number of pruners (`MaxVersions` is at least one, as the settings demand).  `Sees` is what a process that is alone knows
  of what it read, its list of versions included: then no removal fails and `FewAreKept` bounds the archive.  `Contiguous` says
  that the version numbers have no gap but one, and none once there are too
  many: numbering by count then gives a new number, and pruning removes the oldest (`Archives`).  `GateAssumption` admits
  several writing runs only in scopes where operations come one after the other: two stagings at once tear the pair (section 5).
- `EpochSafe` (`EpochInv`).  `LockIsHeld`: between the two writes of a promotion, whose holder has the lock, nothing but its target is
  active; `OnlyReviewed` covers what runs have seen and not yet written, and what a promoter is about to clear; `HasAuthority` is
  remembered from the decision to the activation.

`AmbientTrainerProofs`

- `TrainerSafe` (`TrainerInv`).  `ActiveIsRouted` is for any number of one-shot stages: nobody takes the entry out of the manifest, and
  a listing that holds an active record was made after it was written (`ProcOK`).  `OneLive` and `WithinBudget` are
  for the daemon alone, for which what it listed is still what the files say (`ListedOK`).
- `PromotionsImprove` (`PromotionImproves`): what the promotion was decided by is so until the activation
  (`DecidedOK`), because a crash forgets the decision, not the marker, and the next decision overwrites the marker.
- `FirstOf` and `BestOf`: that the first record of a listing and the best candidate exist, from the finiteness of `Records`
  (`Least`: a strict order has a least element in a finite set).

`RunServerProofs`

- `ServerSafe` (`ServerInv`).  The starter, each run's monitor, relay and reapers, and the shutdown share the manager's fields
  under locks that none of them keeps across its steps.  `Life` says what each may conclude: a start that is under
  way has no monitor beside it, only the current run's monitor is alive, and until a shutdown it is alone with the run (no reaper
  before it is done); a child that was not reaped, or whose row says running, is the current run's and the manager is taken
  (`ChildOK`); once a shutdown has begun no session follows, so what it remembers stays current (`CloserOK`).
- `SteeringSafe` (`SteeringInv`).  A reply is reserved, sent and committed in three steps, between which clients go
  on.  `HandsOK` says what the monitor holds meanwhile; `ChatsOK` that each caller is in one place of the controller (pending, reserved,
  in flight or being answered), and that a reservation is in the monitor's hand; `ValuesOK` that a value which was given and is still in its slot
  is in that hand, so that it is cleared before it could be reserved again, unless a newer one replaced it.
  `QueueBound`: a queue without repetitions is no longer than its callers are many, from an injection into their finite set.

**Only model-checked.**  Liveness under fairness, which is out of the prover's reach: `LeasesEnd`, `RetriesSucceed`,
`LoopsEnd`, `PendingSettles`, `TasksEnd`, `ServedAgain`, `MissionSettles`, `StatusCatchesUp`, `EverythingIsReleased`,
`RunSettles`, `ActiveInTheEnd`, and `ExecutionEnds` and `EventuallyDelivered` of `ExecutionsSettle`.  `LimitsHold` is stated of two instances
of the scheduler, and proved of any as `LimitsAreKept` and `ConcurrencyNeverExceeds`; `RunEnds`, `MissionEnds`,
`CampaignFollows`, `ServingHolds` and `ExecutionsSettle` are proved in their safety parts.

## 5. Observations

What follows was met while the properties were stated: the stronger form of a property, or a
sentence of the documentation, that TLC refutes on the models.  The
properties of section 3 are the forms that hold; where a scope guards one, the reason is here.

Campaign scheduler
- `campaign_scheduler.py:636` calls a budget "exhausted (permanent)", and `claim` fails the job for good.
  The consumption includes provisional charges of expired leases; when the late result reports
  less, the failed job would have fitted.
- `campaign_scheduler_dispatch.py:166`: a job enqueued while `claim` ends the only other one as exhausted makes
  the drain raise "no runnable worker" although the next claim would take it.
- A drain whose `max_waves` is reached neither claims nor reconciles, so with an expired inherited lease
  it polls until its deadline.

Prime client
- `_execution.py:88`: a cancel between reading a completed row and marking it committed returns
  `True`, and the execution still returns the success.  Test
  `test_cancel_after_result_commit_cannot_acknowledge_a_successful_execution` covers the later half only.
- `client.py:637`: a sandbox whose delete failed is dropped from the active ones, so the next cancel
  is acknowledged while it may still run.

Context bundles
- `risk_terminalization.py:69`: a candidate that the campaign gate blocked, whose coordinator died before the
  rejection and whose sibling was promoted, raises on every retry and stays pending.
- `store.py:537`: the record is rejected before the negative-result ledger is written; after a crash in
  between nothing writes it (`docs/context-bundles.md:50-52`).
- With two faults in one lineage a rejected bundle can be served (`ServedIsNotRejected` has one).
- Nothing locks out a second process that retries a run whose first one still lives.

Task queue
- `task_runner.py:395`: the sweep runs once, at startup, and skips rows younger than an hour; a runner
  restarted sooner leaves the row of its predecessor running (`:356` says "recovered at startup").
- `task_runner.py:465`: a batch whose threads all raised counts as an empty poll.  The docstring ("failed tasks are not
  counted") is not what it counts either; the TypeScript runner counts claims.
- `sqlite_store_task_queue.py:150`: the sweep also takes the row of a slow live worker; the task
  runs twice, and the later unguarded write can reopen a completed row.
- A crash of a batch burns an attempt of each of its tasks.

Ambient
- `evaluate.py:258` puts back the activation state it listed; beside a one-shot stage the live model can
  become a candidate again (`:4-6` says "without ever changing its activation_state").
- `train.py:95` reserves nothing: a stage run by hand passes the same gate and the budget is exceeded.
- `promote.py:94`: after a crash between demotion and activation the retry names no rollback target.
- `model_registry.py:164` demotes within one backend; the incumbent of another stays active.
- `promote.py:165` compares the anchor's model, not its rubric.

Missions and mission campaigns
- `manager.py:265`: a pause or cancel that read "active" before a completion reopens the mission.
- `executor.py:141`: a step that fails skips the second budget check; the mission stays active with
  its budget spent.  Two runners can overrun it by one step each.
- `manager.py:193`: verification and completion are two statements ("persist verification + transition together").
- A pause during a verification makes the run raise without a checkpoint.
- `ts/src/mission/campaign-manager-workflow.ts:92`: the reconciliation overwrites a cancellation made since it read.
- `ts/src/mission/campaign.ts:100`: with a removal between check and insert a mission depends on a non-member, and
  removing and adding again can make a cycle.
- A paused campaign whose mission fails and is resumed comes back active.

Run server
- `_run_process_monitor.py:556`: with an unkillable child, the thread that reaps it finalizes without waiting for a
  stalled relay; the next run begins while a subscriber is blocked in an event of the last.
- `controller.py:308`: a pause accepted after a stop parks the child, and a repeated stop does not wake it.

Generation loop
- `sqlite_store.py:876`: a process that resumed just before a stop turns "stopped" into "running" or "failed"
  (`run_reentry.py:107-109`: first terminal outcome wins).
- `generation_runner.py:1287`: the run is completed before its tail; a crash in between leaves no report or receipt.
- Two processes that re-enter one run keep recovering each other's generation.

Playbook approval
- `versioned_store.py:49` numbers a version by their count, so after the first prune each write overwrites
  the newest one; after a crash between archiving and pruning a replaced playbook is not archived.
- `versioned_store.py:90` removes versions that were listed earlier and fails on one that another pruner has removed: of two
  approvals at once the second can end after archiving and before going live, and a version too many stays until
  a later write prunes it.  So the bound on the archive (`FewAreKept`) is stated for one operation at a time.
- `playbook_approval.py:127` and `:213`: two stagings, or a staging inside a clear, tear the pending pair.
- `playbook_approval.py:90` reads the held update twice; another one staged in between goes live with the
  first one's lessons.  Approve and reject of the same update can both answer ok.

Evaluator epochs
- `evaluator_epoch_registry.py:222`: a crash between disabling and activating leaves no active epoch, and the next
  new one is activated unreviewed.
- `evaluator_epoch_promotion.py:148`: a rejection racing an approval stamps the active record and returns "rejected".
- `cli.py:355`: the mark is observed before the score is written; a promotion in between leaves the score marked.

## 6. Not modelled

- Scheduler: audit packets (a failed audit appends an event that changes nothing else: `RecordNotice`), the
  report, warm reuse of sandboxes, `dispatch_once` on its own, events of older logs; adapters and codecs.
- Prime client: a client without an outbox, session reuse, legacy identities.
- Bundles: migration of schema v1, drift of the evaluator plan, causal attribution, the execution-policy
  monitor, more than one pending candidate per coordinator.
- Ambient: ingest, curation, advice, proposals; the stage queue and the supervisor's rollback, which nothing calls.
- Generation loop: what the stages of the pipeline compute (prompts, tournaments, scoring), runtime
  refusals, recovery markers; KeyboardInterrupt and SystemExit, which pass the generation's `except Exception` and leave a running row to the
  safety net.  Epochs: serving specifications and re-scoring.
- Run server: IPC framing and sizes, the order in which a monitor drains its channels, the atexit registry, failing
  thread allocation.
- TypeScript: everything but its task runner and mission campaigns; most of it mirrors the Python code.
- The rest of the repository is prompts, scenario content, model and tool adapters, command line surfaces,
  exporters and examples: calls that transform data and keep no state that outlives them, or content for which
  there is nothing to state.

## 7. Plan

1. The composition of the scheduler's leases with the outbox: a resumed lease returns the recorded result.
2. The campaign auditor: its call and cost budget and the durable record of each review; the monitor engine.
