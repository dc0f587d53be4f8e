-------------------------- MODULE CampaignScheduler --------------------------
(***************************************************************************)
(* The durable campaign scheduler (execution/campaign_scheduler*.py).      *)
(*                                                                         *)
(* A CampaignScheduler object keeps no state of its own: every operation   *)
(* appends one event to a shared log and only then applies it, and a new   *)
(* object replays the log.  The variables below are therefore the fold of  *)
(* the log (what a replay computes), and `synced` says which scheduler     *)
(* objects have applied all of it.  CampaignEventStore models the log      *)
(* itself and shows why one that has not cannot append.                    *)
(*                                                                         *)
(* claim(), reconcile() and cancel_active_jobs() loop over jobs and append *)
(* inside the loop; another process may append, or this one may die,       *)
(* between two appends.  Each iteration is therefore an action.            *)
(***************************************************************************)
EXTENDS Integers, Sequences, FiniteSets

CONSTANTS
    Instances,      \* scheduler objects opened on the one event log
    Workers,        \* worker ids
    Descriptors,    \* the WorkerDescriptors that may be registered
    JobIds, Requests,           \* job ids and the CampaignJobRequests that use them
    Campaigns, Branches, Cohorts, Lanes, Keys,
    Dims,           \* the budget dimensions told apart ("jobs" is always one)
    Configurations, \* arguments of configure_campaign
    Grants,         \* CampaignEvidenceGrants
    Results,        \* CampaignJobResults a worker may return
    LeaseWalls,     \* values of expires_at - issued_at when a lease expires
    MaxConcurrency,
    MaxAttempts,    \* bound: the largest max_attempts of a request
    None            \* Python's None, the empty cohort_id, a missing dict entry

Leases == JobIds \X (1 .. MaxAttempts)
Budgets == [Dims -> Nat]
Outcomes == {"candidate_success", "candidate_failure", "infrastructure_failure"}

\* Who is charged: a campaign, a branch of a campaign, a worker.
CampaignAccount(c) == <<"campaign", c, "">>
BranchAccount(c, b) == <<"branch", c, b>>
WorkerAccount(w) == <<"worker", w, "">>
Accounts == ({"campaign"} \X Campaigns \X {""})
              \cup ({"branch"} \X Campaigns \X Branches)
              \cup ({"worker"} \X Workers \X {""})

\* Fields of the frozen dataclasses, as far as scheduling tells them apart.
\* resources is one number for CPU, memory, disk and accelerators alike.
RequestType == [job_id : JobIds, idempotency_key : Keys, campaign_id : Campaigns,
                branch_id : Branches, lane : Lanes, cohort_id : Cohorts \cup {None},
                resources : Nat, required_capabilities : SUBSET STRING,
                evidence_grants : SUBSET Grants, reservation : Budgets,
                max_attempts : 1 .. MaxAttempts, retry_expired_lease : BOOLEAN]
DescriptorType == [worker_id : Workers, runtime : STRING, resources : Nat,
                   capabilities : SUBSET STRING, durable_result_replay : BOOLEAN,
                   locality : {"local", "remote"}, concurrency : Nat \ {0}]
GrantType == [grant_id : STRING, campaign_id : Campaigns, to_branch_id : Branches, token_cost : Nat]
ScoredResults == [attempt : 1 .. MaxAttempts, outcome : Outcomes]
ResultType == [outcome : Outcomes, retryable : BOOLEAN, consumed : Budgets]

ASSUME DimsAssumption == "jobs" \in Dims
ASSUME BoundsAssumption == MaxConcurrency \in Nat \ {0} /\ MaxAttempts \in Nat \ {0}
ASSUME NoneAssumption ==
    /\ None \notin Requests /\ None \notin Workers /\ None \notin Descriptors
    /\ None \notin Cohorts /\ None \notin Lanes /\ None \notin Budgets /\ None \notin ScoredResults
ASSUME RequestsAssumption == \A r \in Requests : r \in RequestType
ASSUME DescriptorsAssumption == \A d \in Descriptors : d \in DescriptorType
ASSUME GrantsAssumption == \A g \in Grants : g \in GrantType
ASSUME ResultsAssumption == \A r \in Results : r \in ResultType
ASSUME LeaseWallsAssumption == \A n \in LeaseWalls : n \in Nat
ASSUME ConfigurationsAssumption ==
    \A cfg \in Configurations : DOMAIN cfg \subseteq Accounts /\ \A a \in DOMAIN cfg : cfg[a] \in Budgets

VARIABLES
    \* _JobState, per job id
    request, status, attempts, lease, result, accounting_result, late_result,
    order,                      \* the insertion order of _jobs
    \* lease indexes: a lease id is the <<job, attempt>> its uuid is minted for
    leases,                     \* keys of _leases
    lease_history,              \* keys of _lease_history and _lease_records
    lease_worker, lease_environment,    \* of _lease_records
    active_leases,              \* of _WorkerState
    durable_replay_lease_ids, result_completion_leases, provisional_results,
    late_completion_leases, late_completions,
    \* budgets, per account
    limits, reserved, consumed,
    \* workers, cohorts, grants
    descriptor, cohort_lanes, cohort_environments, evidence_grants,
    \* the world: held leases whose expires_at has passed, leases handed to a worker
    expired, dispatched,
    \* per scheduler object, lost when it is
    synced, executors, restart_orphan_lease_ids, restart_durable_replay_lease_ids, cancel_calls,
    \* history: what the last logged result of each lease says it consumed
    charge

jobVars == <<request, status, attempts, lease, result, accounting_result, late_result, order>>
leaseVars == <<leases, lease_history, lease_worker, lease_environment, active_leases,
               durable_replay_lease_ids>>
settleVars == <<result_completion_leases, provisional_results, late_completion_leases,
                late_completions, charge>>
budgetVars == <<limits, reserved, consumed>>
tableVars == <<descriptor, cohort_lanes, cohort_environments, evidence_grants>>
worldVars == <<expired, dispatched>>
objectVars == <<executors, restart_orphan_lease_ids, restart_durable_replay_lease_ids, cancel_calls>>
vars == <<jobVars, leaseVars, settleVars, budgetVars, tableVars, worldVars, objectVars, synced>>

-----------------------------------------------------------------------------
(* SchedulerBudget arithmetic. *)

Zero == [d \in Dims |-> 0]
Plus(a, b) == [d \in Dims |-> a[d] + b[d]]
Minus(a, b) == [d \in Dims |-> IF a[d] >= b[d] THEN a[d] - b[d] ELSE 0]
\* A limit of 0 does not limit; an account that was never configured has limit Zero.
Within(a, limit) == \A d \in Dims : limit[d] = 0 \/ a[d] <= limit[d]

\* A result or a provisional charge is for one job at least.
NormalizedConsumption(b) == [b EXCEPT !["jobs"] = IF @ = 0 THEN 1 ELSE @]

\* The full reservation, until an eventual result replaces it.
ProvisionalCancellation(r) == NormalizedConsumption(r.reservation)

\* An expired lease is also charged the time it was held.
ProvisionalExpiry(r, wall) ==
    [d \in Dims |-> IF d = "wall_seconds" /\ wall > r.reservation[d]
                      THEN wall ELSE ProvisionalCancellation(r)[d]]

-----------------------------------------------------------------------------
(* Jobs, leases and what they are charged to. *)

TerminalStatuses == {"succeeded", "candidate_failed", "infrastructure_failed",
                     "budget_exhausted", "canceled"}
Statuses == {"queued", "leased", "canceling"} \cup TerminalStatuses

Jobs == {j \in JobIds : status[j] # "absent"}
LeaseOf(j) == <<j, lease[j]>>
Holds(l) == l \in leases /\ l = LeaseOf(l[1])
Settled(l) == l \in result_completion_leases
IsProvisional(l) == provisional_results[l] # None

BudgetAccounts(r) == {CampaignAccount(r.campaign_id), BranchAccount(r.campaign_id, r.branch_id)}
ChargedAccounts(l) == BudgetAccounts(request[l[1]]) \cup {WorkerAccount(lease_worker[l])}

StatusByOutcome == [o \in Outcomes |->
    CASE o = "candidate_success" -> "succeeded"
      [] o = "candidate_failure" -> "candidate_failed"
      [] o = "infrastructure_failure" -> "infrastructure_failed"]

EnvironmentFingerprint(d) ==
    <<d.runtime, d.resources, d.capabilities, d.durable_result_replay, d.locality>>
Environments == {EnvironmentFingerprint(d) : d \in Descriptors}
ASSUME EnvironmentsAssumption == None \notin Environments

-----------------------------------------------------------------------------
(* _record: append, then apply.  The store refuses an object that has not  *)
(* applied the whole log, and every other object is behind afterwards.  An *)
(* append that reached the disk can still raise (fsync, close): the event  *)
(* is in the log and its own object is behind as well.                     *)

Record(i) == i \in synced /\ synced' \in {{i}, {}}
Applied == synced' # {}
AfterRecord(f, i, S) == [f EXCEPT ![i] = IF Applied THEN S ELSE @]

\* _release_lease
ReleaseLease(j) ==
    /\ lease' = [lease EXCEPT ![j] = 0]
    /\ leases' = leases \ {LeaseOf(j)}
    /\ expired' = expired \ {LeaseOf(j)}
    /\ active_leases' = [active_leases EXCEPT ![lease_worker[LeaseOf(j)]] = @ \ {LeaseOf(j)}]
    /\ reserved' = [a \in Accounts |-> IF a \in BudgetAccounts(request[j])
                                         THEN Minus(reserved[a], request[j].reservation)
                                         ELSE reserved[a]]

\* _account_result
AccountResult(l, amount) ==
    /\ consumed' = [a \in Accounts |-> IF a \in ChargedAccounts(l)
                                         THEN Plus(consumed[a], amount) ELSE consumed[a]]
    /\ charge' = [charge EXCEPT ![l] = amount]

\* Mutant: the worker is not refunded.
ReplaceWithoutWorkerRefund(l, prior, amount) ==
    /\ consumed' = [a \in Accounts |->
         IF a \in BudgetAccounts(request[l[1]]) THEN Plus(Minus(consumed[a], prior), amount)
         ELSE IF a \in ChargedAccounts(l) THEN Plus(consumed[a], amount) ELSE consumed[a]]
    /\ charge' = [charge EXCEPT ![l] = amount]

\* _replace_accounted_result
ReplaceAccountedResult(l, prior, amount) ==
    /\ consumed' = [a \in Accounts |-> IF a \in ChargedAccounts(l)
                                         THEN Plus(Minus(consumed[a], prior), amount) ELSE consumed[a]]
    /\ charge' = [charge EXCEPT ![l] = amount]

\* What job_requeued, job_lease_failed, job_canceled and job_finished do alike
\* to a job whose lease they end: the reservation becomes a charge.
Settle(j, amount, provisional) ==
    LET l == LeaseOf(j) IN
    /\ ReleaseLease(j)
    /\ AccountResult(l, amount)
    /\ result_completion_leases' = result_completion_leases \cup {l}
    /\ provisional_results' = IF provisional THEN [provisional_results EXCEPT ![l] = amount]
                                             ELSE provisional_results
    /\ UNCHANGED <<late_completion_leases, late_completions, lease_history, lease_worker,
                   lease_environment, durable_replay_lease_ids, limits>>

-----------------------------------------------------------------------------
(* Configuration, workers, evidence, submission. *)

\* configure_campaign: later configurations overwrite the limits they name.
ConfigureCampaign(i, cfg) ==
    /\ Record(i)
    /\ limits' = [a \in Accounts |-> IF a \in DOMAIN cfg THEN cfg[a] ELSE limits[a]]
    /\ UNCHANGED <<jobVars, leaseVars, settleVars, reserved, consumed, tableVars, worldVars, objectVars>>

\* register_worker: a changed descriptor is logged; leases of the worker stay.
RegisterWorker(i, d, executor) ==
    /\ descriptor[d.worker_id] # d
    /\ Record(i)
    /\ descriptor' = [descriptor EXCEPT ![d.worker_id] = d]
    /\ executors' = IF executor THEN AfterRecord(executors, i, executors[i] \cup {d.worker_id})
                                ELSE executors
    /\ UNCHANGED <<jobVars, leaseVars, settleVars, budgetVars, cohort_lanes, cohort_environments,
                   evidence_grants, worldVars, restart_orphan_lease_ids,
                   restart_durable_replay_lease_ids, cancel_calls>>

\* register_worker with the descriptor the log already has.
BindExecutor(i, w) ==
    /\ descriptor[w] # None
    /\ w \notin executors[i]
    /\ executors' = [executors EXCEPT ![i] = @ \cup {w}]
    /\ UNCHANGED <<jobVars, leaseVars, settleVars, budgetVars, tableVars, worldVars, synced,
                   restart_orphan_lease_ids, restart_durable_replay_lease_ids, cancel_calls>>

EvidenceCost(g) == [d \in Dims |-> IF d = "shared_evidence_tokens" THEN g.token_cost ELSE 0]

\* grant_evidence_share: charged to the campaign, not to a branch.
GrantEvidenceShare(i, g) ==
    LET a == CampaignAccount(g.campaign_id) IN
    /\ \A h \in evidence_grants : h.grant_id # g.grant_id
    /\ Within(Plus(Plus(consumed[a], reserved[a]), EvidenceCost(g)), limits[a])
    /\ Record(i)
    /\ evidence_grants' = evidence_grants \cup {g}
    /\ consumed' = [consumed EXCEPT ![a] = Plus(@, EvidenceCost(g))]
    /\ UNCHANGED <<jobVars, leaseVars, settleVars, limits, reserved, descriptor, cohort_lanes,
                   cohort_environments, worldVars, objectVars>>

\* The job _idempotency maps the request's key to, if any.
Duplicates(r) == {j \in Jobs : /\ request[j].campaign_id = r.campaign_id
                               /\ request[j].idempotency_key = r.idempotency_key}

\* enqueue.  A duplicate key, a taken job id, a cohort with another lane and an
\* evidence grant of another scope leave everything unchanged.
Enqueue(i, r) ==
    LET j == r.job_id
        key == <<r.campaign_id, r.cohort_id>> IN
    /\ Duplicates(r) = {}
    /\ status[j] = "absent"
    /\ r.cohort_id # None => cohort_lanes[key] \in {None, r.lane}
    /\ \A g \in r.evidence_grants : /\ g \in evidence_grants
                                    /\ g.campaign_id = r.campaign_id
                                    /\ g.to_branch_id = r.branch_id
    /\ Record(i)
    /\ request' = [request EXCEPT ![j] = r]
    /\ status' = [status EXCEPT ![j] = "queued"]
    /\ order' = Append(order, j)
    /\ cohort_lanes' = IF r.cohort_id = None THEN cohort_lanes
                                             ELSE [cohort_lanes EXCEPT ![key] = r.lane]
    /\ UNCHANGED <<attempts, lease, result, accounting_result, late_result, leaseVars, settleVars,
                   budgetVars, descriptor, cohort_environments, evidence_grants, worldVars, objectVars>>

-----------------------------------------------------------------------------
(* claim *)

\* Sum of the resources of the jobs the worker already runs.
UsedResources(w) ==
    LET used[n \in 0 .. Len(order)] ==
          IF n = 0 THEN 0
          ELSE used[n - 1] + IF LeaseOf(order[n]) \in active_leases[w] THEN request[order[n]].resources ELSE 0
    IN used[Len(order)]

\* Mutant: the cohort's pinned environment is not looked at.
WorkerMatchesUnpinned(w, r) ==
    /\ r.resources = 0 \/ UsedResources(w) + r.resources <= descriptor[w].resources
    /\ r.required_capabilities \subseteq descriptor[w].capabilities

WorkerMatches(w, r) ==
    /\ r.resources = 0 \/ UsedResources(w) + r.resources <= descriptor[w].resources
    /\ r.required_capabilities \subseteq descriptor[w].capabilities
    /\ r.cohort_id # None =>
         cohort_environments[<<r.campaign_id, r.cohort_id>>]
            \in {None, EnvironmentFingerprint(descriptor[w])}

BudgetExhausted(r) ==
    \E a \in BudgetAccounts(r) : ~Within(Plus(consumed[a], r.reservation), limits[a])
BudgetReserved(r) ==
    \E a \in BudgetAccounts(r) : ~Within(Plus(Plus(reserved[a], consumed[a]), r.reservation), limits[a])
BudgetState(r) == IF BudgetExhausted(r) THEN "exhausted"
                  ELSE IF BudgetReserved(r) THEN "reserved" ELSE "available"

HasSlot(w) ==
    /\ Cardinality(active_leases[w]) < descriptor[w].concurrency
    /\ Cardinality(UNION {active_leases[v] : v \in Workers}) < MaxConcurrency

\* The claim loop visits jobs in insertion order and stops at the first that
\* matches the worker and is not held back by outstanding reservations.
Visits(w, j) == /\ status[j] = "queued"
                /\ WorkerMatches(w, request[j])
                /\ BudgetState(request[j]) # "reserved"
FirstVisited(w, j) ==
    \E n \in DOMAIN order : order[n] = j /\ Visits(w, j) /\ \A m \in 1 .. n - 1 : ~Visits(w, order[m])

\* One job of claim(): lease it ...
ClaimJob(i, w, j) ==
    LET l == <<j, attempts[j] + 1>>
        d == descriptor[w]
        r == request[j] IN
    /\ d # None
    /\ HasSlot(w)
    /\ FirstVisited(w, j)
    /\ BudgetState(r) = "available"
    /\ Record(i)
    /\ status' = [status EXCEPT ![j] = "leased"]
    /\ attempts' = [attempts EXCEPT ![j] = @ + 1]
    /\ lease' = [lease EXCEPT ![j] = attempts[j] + 1]
    /\ leases' = leases \cup {l}
    /\ lease_history' = lease_history \cup {l}
    /\ lease_worker' = [lease_worker EXCEPT ![l] = w]
    /\ lease_environment' = [lease_environment EXCEPT ![l] = EnvironmentFingerprint(d)]
    /\ active_leases' = [active_leases EXCEPT ![w] = @ \cup {l}]
    /\ durable_replay_lease_ids' = IF d.locality = "remote" /\ d.durable_result_replay
                                     THEN durable_replay_lease_ids \cup {l}
                                     ELSE durable_replay_lease_ids
    /\ reserved' = [a \in Accounts |-> IF a \in BudgetAccounts(r) THEN Plus(reserved[a], r.reservation)
                                                                   ELSE reserved[a]]
    /\ cohort_environments' =
         IF r.cohort_id = None THEN cohort_environments
         ELSE [cohort_environments EXCEPT ![<<r.campaign_id, r.cohort_id>>] = EnvironmentFingerprint(d)]
    /\ dispatched' = IF Applied THEN dispatched \cup {l} ELSE dispatched
    /\ UNCHANGED <<request, result, accounting_result, late_result, order, settleVars, limits, consumed,
                   descriptor, cohort_lanes, evidence_grants, expired, objectVars>>

\* ... or find that what is consumed already leaves no room for it.
ExhaustJob(i, w, j) ==
    /\ descriptor[w] # None
    /\ HasSlot(w)
    /\ FirstVisited(w, j)
    /\ BudgetState(request[j]) = "exhausted"
    /\ Record(i)
    /\ status' = [status EXCEPT ![j] = "budget_exhausted"]
    /\ UNCHANGED <<request, attempts, lease, result, accounting_result, late_result, order, leaseVars,
                   settleVars, budgetVars, tableVars, worldVars, objectVars>>

-----------------------------------------------------------------------------
(* Time and heartbeats. *)

\* The clock passes the lease's expires_at.
Expire(l) ==
    /\ l \in leases \ expired
    /\ expired' = expired \cup {l}
    /\ UNCHANGED <<jobVars, leaseVars, settleVars, budgetVars, tableVars, dispatched, objectVars, synced>>

\* heartbeat: extends the leases of the worker that are leased, never one that
\* is being canceled; an expired lease nobody has reconciled yet revives.
Heartbeat(i, w, l) ==
    /\ descriptor[w] # None
    /\ Holds(l) /\ lease_worker[l] = w
    /\ status[l[1]] = "leased"
    /\ Record(i)
    /\ expired' = expired \ {l}
    /\ UNCHANGED <<jobVars, leaseVars, settleVars, budgetVars, tableVars, dispatched, objectVars>>

\* Events whose replay changes none of the variables: audit_checkpoint_failed,
\* warm_degraded, runtime_plan_bound, a heartbeat of a worker without leases.
RecordNotice(i) ==
    /\ Record(i)
    /\ UNCHANGED <<jobVars, leaseVars, settleVars, budgetVars, tableVars, worldVars, objectVars>>

-----------------------------------------------------------------------------
(* complete: the result of a lease that was handed out.  A second result of  *)
(* a lease whose first one was final is returned without an event.           *)

\* An infrastructure failure worth another attempt.
CompleteRequeued(i, l, r) ==
    LET j == l[1] IN
    /\ Holds(l) /\ l \in dispatched
    /\ status[j] = "leased"
    /\ r.outcome = "infrastructure_failure" /\ r.retryable /\ attempts[j] < request[j].max_attempts
    /\ Record(i)
    /\ Settle(j, NormalizedConsumption(r.consumed), FALSE)
    /\ status' = [status EXCEPT ![j] = "queued"]
    /\ UNCHANGED <<request, attempts, result, accounting_result, late_result, order, tableVars,
                   dispatched, objectVars>>

\* The scored result of the job.
CompleteFinished(i, l, r) ==
    LET j == l[1] IN
    /\ Holds(l) /\ l \in dispatched
    /\ status[j] = "leased"
    /\ ~(r.outcome = "infrastructure_failure" /\ r.retryable /\ attempts[j] < request[j].max_attempts)
    /\ Record(i)
    /\ Settle(j, NormalizedConsumption(r.consumed), FALSE)
    /\ status' = [status EXCEPT ![j] = StatusByOutcome[r.outcome]]
    /\ result' = [result EXCEPT ![j] = [attempt |-> l[2], outcome |-> r.outcome]]
    /\ UNCHANGED <<request, attempts, accounting_result, late_result, order, tableVars,
                   dispatched, objectVars>>

\* Mutant: the lease is charged but not marked as settled.
CompleteCancelingUnmarked(i, l, r) ==
    LET j == l[1] IN
    /\ Holds(l) /\ l \in dispatched
    /\ status[j] = "canceling"
    /\ Record(i)
    /\ ReleaseLease(j)
    /\ AccountResult(l, NormalizedConsumption(r.consumed))
    /\ status' = [status EXCEPT ![j] = "canceled"]
    /\ late_result' = [late_result EXCEPT ![j] = l[2]]
    /\ accounting_result' = [accounting_result EXCEPT ![j] = l[2]]
    /\ UNCHANGED <<request, attempts, result, order, lease_history, lease_worker, lease_environment,
                   durable_replay_lease_ids, result_completion_leases, provisional_results,
                   late_completion_leases, late_completions, limits, tableVars, dispatched, objectVars>>

\* job_canceled_late of a lease still held: the job was being canceled.
CompleteCanceling(i, l, r) ==
    LET j == l[1] IN
    /\ Holds(l) /\ l \in dispatched
    /\ status[j] = "canceling"
    /\ Record(i)
    /\ ReleaseLease(j)
    /\ AccountResult(l, NormalizedConsumption(r.consumed))
    /\ status' = [status EXCEPT ![j] = "canceled"]
    /\ late_result' = [late_result EXCEPT ![j] = l[2]]
    /\ accounting_result' = [accounting_result EXCEPT ![j] = l[2]]
    /\ late_completion_leases' = late_completion_leases \cup {l}
    /\ result_completion_leases' = result_completion_leases \cup {l}
    /\ late_completions' = late_completions + 1
    /\ UNCHANGED <<request, attempts, result, order, lease_history, lease_worker, lease_environment,
                   durable_replay_lease_ids, provisional_results, limits, tableVars, dispatched, objectVars>>

\* What job_canceled_late and job_stale_completed do to a lease that was taken
\* back: the actual usage replaces the provisional charge.
SettleLate(l, amount) ==
    /\ IF IsProvisional(l) THEN ReplaceAccountedResult(l, provisional_results[l], amount)
                           ELSE AccountResult(l, amount)
    /\ provisional_results' = [provisional_results EXCEPT ![l] = None]
    /\ late_result' = [late_result EXCEPT ![l[1]] = l[2]]
    /\ accounting_result' = [accounting_result EXCEPT ![l[1]] = l[2]]
    /\ late_completion_leases' = late_completion_leases \cup {l}
    /\ result_completion_leases' = result_completion_leases \cup {l}
    /\ late_completions' = late_completions + 1
    /\ UNCHANGED <<request, attempts, lease, order, leaseVars, limits, reserved,
                   tableVars, worldVars, objectVars>>

\* Mutant: any finished job takes the event of a canceled one.
CompleteLateCanceled(i, l, r) ==
    /\ l \in (lease_history \ leases) \cap dispatched
    /\ Settled(l) => IsProvisional(l)
    /\ Record(i)
    /\ SettleLate(l, NormalizedConsumption(r.consumed))
    /\ status' = IF status[l[1]] \in TerminalStatuses THEN [status EXCEPT ![l[1]] = "canceled"] ELSE status
    /\ UNCHANGED result

\* The result of a lease that was taken back; the job keeps its status and its
\* result.  A lease whose own result is known already is left alone.
CompleteLate(i, l, r) ==
    /\ l \in (lease_history \ leases) \cap dispatched
    /\ Settled(l) => IsProvisional(l)
    /\ Record(i)
    /\ SettleLate(l, NormalizedConsumption(r.consumed))
    /\ UNCHANGED <<status, result>>

-----------------------------------------------------------------------------
(* cancel *)

\* A job nobody started is canceled for free.
CancelQueued(i, j) ==
    /\ status[j] = "queued"
    /\ Record(i)
    /\ status' = [status EXCEPT ![j] = "canceled"]
    /\ UNCHANGED <<request, attempts, lease, result, accounting_result, late_result, order, leaseVars,
                   settleVars, budgetVars, tableVars, worldVars, objectVars>>

\* A leased job is marked, the lock is released and the worker is asked.
CancelRequested(i, j) ==
    /\ status[j] = "leased"
    /\ lease[j] # 0
    /\ Record(i)
    /\ status' = [status EXCEPT ![j] = "canceling"]
    /\ cancel_calls' = IF lease_worker[LeaseOf(j)] \in executors[i]
                         THEN AfterRecord(cancel_calls, i, cancel_calls[i] \cup {LeaseOf(j)})
                         ELSE cancel_calls
    /\ UNCHANGED <<request, attempts, lease, result, accounting_result, late_result, order, leaseVars,
                   settleVars, budgetVars, tableVars, worldVars, executors,
                   restart_orphan_lease_ids, restart_durable_replay_lease_ids>>

\* job_canceled of a dispatched lease, with its provisional charge.
CancelCharged(i, j) ==
    /\ Record(i)
    /\ Settle(j, ProvisionalCancellation(request[j]), TRUE)
    /\ status' = [status EXCEPT ![j] = "canceled"]
    /\ accounting_result' = [accounting_result EXCEPT ![j] = lease[j]]
    /\ UNCHANGED <<request, attempts, result, late_result, order, tableVars, dispatched>>

\* Mutant: the status is not read again after the worker was asked, so a lease
\* that has ended meanwhile is charged once more.
CancelConfirmedUnchecked(i, l) ==
    LET amount == ProvisionalCancellation(request[l[1]]) IN
    /\ l \in cancel_calls[i]
    /\ IF lease[l[1]] # 0
         THEN CancelCharged(i, l[1])
         ELSE /\ Record(i)
              /\ AccountResult(l, amount)
              /\ provisional_results' = [provisional_results EXCEPT ![l] = amount]
              /\ status' = [status EXCEPT ![l[1]] = "canceled"]
              /\ UNCHANGED <<request, attempts, lease, result, accounting_result, late_result, order,
                             leaseVars, result_completion_leases, late_completion_leases, late_completions,
                             limits, reserved, tableVars, worldVars>>
    /\ cancel_calls' = [cancel_calls EXCEPT ![i] = @ \ {l}]
    /\ UNCHANGED <<executors, restart_orphan_lease_ids, restart_durable_replay_lease_ids>>

\* The worker confirms while the job is still being canceled.
CancelConfirmed(i, l) ==
    /\ l \in cancel_calls[i]
    /\ status[l[1]] = "canceling"
    /\ CancelCharged(i, l[1])
    /\ cancel_calls' = [cancel_calls EXCEPT ![i] = @ \ {l}]
    /\ UNCHANGED <<executors, restart_orphan_lease_ids, restart_durable_replay_lease_ids>>

\* The worker cannot cancel, raises, or confirms too late.
CancelUnconfirmed(i, l) ==
    /\ l \in cancel_calls[i]
    /\ cancel_calls' = [cancel_calls EXCEPT ![i] = @ \ {l}]
    /\ UNCHANGED <<jobVars, leaseVars, settleVars, budgetVars, tableVars, worldVars, synced,
                   executors, restart_orphan_lease_ids, restart_durable_replay_lease_ids>>

\* cancel_active_jobs after the shutdown grace, which may be zero.
SealActive(i, j) ==
    /\ status[j] \in {"leased", "canceling"} /\ lease[j] # 0
    /\ CancelCharged(i, j)
    /\ UNCHANGED objectVars

-----------------------------------------------------------------------------
(* reconcile: leases whose expires_at has passed. *)

ReconcileCanceling(i, j) ==
    /\ status[j] = "canceling" /\ LeaseOf(j) \in expired
    /\ CancelCharged(i, j)
    /\ UNCHANGED objectVars

\* Mutant: a lease that was resumed once still counts as resumable.
HasDurableReplayForever(i, l) ==
    LET d == descriptor[lease_worker[l]] IN
    /\ l \in restart_durable_replay_lease_ids[i]
    /\ lease_worker[l] \in executors[i]
    /\ d # None
    /\ d.locality = "remote" /\ d.durable_result_replay
    /\ EnvironmentFingerprint(d) = lease_environment[l]

\* restart_lease_has_durable_replay
HasDurableReplay(i, l) ==
    LET d == descriptor[lease_worker[l]] IN
    /\ l \in restart_orphan_lease_ids[i]
    /\ l \in restart_durable_replay_lease_ids[i]
    /\ lease_worker[l] \in executors[i]
    /\ d # None
    /\ d.locality = "remote" /\ d.durable_result_replay
    /\ EnvironmentFingerprint(d) = lease_environment[l]

\* Mutant: an inherited lease is retried like any other.
RetryExpiredInherited(i, j) ==
    /\ request[j].retry_expired_lease
    /\ attempts[j] < request[j].max_attempts

RetryExpired(i, j) ==
    /\ LeaseOf(j) \notin restart_durable_replay_lease_ids[i]
    /\ request[j].retry_expired_lease
    /\ attempts[j] < request[j].max_attempts

\* The attempt is lost; the job may be tried again.
ReconcileRequeued(i, j, wall) ==
    /\ status[j] = "leased" /\ LeaseOf(j) \in expired
    /\ ~HasDurableReplay(i, LeaseOf(j))
    /\ RetryExpired(i, j)
    /\ Record(i)
    /\ Settle(j, ProvisionalExpiry(request[j], wall), TRUE)
    /\ status' = [status EXCEPT ![j] = "queued"]
    /\ UNCHANGED <<request, attempts, result, accounting_result, late_result, order, tableVars,
                   dispatched, objectVars>>

\* The attempt is lost, and whether it ran is unknown: the job fails.
ReconcileFailed(i, j, wall) ==
    /\ status[j] = "leased" /\ LeaseOf(j) \in expired
    /\ ~HasDurableReplay(i, LeaseOf(j))
    /\ ~RetryExpired(i, j)
    /\ Record(i)
    /\ Settle(j, ProvisionalExpiry(request[j], wall), TRUE)
    /\ status' = [status EXCEPT ![j] = "infrastructure_failed"]
    /\ result' = [result EXCEPT ![j] = [attempt |-> lease[j], outcome |-> "infrastructure_failure"]]
    /\ UNCHANGED <<request, attempts, accounting_result, late_result, order, tableVars,
                   dispatched, objectVars>>

-----------------------------------------------------------------------------
(* A process dies, or its object is given up; a new one replays the log. *)

Restart(i) ==
    LET orphans == {LeaseOf(j) : j \in {k \in Jobs : status[k] = "leased" /\ lease[k] # 0}} IN
    /\ synced' = synced \cup {i}
    /\ executors' = [executors EXCEPT ![i] = {}]
    /\ cancel_calls' = [cancel_calls EXCEPT ![i] = {}]
    /\ restart_orphan_lease_ids' = [restart_orphan_lease_ids EXCEPT ![i] = orphans]
    /\ restart_durable_replay_lease_ids' =
         [restart_durable_replay_lease_ids EXCEPT ![i] = orphans \cap durable_replay_lease_ids]
    /\ UNCHANGED <<jobVars, leaseVars, settleVars, budgetVars, tableVars, worldVars>>

\* claim_expired_restart_leases: the same lease is heartbeated and handed to its
\* worker again; orphans that are no longer leased are forgotten.
ResumeOrphan(i, l) ==
    /\ l \in restart_orphan_lease_ids[i] /\ lease_worker[l] \in executors[i]
    /\ Holds(l) /\ status[l[1]] = "leased" /\ l \in expired
    /\ HasDurableReplay(i, l)
    /\ Record(i)
    /\ expired' = expired \ {l}
    /\ dispatched' = IF Applied THEN dispatched \cup {l} ELSE dispatched
    /\ restart_orphan_lease_ids' = AfterRecord(restart_orphan_lease_ids, i,
         {o \in restart_orphan_lease_ids[i] \ {l} : Holds(o) /\ status[o[1]] = "leased"})
    /\ UNCHANGED <<jobVars, leaseVars, settleVars, budgetVars, tableVars, executors,
                   restart_durable_replay_lease_ids, cancel_calls>>

-----------------------------------------------------------------------------

\* A log of which only the limits are set; the empty log sets none.
InitWith(configured) ==
    /\ request = [j \in JobIds |-> None]
    /\ status = [j \in JobIds |-> "absent"]
    /\ attempts = [j \in JobIds |-> 0]
    /\ lease = [j \in JobIds |-> 0]
    /\ result = [j \in JobIds |-> None]
    /\ accounting_result = [j \in JobIds |-> 0]
    /\ late_result = [j \in JobIds |-> 0]
    /\ order = << >>
    /\ leases = {} /\ lease_history = {}
    /\ lease_worker = [l \in Leases |-> None]
    /\ lease_environment = [l \in Leases |-> None]
    /\ active_leases = [w \in Workers |-> {}]
    /\ durable_replay_lease_ids = {} /\ result_completion_leases = {}
    /\ provisional_results = [l \in Leases |-> None]
    /\ late_completion_leases = {} /\ late_completions = 0
    /\ limits = configured
    /\ reserved = [a \in Accounts |-> Zero]
    /\ consumed = [a \in Accounts |-> Zero]
    /\ descriptor = [w \in Workers |-> None]
    /\ cohort_lanes = [k \in Campaigns \X Cohorts |-> None]
    /\ cohort_environments = [k \in Campaigns \X Cohorts |-> None]
    /\ evidence_grants = {} /\ expired = {} /\ dispatched = {}
    /\ synced = Instances
    /\ executors = [i \in Instances |-> {}]
    /\ restart_orphan_lease_ids = [i \in Instances |-> {}]
    /\ restart_durable_replay_lease_ids = [i \in Instances |-> {}]
    /\ cancel_calls = [i \in Instances |-> {}]
    /\ charge = [l \in Leases |-> Zero]

Init == InitWith([a \in Accounts |-> Zero])

Administer(i) ==
    \/ \E cfg \in Configurations : ConfigureCampaign(i, cfg)
    \/ \E d \in Descriptors, executor \in BOOLEAN : RegisterWorker(i, d, executor)
    \/ \E w \in Workers : BindExecutor(i, w)
    \/ \E g \in Grants : GrantEvidenceShare(i, g)
    \/ \E r \in Requests : Enqueue(i, r)
    \/ RecordNotice(i)

Claim(i) == \E w \in Workers, j \in JobIds : ClaimJob(i, w, j) \/ ExhaustJob(i, w, j)

Complete(i) == \E l \in Leases, r \in Results :
    \/ CompleteRequeued(i, l, r)
    \/ CompleteFinished(i, l, r)
    \/ CompleteCanceling(i, l, r)
    \/ CompleteLate(i, l, r)

Cancel(i) ==
    \/ \E j \in JobIds : CancelQueued(i, j) \/ CancelRequested(i, j) \/ SealActive(i, j)
    \/ \E l \in Leases : CancelConfirmed(i, l) \/ CancelUnconfirmed(i, l)

Reconcile(i) == \E j \in JobIds :
    \/ ReconcileCanceling(i, j)
    \/ \E wall \in LeaseWalls : ReconcileRequeued(i, j, wall) \/ ReconcileFailed(i, j, wall)

Next ==
    \/ \E i \in Instances :
         \/ Administer(i)
         \/ Claim(i)
         \/ Complete(i)
         \/ Cancel(i)
         \/ Reconcile(i)
         \/ \E w \in Workers, l \in Leases : Heartbeat(i, w, l)
         \/ \E l \in Leases : ResumeOrphan(i, l)
         \/ Restart(i)
    \/ \E l \in Leases : Expire(l)

Spec == Init /\ [][Next]_vars

\* One poll of run_scheduler_service, as far as it concerns an expired lease of
\* job j: reconcile(), then the wave that claim_expired_restart_leases begins.
Poll(j) == \E i \in Instances :
    \/ ReconcileCanceling(i, j)
    \/ \E wall \in LeaseWalls : ReconcileRequeued(i, j, wall) \/ ReconcileFailed(i, j, wall)
    \/ \E l \in Leases : l[1] = j /\ ResumeOrphan(i, l)

\* What a running service guarantees.  Time passes: a lease nobody heartbeats
\* expires.  The service polls, and one that died or fell behind is started
\* again.  Workers need not answer and their heartbeats may stop or go on.
Fairness ==
    /\ \A l \in Leases : WF_vars(\/ Expire(l)
                                 \/ l \notin expired /\ \E i \in Instances, w \in Workers : Heartbeat(i, w, l))
    /\ \A j \in JobIds : SF_vars(Poll(j))
    /\ WF_vars(synced = {} /\ \E i \in Instances : Restart(i))

FairSpec == Spec /\ Fairness

-----------------------------------------------------------------------------
(* Properties. *)

JobTypes ==
    /\ request \in [JobIds -> Requests \cup {None}]
    /\ status \in [JobIds -> Statuses \cup {"absent"}]
    /\ attempts \in [JobIds -> 0 .. MaxAttempts]
    /\ lease \in [JobIds -> 0 .. MaxAttempts]
    /\ result \in [JobIds -> ScoredResults \cup {None}]
    /\ accounting_result \in [JobIds -> 0 .. MaxAttempts]
    /\ late_result \in [JobIds -> 0 .. MaxAttempts]
    /\ order \in Seq(JobIds)
LeaseTypes ==
    /\ leases \subseteq Leases /\ lease_history \subseteq Leases
    /\ lease_worker \in [Leases -> Workers \cup {None}]
    /\ lease_environment \in [Leases -> Environments \cup {None}]
    /\ active_leases \in [Workers -> SUBSET Leases]
    /\ durable_replay_lease_ids \subseteq Leases
SettleTypes ==
    /\ result_completion_leases \subseteq Leases /\ late_completion_leases \subseteq Leases
    /\ provisional_results \in [Leases -> Budgets \cup {None}]
    /\ late_completions \in Nat
    /\ charge \in [Leases -> Budgets]
BudgetTypes ==
    /\ limits \in [Accounts -> Budgets]
    /\ reserved \in [Accounts -> Budgets]
    /\ consumed \in [Accounts -> Budgets]
TableTypes ==
    /\ descriptor \in [Workers -> Descriptors \cup {None}]
    /\ cohort_lanes \in [Campaigns \X Cohorts -> Lanes \cup {None}]
    /\ cohort_environments \in [Campaigns \X Cohorts -> Environments \cup {None}]
    /\ evidence_grants \subseteq Grants
WorldTypes == expired \subseteq Leases /\ dispatched \subseteq Leases
ObjectTypes ==
    /\ synced \subseteq Instances
    /\ executors \in [Instances -> SUBSET Workers]
    /\ restart_orphan_lease_ids \in [Instances -> SUBSET Leases]
    /\ restart_durable_replay_lease_ids \in [Instances -> SUBSET Leases]
    /\ cancel_calls \in [Instances -> SUBSET Leases]

Types == /\ JobTypes /\ LeaseTypes /\ SettleTypes /\ BudgetTypes
         /\ TableTypes /\ WorldTypes /\ ObjectTypes

\* Type correctness.  That an attempt never exceeds max_attempts is part of it:
\* claim() does not check, it relies on what requeues a job.
TypeOK ==
    /\ Types
    /\ \A j \in JobIds : status[j] # "absent" => /\ request[j] # None
                                                 /\ attempts[j] <= request[j].max_attempts

\* _leases, _JobState.lease, _WorkerState.active_leases and the job's status are
\* four records of who runs what; they agree after every event, whatever the
\* order of completions, cancellations, expiries and re-registrations.
LeaseIndexesAgree ==
    /\ \A j \in JobIds, n \in 1 .. MaxAttempts : <<j, n>> \in leases <=> lease[j] = n
    /\ \A w \in Workers, l \in Leases : l \in active_leases[w] <=> l \in leases /\ lease_worker[l] = w
    /\ \A j \in JobIds : /\ lease[j] # 0 <=> status[j] \in {"leased", "canceling"}
                         /\ lease[j] # 0 => lease[j] = attempts[j]

\* Every lease ever issued is held or has been settled, never both: no path
\* out of a lease skips the charge, and no late result reopens one.
EveryLeaseSettled ==
    /\ \A j \in JobIds, n \in 1 .. MaxAttempts : <<j, n>> \in lease_history <=> n <= attempts[j]
    /\ leases \cup result_completion_leases = lease_history
    /\ leases \cap result_completion_leases = {}

\* A provisional charge is replaced at most once: a lease counted as late is
\* never provisional again, and late_completions counts each such lease once.
LateCountedOnce ==
    /\ late_completions = Cardinality(late_completion_leases)
    /\ late_completion_leases \subseteq result_completion_leases
    /\ \A l \in Leases : IsProvisional(l) => l \in result_completion_leases \ late_completion_leases

\* The scored result of a job is that of its last attempt and decides its
\* status; results of expired or superseded leases never replace it.
ScoredResultIsLastAttempt ==
    \A j \in JobIds :
        /\ result[j] # None <=> status[j] \in {"succeeded", "candidate_failed", "infrastructure_failed"}
        /\ result[j] # None => /\ result[j].attempt = attempts[j]
                               /\ status[j] = StatusByOutcome[result[j].outcome]

\* What the invariants above rest on: a job is queued only while it has attempts
\* left, a held lease is one of a worker, and finitely many leases were late.
AttemptsLeft ==
    /\ \A j \in JobIds :
        /\ status[j] = "absent" => attempts[j] = 0
        /\ status[j] = "queued" => attempts[j] < request[j].max_attempts
        /\ lease[j] # 0 => lease_worker[LeaseOf(j)] \in Workers
    /\ IsFiniteSet(late_completion_leases)

\* The inductive invariant.
SchedulerInv == /\ TypeOK /\ AttemptsLeft /\ LeaseIndexesAgree /\ EveryLeaseSettled
                /\ LateCountedOnce /\ ScoredResultIsLastAttempt

\* claim() never exceeds max_concurrency, on whichever object it is called.
GlobalConcurrency == Cardinality(leases) <= MaxConcurrency

\* All attempts of a matched cohort ran in one environment and one lane, even
\* when workers are registered again with another descriptor in between.
MatchedCohort ==
    \A l, m \in lease_history :
        LET r == request[l[1]]
            q == request[m[1]] IN
        r.cohort_id # None /\ r.cohort_id = q.cohort_id /\ r.campaign_id = q.campaign_id
            => lease_environment[l] = lease_environment[m] /\ r.lane = q.lane

\* A lease with durable replay that every scheduler object inherited from the
\* log is never followed by a new one on the grounds that it expired: the job
\* moves to another attempt only because of the lease's own result.
InheritedLeaseNotReissued ==
    \A l \in Leases :
        (\A i \in Instances : l \in restart_durable_replay_lease_ids[i]) /\ attempts[l[1]] > l[2]
            => Settled(l) /\ ~IsProvisional(l) /\ l \notin late_completion_leases

\* A terminal status is final.
TerminalIsFinal ==
    [][\A j \in JobIds : status[j] \in TerminalStatuses =>
            status'[j] = status[j] /\ result'[j] = result[j] /\ attempts'[j] = attempts[j]]_vars

\* Once a lease is charged what its result reports, that charge is final.
FinalChargeIsFinal ==
    [][\A l \in Leases : Settled(l) /\ ~IsProvisional(l) =>
            (Settled(l) /\ ~IsProvisional(l))' /\ charge'[l] = charge[l]]_vars

\* A cancellation always ends, although the worker may never answer, the object
\* that asked for it may die and heartbeats may go on: canceling leases are not
\* extended, so they expire, and whichever object is alive then seals the job.
CancelingEnds == \A j \in JobIds : status[j] = "canceling" ~> status[j] = "canceled"

\* No expired lease is left alone: reconcile() skips a restarted lease that can
\* be replayed only when the following wave resumes it, so its job never stays
\* leased to a worker that is gone.
ExpiredLeaseHandled == \A l \in Leases : l \in expired ~> l \notin expired

\* No lease stays in between: cancellations end and expired leases are handled.
LeasesEnd == CancelingEnds /\ ExpiredLeaseHandled

=============================================================================
