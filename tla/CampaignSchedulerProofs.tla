---------------------- MODULE CampaignSchedulerProofs ----------------------
(***************************************************************************)
(* Proofs about CampaignScheduler, for any number of objects, workers,     *)
(* jobs, attempts and budget dimensions.                                   *)
(***************************************************************************)
EXTENDS CampaignAccounting, FiniteSetTheorems, TLAPS

-----------------------------------------------------------------------------
(* Budgets are closed under the scheduler's arithmetic. *)

\* SchedulerBudget.add, subtract and _normalized_consumption return budgets.
LEMMA BudgetClosed ==
    /\ Zero \in Budgets
    /\ \A a, b \in Budgets : Plus(a, b) \in Budgets /\ Minus(a, b) \in Budgets
    /\ \A b \in Budgets : NormalizedConsumption(b) \in Budgets
<1>1. Zero \in Budgets
  BY DEF Zero, Budgets
<1>2. \A a, b \in Budgets : Plus(a, b) \in Budgets
  BY DEF Plus, Budgets
<1>3. \A a, b \in Budgets : Minus(a, b) \in Budgets
  BY DEF Minus, Budgets
<1>4. \A b \in Budgets : NormalizedConsumption(b) \in Budgets
  BY DEF NormalizedConsumption, Budgets
<1> QED BY <1>1, <1>2, <1>3, <1>4

\* The fields of requests and results that the accounting reads.
LEMMA RequestFacts ==
    ASSUME NEW r \in Requests
    PROVE  /\ r.job_id \in JobIds
           /\ r.reservation \in Budgets
           /\ r.max_attempts \in 1 .. MaxAttempts
           /\ r # None
BY RequestsAssumption, NoneAssumption DEF RequestType

LEMMA ResultFacts ==
    ASSUME NEW r \in Results
    PROVE  r.consumed \in Budgets /\ r.outcome \in Outcomes
BY ResultsAssumption DEF ResultType

\* The provisional charges of a cancellation and of an expiry are budgets.
LEMMA ProvisionalFacts ==
    ASSUME NEW r \in Requests
    PROVE  /\ ProvisionalCancellation(r) \in Budgets
           /\ \A wall \in LeaseWalls : ProvisionalExpiry(r, wall) \in Budgets
<1>1. ProvisionalCancellation(r) \in Budgets
  BY BudgetClosed, RequestFacts DEF ProvisionalCancellation
<1>2. ASSUME NEW wall \in LeaseWalls PROVE ProvisionalExpiry(r, wall) \in Budgets
  BY <1>1, LeaseWallsAssumption DEF ProvisionalExpiry, Budgets
<1> QED BY <1>1, <1>2

-----------------------------------------------------------------------------
\* A log of which only the limits are set.
LEMMA ConfiguredInit ==
    ASSUME NEW configured \in [Accounts -> Budgets], InitWith(configured)
    PROVE  SchedulerInv
<1> USE BoundsAssumption DEF InitWith
<1>1. JobTypes /\ LeaseTypes /\ WorldTypes /\ ObjectTypes
  BY DEF JobTypes, LeaseTypes, WorldTypes, ObjectTypes
<1>2. SettleTypes /\ BudgetTypes
  BY BudgetClosed DEF SettleTypes, BudgetTypes
<1>3. TableTypes
  BY DEF TableTypes
<1>4. TypeOK
  BY <1>1, <1>2, <1>3 DEF TypeOK, Types
<1>5. AttemptsLeft /\ LeaseIndexesAgree /\ EveryLeaseSettled
  BY FS_EmptySet DEF AttemptsLeft, LeaseIndexesAgree, EveryLeaseSettled
<1>6. LateCountedOnce
  BY FS_EmptySet DEF LateCountedOnce, IsProvisional
<1>7. ScoredResultIsLastAttempt
  BY DEF ScoredResultIsLastAttempt
<1> QED BY <1>4, <1>5, <1>6, <1>7 DEF SchedulerInv

\* The empty log.
LEMMA SchedulerInit == Init => SchedulerInv
<1>1. [a \in Accounts |-> Zero] \in [Accounts -> Budgets]
  BY BudgetClosed
<1> QED BY <1>1, ConfiguredInit DEF Init

-----------------------------------------------------------------------------
(* The end of a lease. *)

\* A held lease is the last attempt of a job that has a request and a worker.
LEMMA HeldLease ==
    ASSUME SchedulerInv, NEW j \in JobIds, lease[j] # 0
    PROVE  /\ lease[j] = attempts[j] /\ lease[j] \in 1 .. MaxAttempts
           /\ LeaseOf(j) \in leases /\ LeaseOf(j) \in Leases
           /\ lease_worker[LeaseOf(j)] \in Workers
           /\ request[j] \in Requests
           /\ LeaseOf(j) \notin result_completion_leases
           /\ status[j] \in {"leased", "canceling"} /\ result[j] = None
<1>1. lease[j] \in 1 .. MaxAttempts
  BY DEF SchedulerInv, TypeOK, Types, JobTypes
<1>2. lease[j] = attempts[j] /\ LeaseOf(j) \in leases /\ status[j] \in {"leased", "canceling"}
  BY <1>1 DEF SchedulerInv, LeaseIndexesAgree, LeaseOf
<1>3. LeaseOf(j) \in Leases
  BY <1>1 DEF LeaseOf, Leases
<1>4. request[j] \in Requests
  BY <1>2 DEF SchedulerInv, TypeOK, Types, JobTypes
<1>5. lease_worker[LeaseOf(j)] \in Workers
  BY DEF SchedulerInv, AttemptsLeft
<1>6. LeaseOf(j) \notin result_completion_leases
  BY <1>2 DEF SchedulerInv, EveryLeaseSettled
<1>7. result[j] = None
  BY <1>2 DEF SchedulerInv, ScoredResultIsLastAttempt
<1> QED BY <1>1, <1>2, <1>3, <1>4, <1>5, <1>6, <1>7

\* What Settle, whichever event it is part of, does to the types.
LEMMA SettleTyped ==
    ASSUME SchedulerInv, NEW j \in JobIds, lease[j] # 0, NEW amount \in Budgets,
           Settle(j, amount, TRUE) \/ Settle(j, amount, FALSE)
    PROVE  /\ lease' \in [JobIds -> 0 .. MaxAttempts]
           /\ LeaseTypes' /\ SettleTypes' /\ BudgetTypes'
           /\ expired' \subseteq Leases
<1> DEFINE l == LeaseOf(j)
<1>0. l \in Leases /\ lease_worker[l] \in Workers /\ request[j].reservation \in Budgets
  BY HeldLease, RequestFacts
<1>1. ReleaseLease(j) /\ AccountResult(l, amount)
  BY DEF Settle
<1>2. lease' \in [JobIds -> 0 .. MaxAttempts] /\ expired' \subseteq Leases
  BY <1>1, BoundsAssumption DEF ReleaseLease, SchedulerInv, TypeOK, Types, JobTypes, WorldTypes
<1>3. LeaseTypes'
  BY <1>0, <1>1 DEF Settle, ReleaseLease, SchedulerInv, TypeOK, Types, LeaseTypes
<1>4. SettleTypes'
  BY <1>0, <1>1 DEF Settle, AccountResult, SchedulerInv, TypeOK, Types, SettleTypes
<1>5. BudgetTypes'
  <2>1. reserved' \in [Accounts -> Budgets]
    BY <1>0, <1>1, BudgetClosed DEF ReleaseLease, SchedulerInv, TypeOK, Types, BudgetTypes
  <2>2. consumed' \in [Accounts -> Budgets]
    BY <1>0, <1>1, BudgetClosed DEF AccountResult, SchedulerInv, TypeOK, Types, BudgetTypes
  <2> QED BY <2>1, <2>2 DEF Settle, SchedulerInv, TypeOK, Types, BudgetTypes
<1> QED BY <1>2, <1>3, <1>4, <1>5
\* A released lease leaves every index, and becomes a settled one.
LEMMA ReleaseIndexes ==
    ASSUME SchedulerInv, NEW j \in JobIds, lease[j] # 0, ReleaseLease(j),
           NEW s \in Statuses \ {"leased", "canceling"},
           status' = [status EXCEPT ![j] = s],
           s = "queued" => attempts[j] < request[j].max_attempts,
           result_completion_leases' = result_completion_leases \cup {LeaseOf(j)},
           IsFiniteSet(late_completion_leases'),
           UNCHANGED <<request, attempts, lease_history, lease_worker>>
    PROVE  LeaseIndexesAgree' /\ EveryLeaseSettled' /\ AttemptsLeft'
<1> DEFINE l == LeaseOf(j)
<1> USE DEF SchedulerInv
<1>0. /\ l \in leases /\ l \notin result_completion_leases
      /\ l \in Leases /\ lease_worker[l] \in Workers
  BY HeldLease
<1>1. /\ lease' = [lease EXCEPT ![j] = 0] /\ leases' = leases \ {l}
      /\ active_leases' = [active_leases EXCEPT ![lease_worker[l]] = @ \ {l}]
  BY DEF ReleaseLease
<1>2. /\ \A k \in JobIds : lease'[k] = (IF k = j THEN 0 ELSE lease[k])
      /\ \A k \in JobIds : status'[k] = (IF k = j THEN s ELSE status[k])
  BY <1>1 DEF TypeOK, Types, JobTypes
<1>3. LeaseIndexesAgree'
  <2>1. ASSUME NEW k \in JobIds, NEW n \in 1 .. MaxAttempts
        PROVE  <<k, n>> \in leases' <=> lease'[k] = n
    <3>1. <<k, n>> \in leases <=> lease[k] = n
      BY DEF LeaseIndexesAgree
    <3>2. <<k, n>> = l <=> k = j /\ n = lease[j]
      BY DEF LeaseOf
    <3> QED BY <1>1, <1>2, <3>1, <3>2
  <2>2. ASSUME NEW w \in Workers, NEW m \in Leases
        PROVE  m \in active_leases'[w] <=> m \in leases' /\ lease_worker'[m] = w
    BY <1>0, <1>1 DEF LeaseIndexesAgree, TypeOK, Types, LeaseTypes
  <2>3. ASSUME NEW k \in JobIds
        PROVE  /\ lease'[k] # 0 <=> status'[k] \in {"leased", "canceling"}
               /\ lease'[k] # 0 => lease'[k] = attempts'[k]
    BY <1>2 DEF LeaseIndexesAgree
  <2> QED BY <2>1, <2>2, <2>3 DEF LeaseIndexesAgree
<1>4. EveryLeaseSettled'
  BY <1>0, <1>1 DEF EveryLeaseSettled
<1>5. AttemptsLeft'
  <2>1. ASSUME NEW k \in JobIds
        PROVE  /\ status'[k] = "absent" => attempts'[k] = 0
               /\ status'[k] = "queued" => attempts'[k] < request'[k].max_attempts
               /\ lease'[k] # 0 => lease_worker'[LeaseOf(k)'] \in Workers
    BY <1>2 DEF AttemptsLeft, Statuses, TerminalStatuses, LeaseOf
  <2> QED BY <2>1 DEF AttemptsLeft
<1> QED BY <1>3, <1>4, <1>5

\* job_requeued, job_lease_failed, job_canceled and job_finished of a held lease
\* preserve the invariant: the job goes to status s, with a scored result just
\* when s is the status of one.
LEMMA SettleStep ==
    ASSUME SchedulerInv, NEW j \in JobIds, lease[j] # 0, NEW amount \in Budgets,
           Settle(j, amount, TRUE) \/ Settle(j, amount, FALSE),
           NEW s \in Statuses \ {"leased", "canceling"},
           status' = [status EXCEPT ![j] = s],
           s = "queued" => attempts[j] < request[j].max_attempts,
           \/ /\ s \in {"queued", "canceled"} /\ result' = result
           \/ \E o \in Outcomes : /\ s = StatusByOutcome[o]
                                  /\ result' = [result EXCEPT ![j] = [attempt |-> lease[j], outcome |-> o]],
           accounting_result' \in [JobIds -> 0 .. MaxAttempts],
           UNCHANGED <<request, attempts, late_result, order, tableVars, dispatched>>,
           ObjectTypes'
    PROVE  SchedulerInv'
<1> DEFINE l == LeaseOf(j)
<1>0. /\ l \in Leases /\ l \in leases /\ lease_worker[l] \in Workers /\ request[j] \in Requests
      /\ lease[j] = attempts[j] /\ lease[j] \in 1 .. MaxAttempts
      /\ l \notin result_completion_leases
      /\ status[j] \in {"leased", "canceling"} /\ result[j] = None
  BY HeldLease
<1>1. ReleaseLease(j) /\ AccountResult(l, amount)
  BY DEF Settle
<1>2. /\ lease' = [lease EXCEPT ![j] = 0] /\ leases' = leases \ {l}
      /\ active_leases' = [active_leases EXCEPT ![lease_worker[l]] = @ \ {l}]
      /\ result_completion_leases' = result_completion_leases \cup {l}
      /\ UNCHANGED <<lease_history, lease_worker, late_completion_leases, late_completions>>
  BY <1>1 DEF Settle, ReleaseLease
<1>3. \A k \in Leases \ {l} : provisional_results'[k] = provisional_results[k]
  BY <1>0 DEF Settle, SchedulerInv, TypeOK, Types, SettleTypes
<1>4. result' \in [JobIds -> ScoredResults \cup {None}]
  <2>1. result \in [JobIds -> ScoredResults \cup {None}]
    BY DEF SchedulerInv, TypeOK, Types, JobTypes
  <2>2. \A o \in Outcomes : [attempt |-> lease[j], outcome |-> o] \in ScoredResults
    BY <1>0 DEF ScoredResults
  <2> QED BY <2>1, <2>2
<1>5. TypeOK'
  <2>1. JobTypes'
    BY <1>4, SettleTyped DEF SchedulerInv, TypeOK, Types, JobTypes
  <2>2. LeaseTypes' /\ SettleTypes' /\ BudgetTypes' /\ WorldTypes'
    BY SettleTyped DEF SchedulerInv, TypeOK, Types, WorldTypes
  <2>3. TableTypes'
    BY DEF SchedulerInv, TypeOK, Types, TableTypes, tableVars
  <2>4. \A k \in JobIds : status'[k] # "absent" => status[k] # "absent"
    BY <1>0 DEF SchedulerInv, TypeOK, Types, JobTypes
  <2> QED BY <2>1, <2>2, <2>3, <2>4 DEF SchedulerInv, TypeOK, Types
<1>6. LeaseIndexesAgree' /\ EveryLeaseSettled' /\ AttemptsLeft'
  <2>1. IsFiniteSet(late_completion_leases')
    BY <1>2 DEF SchedulerInv, AttemptsLeft
  <2> QED BY <1>1, <1>2, <2>1, ReleaseIndexes
<1>7. LateCountedOnce'
  <2>1. ASSUME NEW k \in Leases, IsProvisional(k)'
        PROVE  k \in result_completion_leases' \ late_completion_leases'
    <3>1. CASE k = l
      BY <3>1, <1>0, <1>2 DEF SchedulerInv, LateCountedOnce
    <3>2. CASE k # l
      BY <3>2, <1>2, <1>3, <2>1 DEF SchedulerInv, LateCountedOnce, IsProvisional
    <3> QED BY <3>1, <3>2
  <2> QED BY <1>2, <2>1 DEF SchedulerInv, LateCountedOnce
<1>8. ScoredResultIsLastAttempt'
  <2>1. ASSUME NEW k \in JobIds, k # j
        PROVE  result'[k] = result[k] /\ status'[k] = status[k] /\ attempts'[k] = attempts[k]
    BY <2>1 DEF SchedulerInv, TypeOK, Types, JobTypes
  <2>2. CASE s \in {"queued", "canceled"} /\ result' = result
    <3>1. result'[j] = None /\ status'[j] = s
      BY <2>2, <1>0 DEF SchedulerInv, TypeOK, Types, JobTypes
    <3> QED BY <2>1, <2>2, <3>1 DEF SchedulerInv, ScoredResultIsLastAttempt
  <2>3. ASSUME NEW o \in Outcomes, s = StatusByOutcome[o],
               result' = [result EXCEPT ![j] = [attempt |-> lease[j], outcome |-> o]]
        PROVE  ScoredResultIsLastAttempt'
    <3>1. result'[j] = [attempt |-> attempts'[j], outcome |-> o] /\ status'[j] = s
      BY <2>3, <1>0 DEF SchedulerInv, TypeOK, Types, JobTypes
    <3>2. result'[j] # None
      BY <3>1, <1>0, NoneAssumption DEF ScoredResults
    <3>3. s \in {"succeeded", "candidate_failed", "infrastructure_failed"}
      BY <2>3 DEF StatusByOutcome, Outcomes
    <3> QED BY <2>1, <2>3, <3>1, <3>2, <3>3 DEF SchedulerInv, ScoredResultIsLastAttempt
  <2> QED BY <2>2, <2>3
<1> QED BY <1>5, <1>6, <1>7, <1>8 DEF SchedulerInv
-----------------------------------------------------------------------------
(* Steps that leave jobs, leases and charges alone, or only rename a status. *)

\* Steps of administration, time, heartbeats and restarts.
LEMMA Untouched ==
    ASSUME SchedulerInv, UNCHANGED <<jobVars, leaseVars, settleVars>>,
           BudgetTypes', TableTypes', WorldTypes', ObjectTypes'
    PROVE  SchedulerInv'
<1> USE DEF SchedulerInv, jobVars, leaseVars, settleVars
<1>1. JobTypes' /\ LeaseTypes' /\ SettleTypes'
  BY DEF TypeOK, Types, JobTypes, LeaseTypes, SettleTypes
<1>2. TypeOK'
  BY <1>1 DEF TypeOK, Types
<1>3. AttemptsLeft' /\ LeaseIndexesAgree'
  BY DEF AttemptsLeft, LeaseIndexesAgree, LeaseOf
<1>4. EveryLeaseSettled' /\ LateCountedOnce' /\ ScoredResultIsLastAttempt'
  BY DEF EveryLeaseSettled, LateCountedOnce, IsProvisional, ScoredResultIsLastAttempt
<1> QED BY <1>2, <1>3, <1>4

\* job_canceled before dispatch, job_budget_exhausted, job_cancel_requested.
LEMMA Restatus ==
    ASSUME SchedulerInv, NEW j \in JobIds, NEW s,
           \/ status[j] = "queued" /\ s \in {"canceled", "budget_exhausted"}
           \/ status[j] = "leased" /\ s = "canceling",
           status' = [status EXCEPT ![j] = s],
           UNCHANGED <<request, attempts, lease, result, accounting_result, late_result, order,
                       leaseVars, settleVars, budgetVars, tableVars, worldVars>>,
           ObjectTypes'
    PROVE  SchedulerInv'
<1> USE DEF SchedulerInv
<1>1. \A k \in JobIds : status'[k] = IF k = j THEN s ELSE status[k]
  BY DEF TypeOK, Types, JobTypes
<1>2. JobTypes'
  BY DEF TypeOK, Types, JobTypes, Statuses, TerminalStatuses
<1>3. LeaseTypes' /\ SettleTypes' /\ BudgetTypes' /\ TableTypes' /\ WorldTypes'
  BY DEF TypeOK, Types, LeaseTypes, SettleTypes, BudgetTypes, TableTypes, WorldTypes,
         leaseVars, settleVars, budgetVars, tableVars, worldVars
<1>4. TypeOK'
  BY <1>1, <1>2, <1>3 DEF TypeOK, Types
<1>5. AttemptsLeft'
  BY <1>1 DEF AttemptsLeft, LeaseOf, leaseVars, settleVars
<1>6. LeaseIndexesAgree'
  BY <1>1 DEF LeaseIndexesAgree, leaseVars
<1>7. EveryLeaseSettled' /\ LateCountedOnce'
  BY DEF EveryLeaseSettled, LateCountedOnce, IsProvisional, leaseVars, settleVars
<1>8. ScoredResultIsLastAttempt'
  BY <1>1 DEF ScoredResultIsLastAttempt
<1> QED BY <1>4, <1>5, <1>6, <1>7, <1>8

\* enqueue adds a job that has made no attempt.
LEMMA EnqueueStep ==
    ASSUME SchedulerInv, NEW i \in Instances, NEW r \in Requests, Enqueue(i, r)
    PROVE  SchedulerInv'
<1> DEFINE j == r.job_id
<1> USE DEF SchedulerInv
<1>0. /\ j \in JobIds /\ r # None /\ r.max_attempts \in 1 .. MaxAttempts /\ status[j] = "absent"
      /\ synced' \subseteq Instances
  BY RequestFacts DEF Enqueue, Record
<1>1. /\ \A k \in JobIds : status'[k] = (IF k = j THEN "queued" ELSE status[k])
      /\ \A k \in JobIds : request'[k] = (IF k = j THEN r ELSE request[k])
      /\ UNCHANGED <<attempts, lease, result, leaseVars, settleVars>>
  BY <1>0 DEF Enqueue, TypeOK, Types, JobTypes
<1>2. JobTypes'
  BY <1>0 DEF Enqueue, TypeOK, Types, JobTypes, Statuses
<1>3. LeaseTypes' /\ SettleTypes' /\ BudgetTypes' /\ WorldTypes'
  BY DEF Enqueue, TypeOK, Types, LeaseTypes, SettleTypes, BudgetTypes, WorldTypes,
         leaseVars, settleVars, budgetVars, worldVars
<1>4. TableTypes'
  <2>1. cohort_lanes' \in [Campaigns \X Cohorts -> Lanes \cup {None}]
    <3>1. r.lane \in Lanes
      BY RequestsAssumption DEF RequestType
    <3> QED BY <3>1 DEF Enqueue, TypeOK, Types, TableTypes
  <2> QED BY <2>1 DEF Enqueue, TypeOK, Types, TableTypes
<1>5. ObjectTypes'
  BY <1>0 DEF Enqueue, TypeOK, Types, ObjectTypes, objectVars
<1>6. \A k \in JobIds : status[k] = "absent" => attempts[k] = 0
  BY DEF AttemptsLeft
<1>7. TypeOK'
  BY <1>0, <1>1, <1>2, <1>3, <1>4, <1>5, <1>6 DEF TypeOK, Types
<1>8. AttemptsLeft'
  BY <1>0, <1>1, <1>6 DEF AttemptsLeft, LeaseOf, leaseVars, settleVars
<1>9. LeaseIndexesAgree'
  BY <1>0, <1>1 DEF LeaseIndexesAgree, leaseVars
<1>10. EveryLeaseSettled' /\ LateCountedOnce'
  BY <1>1 DEF EveryLeaseSettled, LateCountedOnce, IsProvisional, leaseVars, settleVars
<1>11. ScoredResultIsLastAttempt'
  BY <1>0, <1>1 DEF ScoredResultIsLastAttempt
<1> QED BY <1>7, <1>8, <1>9, <1>10, <1>11
-----------------------------------------------------------------------------
\* A job that claim() visits is queued and has attempts left.
LEMMA VisitedJob ==
    ASSUME SchedulerInv, NEW w, NEW j \in JobIds, FirstVisited(w, j)
    PROVE  /\ status[j] = "queued" /\ request[j] \in Requests
           /\ attempts[j] \in 0 .. MaxAttempts - 1
           /\ attempts[j] < request[j].max_attempts
<1>1. status[j] = "queued"
  BY DEF FirstVisited, Visits
<1>2. request[j] \in Requests /\ attempts[j] < request[j].max_attempts /\ attempts[j] \in 0 .. MaxAttempts
  BY <1>1 DEF SchedulerInv, TypeOK, Types, JobTypes, AttemptsLeft
<1> QED BY <1>1, <1>2, RequestFacts, BoundsAssumption

\* job_leased: the next attempt of a queued job.
LEMMA ClaimStep ==
    ASSUME SchedulerInv, NEW i \in Instances, NEW w \in Workers, NEW j \in JobIds, ClaimJob(i, w, j)
    PROVE  SchedulerInv'
<1> DEFINE n == attempts[j] + 1
           l == <<j, n>>
           d == descriptor[w]
<1> USE DEF SchedulerInv
<1>0. /\ status[j] = "queued" /\ request[j] \in Requests /\ n \in 1 .. MaxAttempts
      /\ n <= request[j].max_attempts /\ request[j].reservation \in Budgets
      /\ synced' \subseteq Instances /\ l \in Leases
  <2>1. FirstVisited(w, j) /\ synced' \subseteq Instances
    BY DEF ClaimJob, Record
  <2> QED BY <2>1, VisitedJob, RequestFacts, BoundsAssumption DEF Leases
<1>1. d \in Descriptors /\ EnvironmentFingerprint(d) \in Environments
  BY DEF ClaimJob, TypeOK, Types, TableTypes, Environments
<1>2. /\ status' = [status EXCEPT ![j] = "leased"]
      /\ attempts' = [attempts EXCEPT ![j] = n]
      /\ lease' = [lease EXCEPT ![j] = n]
      /\ leases' = leases \cup {l} /\ lease_history' = lease_history \cup {l}
      /\ lease_worker' = [lease_worker EXCEPT ![l] = w]
      /\ active_leases' = [active_leases EXCEPT ![w] = @ \cup {l}]
      /\ UNCHANGED <<request, result, accounting_result, late_result, order, result_completion_leases,
                     provisional_results, late_completion_leases, late_completions, charge>>
  BY <1>0 DEF ClaimJob, settleVars, TypeOK, Types, JobTypes
<1>3. lease[j] = 0 /\ l \notin lease_history /\ l \notin leases
  <2>1. lease[j] = 0
    BY <1>0 DEF LeaseIndexesAgree
  <2>2. l \notin lease_history
    <3>1. ~(n <= attempts[j])
      BY <1>0 DEF TypeOK, Types, JobTypes
    <3> QED BY <1>0, <3>1 DEF EveryLeaseSettled
  <2> QED BY <2>1, <2>2 DEF EveryLeaseSettled
<1>4. \A k \in JobIds : /\ status'[k] = (IF k = j THEN "leased" ELSE status[k])
                        /\ attempts'[k] = (IF k = j THEN n ELSE attempts[k])
                        /\ lease'[k] = (IF k = j THEN n ELSE lease[k])
  BY <1>2 DEF TypeOK, Types, JobTypes
<1>5. \A m \in Leases : lease_worker'[m] = (IF m = l THEN w ELSE lease_worker[m])
  BY <1>0, <1>2 DEF TypeOK, Types, LeaseTypes
<1>6. TypeOK'
  <2>1. JobTypes'
    BY <1>0, <1>2 DEF TypeOK, Types, JobTypes, Statuses
  <2>2. LeaseTypes'
    <3>1. lease_environment' \in [Leases -> Environments \cup {None}]
      BY <1>0, <1>1 DEF ClaimJob, TypeOK, Types, LeaseTypes
    <3>2. durable_replay_lease_ids' \subseteq Leases
      BY <1>0 DEF ClaimJob, TypeOK, Types, LeaseTypes
    <3> QED BY <1>0, <1>2, <3>1, <3>2 DEF TypeOK, Types, LeaseTypes
  <2>3. SettleTypes'
    BY <1>2 DEF TypeOK, Types, SettleTypes
  <2>4. BudgetTypes'
    BY <1>0, BudgetClosed DEF ClaimJob, TypeOK, Types, BudgetTypes
  <2>5. TableTypes'
    <3>1. cohort_environments' \in [Campaigns \X Cohorts -> Environments \cup {None}]
      BY <1>1 DEF ClaimJob, TypeOK, Types, TableTypes
    <3> QED BY <3>1 DEF ClaimJob, TypeOK, Types, TableTypes
  <2>6. WorldTypes'
    BY <1>0 DEF ClaimJob, TypeOK, Types, WorldTypes
  <2>7. ObjectTypes'
    BY <1>0 DEF ClaimJob, TypeOK, Types, ObjectTypes, objectVars
  <2>8. \A k \in JobIds : status'[k] # "absent" => /\ request'[k] # None
                                                   /\ attempts'[k] <= request'[k].max_attempts
    BY <1>0, <1>2, <1>4 DEF TypeOK
  <2> QED BY <2>1, <2>2, <2>3, <2>4, <2>5, <2>6, <2>7, <2>8 DEF TypeOK, Types
<1>7. AttemptsLeft'
  <2>1. ASSUME NEW k \in JobIds, lease'[k] # 0 PROVE lease_worker'[LeaseOf(k)'] \in Workers
    <3>1. CASE k = j
      BY <3>1, <1>0, <1>4, <1>5 DEF LeaseOf
    <3>2. CASE k # j
      <4>1. LeaseOf(k)' = LeaseOf(k) /\ lease[k] # 0 /\ LeaseOf(k) # l
        BY <3>2, <2>1, <1>4 DEF LeaseOf
      <4>2. LeaseOf(k) \in Leases /\ lease_worker[LeaseOf(k)] \in Workers
        BY <4>1, HeldLease
      <4> QED BY <4>1, <4>2, <1>5
    <3> QED BY <3>1, <3>2
  <2> QED BY <2>1, <1>2, <1>4 DEF AttemptsLeft
<1>8. LeaseIndexesAgree'
  <2>1. ASSUME NEW k \in JobIds, NEW m \in 1 .. MaxAttempts
        PROVE  <<k, m>> \in leases' <=> lease'[k] = m
    <3>1. <<k, m>> \in leases <=> lease[k] = m
      BY DEF LeaseIndexesAgree
    <3> QED BY <3>1, <1>2, <1>3, <1>4
  <2>2. ASSUME NEW v \in Workers, NEW m \in Leases
        PROVE  m \in active_leases'[v] <=> m \in leases' /\ lease_worker'[m] = v
    <3>1. m \in active_leases[v] <=> m \in leases /\ lease_worker[m] = v
      BY DEF LeaseIndexesAgree
    <3>2. active_leases'[v] = (IF v = w THEN active_leases[v] \cup {l} ELSE active_leases[v])
      BY <1>2 DEF TypeOK, Types, LeaseTypes
    <3> QED BY <3>1, <3>2, <1>2, <1>3, <1>5
  <2>3. ASSUME NEW k \in JobIds
        PROVE  /\ lease'[k] # 0 <=> status'[k] \in {"leased", "canceling"}
               /\ lease'[k] # 0 => lease'[k] = attempts'[k]
    BY <1>0, <1>4 DEF LeaseIndexesAgree
  <2> QED BY <2>1, <2>2, <2>3 DEF LeaseIndexesAgree
<1>9. EveryLeaseSettled'
  <2>1. ASSUME NEW k \in JobIds, NEW m \in 1 .. MaxAttempts
        PROVE  <<k, m>> \in lease_history' <=> m <= attempts'[k]
    <3>1. <<k, m>> \in lease_history <=> m <= attempts[k]
      BY DEF EveryLeaseSettled
    <3>2. attempts[k] \in Nat
      BY DEF TypeOK, Types, JobTypes
    <3> QED BY <3>1, <3>2, <1>2, <1>4
  <2> QED BY <2>1, <1>2, <1>3 DEF EveryLeaseSettled
<1>10. LateCountedOnce'
  BY <1>2 DEF LateCountedOnce, IsProvisional
<1>11. ScoredResultIsLastAttempt'
  BY <1>0, <1>2, <1>4 DEF ScoredResultIsLastAttempt
<1> QED BY <1>6, <1>7, <1>8, <1>9, <1>10, <1>11
-----------------------------------------------------------------------------
(* Late results. *)

\* One more late lease is one more late completion.
LEMMA LateCount ==
    ASSUME NEW S, NEW x, IsFiniteSet(S), x \notin S
    PROVE  IsFiniteSet(S \cup {x}) /\ Cardinality(S \cup {x}) = Cardinality(S) + 1
BY FS_AddElement

\* job_canceled_late of a lease that is still held.
LEMMA CompleteCancelingStep ==
    ASSUME SchedulerInv, NEW i \in Instances, NEW l \in Leases, NEW r \in Results,
           CompleteCanceling(i, l, r)
    PROVE  SchedulerInv'
<1> DEFINE j == l[1]
           amount == NormalizedConsumption(r.consumed)
<1> USE DEF SchedulerInv
<1>0. /\ j \in JobIds /\ l = LeaseOf(j) /\ status[j] = "canceling" /\ amount \in Budgets
      /\ synced' \subseteq Instances /\ lease[j] # 0
  <2>1. /\ j \in JobIds /\ l = LeaseOf(j) /\ status[j] = "canceling" /\ synced' \subseteq Instances
    BY DEF CompleteCanceling, Holds, Leases, Record
  <2>2. amount \in Budgets
    BY ResultFacts, BudgetClosed
  <2> QED BY <2>1, <2>2 DEF LeaseIndexesAgree
<1>1. /\ l \in leases /\ lease_worker[l] \in Workers /\ request[j].reservation \in Budgets
      /\ l \notin result_completion_leases /\ lease[j] = attempts[j] /\ result[j] = None
      /\ l[2] = lease[j] /\ lease[j] \in 1 .. MaxAttempts
  BY <1>0, HeldLease, RequestFacts DEF LeaseOf
<1>2. l \notin late_completion_leases
  BY <1>1 DEF LateCountedOnce
<1>3. /\ ReleaseLease(j) /\ AccountResult(l, amount)
      /\ status' = [status EXCEPT ![j] = "canceled"]
      /\ late_completion_leases' = late_completion_leases \cup {l}
      /\ result_completion_leases' = result_completion_leases \cup {l}
      /\ late_completions' = late_completions + 1
      /\ UNCHANGED <<request, attempts, result, order, lease_history, lease_worker, lease_environment,
                     durable_replay_lease_ids, provisional_results, limits>>
  BY DEF CompleteCanceling
<1>4. /\ IsFiniteSet(late_completion_leases')
      /\ Cardinality(late_completion_leases') = Cardinality(late_completion_leases) + 1
  BY <1>2, <1>3, LateCount DEF AttemptsLeft
<1>5. LeaseIndexesAgree' /\ EveryLeaseSettled' /\ AttemptsLeft'
  <2>1. "canceled" \in Statuses \ {"leased", "canceling"} /\ "canceled" # "queued"
    BY DEF Statuses, TerminalStatuses
  <2> QED BY <1>0, <1>3, <1>4, <2>1, ReleaseIndexes
<1>6. LateCountedOnce'
  BY <1>1, <1>3, <1>4 DEF LateCountedOnce, IsProvisional
<1>7. ScoredResultIsLastAttempt'
  <2>1. \A k \in JobIds : status'[k] = (IF k = j THEN "canceled" ELSE status[k])
    BY <1>3 DEF TypeOK, Types, JobTypes
  <2> QED BY <2>1, <1>1, <1>3 DEF ScoredResultIsLastAttempt
<1>8. TypeOK'
  <2>1. JobTypes'
    <3>1. lease' \in [JobIds -> 0 .. MaxAttempts]
      <4>1. lease' = [lease EXCEPT ![j] = 0] /\ lease \in [JobIds -> 0 .. MaxAttempts]
        BY <1>3 DEF ReleaseLease, TypeOK, Types, JobTypes
      <4> QED BY <1>0, <4>1, BoundsAssumption
    <3>2. /\ late_result' \in [JobIds -> 0 .. MaxAttempts]
          /\ accounting_result' \in [JobIds -> 0 .. MaxAttempts]
      BY <1>1 DEF CompleteCanceling, TypeOK, Types, JobTypes
    <3> QED BY <1>3, <3>1, <3>2 DEF TypeOK, Types, JobTypes, Statuses, TerminalStatuses
  <2>2. LeaseTypes'
    BY <1>0, <1>1, <1>3 DEF ReleaseLease, TypeOK, Types, LeaseTypes
  <2>3. SettleTypes'
    BY <1>0, <1>3 DEF AccountResult, TypeOK, Types, SettleTypes
  <2>4. BudgetTypes'
    <3>1. reserved' \in [Accounts -> Budgets]
      BY <1>1, <1>3, BudgetClosed DEF ReleaseLease, TypeOK, Types, BudgetTypes
    <3>2. consumed' \in [Accounts -> Budgets]
      BY <1>0, <1>3, BudgetClosed DEF AccountResult, TypeOK, Types, BudgetTypes
    <3> QED BY <1>3, <3>1, <3>2 DEF TypeOK, Types, BudgetTypes
  <2>5. TableTypes' /\ ObjectTypes' /\ WorldTypes'
    BY <1>0, <1>3 DEF CompleteCanceling, ReleaseLease, TypeOK, Types, TableTypes, ObjectTypes, WorldTypes,
                      tableVars, objectVars
  <2>6. \A k \in JobIds : status'[k] # "absent" => status[k] # "absent"
    BY <1>0, <1>3 DEF TypeOK, Types, JobTypes
  <2> QED BY <1>3, <2>1, <2>2, <2>3, <2>4, <2>5, <2>6 DEF TypeOK, Types
<1> QED BY <1>5, <1>6, <1>7, <1>8

\* job_canceled_late and job_stale_completed of a lease that was taken back.
LEMMA CompleteLateStep ==
    ASSUME SchedulerInv, NEW i \in Instances, NEW l \in Leases, NEW r \in Results,
           CompleteLate(i, l, r)
    PROVE  SchedulerInv'
<1> DEFINE j == l[1]
           amount == NormalizedConsumption(r.consumed)
<1> USE DEF SchedulerInv
<1>0. /\ j \in JobIds /\ l[2] \in 1 .. MaxAttempts /\ amount \in Budgets /\ synced' \subseteq Instances
      /\ SettleLate(l, amount) /\ UNCHANGED <<status, result>>
  <2>1. amount \in Budgets
    BY ResultFacts, BudgetClosed
  <2> QED BY <2>1 DEF CompleteLate, Record, Leases
<1>1. l \in result_completion_leases /\ IsProvisional(l)
  BY DEF CompleteLate, EveryLeaseSettled, Settled
<1>2. l \notin late_completion_leases /\ provisional_results[l] \in Budgets
  BY <1>1 DEF LateCountedOnce, IsProvisional, TypeOK, Types, SettleTypes
<1>3. /\ ReplaceAccountedResult(l, provisional_results[l], amount)
      /\ provisional_results' = [provisional_results EXCEPT ![l] = None]
      /\ late_completion_leases' = late_completion_leases \cup {l}
      /\ result_completion_leases' = result_completion_leases
      /\ late_completions' = late_completions + 1
      /\ UNCHANGED <<request, attempts, lease, order, leaseVars, limits, reserved, tableVars, worldVars,
                     objectVars>>
  BY <1>0, <1>1 DEF SettleLate
<1>4. /\ IsFiniteSet(late_completion_leases')
      /\ Cardinality(late_completion_leases') = Cardinality(late_completion_leases) + 1
  BY <1>2, <1>3, LateCount DEF AttemptsLeft
<1>5. LeaseIndexesAgree' /\ EveryLeaseSettled' /\ AttemptsLeft' /\ ScoredResultIsLastAttempt'
  BY <1>0, <1>3, <1>4 DEF LeaseIndexesAgree, EveryLeaseSettled, AttemptsLeft, LeaseOf,
                          ScoredResultIsLastAttempt, leaseVars
<1>6. LateCountedOnce'
  <2>1. ASSUME NEW k \in Leases, IsProvisional(k)'
        PROVE  k \in result_completion_leases' \ late_completion_leases'
    <3>1. k # l /\ IsProvisional(k)
      BY <1>3, <2>1 DEF IsProvisional, TypeOK, Types, SettleTypes
    <3> QED BY <1>3, <3>1 DEF LateCountedOnce
  <2> QED BY <1>1, <1>3, <1>4, <2>1 DEF LateCountedOnce
<1>7. TypeOK'
  <2>1. JobTypes'
    BY <1>0, <1>3 DEF SettleLate, TypeOK, Types, JobTypes
  <2>2. LeaseTypes' /\ TableTypes' /\ WorldTypes' /\ ObjectTypes'
    BY <1>0, <1>3 DEF TypeOK, Types, LeaseTypes, TableTypes, WorldTypes, ObjectTypes,
                      leaseVars, tableVars, worldVars, objectVars
  <2>3. SettleTypes'
    BY <1>0, <1>3 DEF ReplaceAccountedResult, TypeOK, Types, SettleTypes
  <2>4. BudgetTypes'
    BY <1>0, <1>2, <1>3, BudgetClosed DEF ReplaceAccountedResult, TypeOK, Types, BudgetTypes
  <2> QED BY <1>0, <1>3, <2>1, <2>2, <2>3, <2>4 DEF TypeOK, Types
<1> QED BY <1>5, <1>6, <1>7
-----------------------------------------------------------------------------
(* Every step. *)

\* An append, acknowledged or not, leaves the object's sets well formed.
LEMMA RecordTyped ==
    ASSUME SchedulerInv, NEW i \in Instances, Record(i)
    PROVE  /\ synced' \subseteq Instances
           /\ UNCHANGED objectVars => ObjectTypes'
BY DEF Record, SchedulerInv, TypeOK, Types, ObjectTypes, objectVars

\* Configuration, workers, evidence and notices.
LEMMA AdministerStep ==
    ASSUME SchedulerInv, NEW i \in Instances, Administer(i)
    PROVE  SchedulerInv'
<1>1. ASSUME NEW cfg \in Configurations, ConfigureCampaign(i, cfg) PROVE SchedulerInv'
  <2>1. BudgetTypes'
    BY <1>1, ConfigurationsAssumption DEF ConfigureCampaign, SchedulerInv, TypeOK, Types, BudgetTypes
  <2>2. TableTypes' /\ WorldTypes' /\ ObjectTypes'
    BY <1>1, RecordTyped DEF ConfigureCampaign, SchedulerInv, TypeOK, Types, TableTypes, WorldTypes,
                             tableVars, worldVars
  <2> QED BY <1>1, <2>1, <2>2, Untouched DEF ConfigureCampaign
<1>2. ASSUME NEW d \in Descriptors, NEW executor \in BOOLEAN, RegisterWorker(i, d, executor)
      PROVE  SchedulerInv'
  <2>1. d.worker_id \in Workers /\ synced' \subseteq Instances
    BY <1>2, DescriptorsAssumption, RecordTyped DEF DescriptorType, RegisterWorker
  <2>2. TableTypes'
    BY <1>2, <2>1 DEF RegisterWorker, SchedulerInv, TypeOK, Types, TableTypes
  <2>3. executors' \in [Instances -> SUBSET Workers]
    <3>1. \/ executors' = executors
          \/ executors' = [executors EXCEPT ![i] = executors[i] \cup {d.worker_id}]
          \/ executors' = [executors EXCEPT ![i] = @]
      BY <1>2 DEF RegisterWorker, AfterRecord
    <3> QED BY <2>1, <3>1 DEF SchedulerInv, TypeOK, Types, ObjectTypes
  <2>4. BudgetTypes' /\ WorldTypes' /\ ObjectTypes'
    BY <1>2, <2>1, <2>3 DEF RegisterWorker, SchedulerInv, TypeOK, Types, BudgetTypes, WorldTypes, ObjectTypes,
                            budgetVars, worldVars
  <2> QED BY <1>2, <2>2, <2>4, Untouched DEF RegisterWorker
<1>3. ASSUME NEW w \in Workers, BindExecutor(i, w) PROVE SchedulerInv'
  <2>1. BudgetTypes' /\ TableTypes' /\ WorldTypes' /\ ObjectTypes'
    BY <1>3 DEF BindExecutor, SchedulerInv, TypeOK, Types, BudgetTypes, TableTypes, WorldTypes, ObjectTypes,
                budgetVars, tableVars, worldVars
  <2> QED BY <1>3, <2>1, Untouched DEF BindExecutor
<1>4. ASSUME NEW g \in Grants, GrantEvidenceShare(i, g) PROVE SchedulerInv'
  <2>1. EvidenceCost(g) \in Budgets
    BY GrantsAssumption DEF GrantType, EvidenceCost, Budgets
  <2>2. BudgetTypes'
    BY <1>4, <2>1, BudgetClosed DEF GrantEvidenceShare, SchedulerInv, TypeOK, Types, BudgetTypes
  <2>3. TableTypes' /\ WorldTypes' /\ ObjectTypes'
    BY <1>4, RecordTyped DEF GrantEvidenceShare, SchedulerInv, TypeOK, Types, TableTypes, WorldTypes, worldVars
  <2> QED BY <1>4, <2>2, <2>3, Untouched DEF GrantEvidenceShare
<1>5. ASSUME NEW r \in Requests, Enqueue(i, r) PROVE SchedulerInv'
  BY <1>5, EnqueueStep
<1>6. ASSUME RecordNotice(i) PROVE SchedulerInv'
  <2>1. BudgetTypes' /\ TableTypes' /\ WorldTypes' /\ ObjectTypes'
    BY <1>6, RecordTyped DEF RecordNotice, SchedulerInv, TypeOK, Types, BudgetTypes, TableTypes, WorldTypes,
                             budgetVars, tableVars, worldVars
  <2> QED BY <1>6, <2>1, Untouched DEF RecordNotice
<1> QED BY <1>1, <1>2, <1>3, <1>4, <1>5, <1>6 DEF Administer
\* One iteration of claim().
LEMMA ClaimStepOrExhaust ==
    ASSUME SchedulerInv, NEW i \in Instances, Claim(i)
    PROVE  SchedulerInv'
<1>1. ASSUME NEW w \in Workers, NEW j \in JobIds, ExhaustJob(i, w, j) PROVE SchedulerInv'
  <2>1. status[j] = "queued" /\ ObjectTypes'
    BY <1>1, VisitedJob, RecordTyped DEF ExhaustJob
  <2> QED BY <1>1, <2>1, Restatus DEF ExhaustJob
<1> QED BY <1>1, ClaimStep DEF Claim

\* complete() of a lease that is held, or of one that was taken back.
LEMMA CompleteStep ==
    ASSUME SchedulerInv, NEW i \in Instances, Complete(i)
    PROVE  SchedulerInv'
<1>1. PICK l \in Leases, r \in Results :
         \/ CompleteRequeued(i, l, r) \/ CompleteFinished(i, l, r)
         \/ CompleteCanceling(i, l, r) \/ CompleteLate(i, l, r)
  BY DEF Complete
<1> DEFINE j == l[1]
           amount == NormalizedConsumption(r.consumed)
<1>2. j \in JobIds /\ amount \in Budgets /\ r.outcome \in Outcomes
  BY ResultFacts, BudgetClosed DEF Leases
<1>3. accounting_result \in [JobIds -> 0 .. MaxAttempts]
  BY DEF SchedulerInv, TypeOK, Types, JobTypes
<1>4. CASE CompleteRequeued(i, l, r)
  <2>1. /\ status[j] = "leased" /\ attempts[j] < request[j].max_attempts
        /\ Settle(j, amount, FALSE) /\ status' = [status EXCEPT ![j] = "queued"]
        /\ Record(i)
        /\ UNCHANGED <<request, attempts, result, accounting_result, late_result, order, tableVars,
                       dispatched, objectVars>>
    BY <1>4 DEF CompleteRequeued
  <2>2. lease[j] # 0 /\ ObjectTypes' /\ "queued" \in Statuses \ {"leased", "canceling"}
    BY <1>2, <2>1, RecordTyped DEF SchedulerInv, LeaseIndexesAgree, Statuses
  <2> QED BY <1>2, <1>3, <2>1, <2>2, SettleStep
<1>5. CASE CompleteFinished(i, l, r)
  <2>1. /\ status[j] = "leased" /\ LeaseOf(j) = l
        /\ Settle(j, amount, FALSE) /\ status' = [status EXCEPT ![j] = StatusByOutcome[r.outcome]]
        /\ result' = [result EXCEPT ![j] = [attempt |-> l[2], outcome |-> r.outcome]]
        /\ Record(i)
        /\ UNCHANGED <<request, attempts, accounting_result, late_result, order, tableVars,
                       dispatched, objectVars>>
    BY <1>5 DEF CompleteFinished, Holds
  <2>2. lease[j] # 0 /\ ObjectTypes' /\ l[2] = lease[j]
    BY <1>2, <2>1, RecordTyped DEF SchedulerInv, LeaseIndexesAgree, LeaseOf
  <2>3. StatusByOutcome[r.outcome] \in Statuses \ {"leased", "canceling", "queued"}
    BY <1>2 DEF StatusByOutcome, Outcomes, Statuses, TerminalStatuses
  <2> QED BY <1>2, <1>3, <2>1, <2>2, <2>3, SettleStep
<1> QED BY <1>1, <1>4, <1>5, CompleteCancelingStep, CompleteLateStep

\* job_canceled of a held lease.
LEMMA CancelChargedStep ==
    ASSUME SchedulerInv, NEW i \in Instances, NEW j \in JobIds, status[j] \in {"leased", "canceling"},
           CancelCharged(i, j), ObjectTypes'
    PROVE  SchedulerInv'
<1>1. /\ Settle(j, ProvisionalCancellation(request[j]), TRUE)
      /\ status' = [status EXCEPT ![j] = "canceled"]
      /\ accounting_result' = [accounting_result EXCEPT ![j] = lease[j]]
      /\ UNCHANGED <<request, attempts, result, late_result, order, tableVars, dispatched>>
  BY DEF CancelCharged
<1>2. lease[j] # 0 /\ "canceled" \in Statuses \ {"leased", "canceling"}
  BY DEF SchedulerInv, LeaseIndexesAgree, Statuses, TerminalStatuses
<1>3. ProvisionalCancellation(request[j]) \in Budgets
  BY <1>2, HeldLease, ProvisionalFacts
<1>4. accounting_result' \in [JobIds -> 0 .. MaxAttempts]
  BY <1>1 DEF SchedulerInv, TypeOK, Types, JobTypes
<1> QED BY <1>1, <1>2, <1>3, <1>4, SettleStep

\* cancel() and cancel_active_jobs().
LEMMA CancelStep ==
    ASSUME SchedulerInv, NEW i \in Instances, Cancel(i)
    PROVE  SchedulerInv'
<1>1. ASSUME NEW j \in JobIds, CancelQueued(i, j) PROVE SchedulerInv'
  <2>1. ObjectTypes'
    BY <1>1, RecordTyped DEF CancelQueued
  <2> QED BY <1>1, <2>1, Restatus DEF CancelQueued
<1>2. ASSUME NEW j \in JobIds, CancelRequested(i, j) PROVE SchedulerInv'
  <2>1. synced' \subseteq Instances /\ LeaseOf(j) \in Leases
    BY <1>2, RecordTyped, HeldLease DEF CancelRequested
  <2>2. cancel_calls' \in [Instances -> SUBSET Leases]
    <3>1. \/ cancel_calls' = cancel_calls
          \/ cancel_calls' = [cancel_calls EXCEPT ![i] = cancel_calls[i] \cup {LeaseOf(j)}]
          \/ cancel_calls' = [cancel_calls EXCEPT ![i] = @]
      BY <1>2 DEF CancelRequested, AfterRecord
    <3> QED BY <2>1, <3>1 DEF SchedulerInv, TypeOK, Types, ObjectTypes
  <2>3. ObjectTypes'
    BY <1>2, <2>1, <2>2 DEF CancelRequested, SchedulerInv, TypeOK, Types, ObjectTypes
  <2> QED BY <1>2, <2>3, Restatus DEF CancelRequested
<1>3. ASSUME NEW j \in JobIds, SealActive(i, j) PROVE SchedulerInv'
  <2>1. ObjectTypes'
    BY <1>3, RecordTyped DEF SealActive, CancelCharged
  <2> QED BY <1>3, <2>1, CancelChargedStep DEF SealActive
<1>4. ASSUME NEW l \in Leases, CancelConfirmed(i, l) PROVE SchedulerInv'
  <2>1. l[1] \in JobIds /\ synced' \subseteq Instances
    BY <1>4, RecordTyped DEF Leases, CancelConfirmed, CancelCharged
  <2>2. ObjectTypes'
    BY <1>4, <2>1 DEF CancelConfirmed, SchedulerInv, TypeOK, Types, ObjectTypes
  <2> QED BY <1>4, <2>1, <2>2, CancelChargedStep DEF CancelConfirmed
<1>5. ASSUME NEW l \in Leases, CancelUnconfirmed(i, l) PROVE SchedulerInv'
  <2>1. BudgetTypes' /\ TableTypes' /\ WorldTypes' /\ ObjectTypes'
    BY <1>5 DEF CancelUnconfirmed, SchedulerInv, TypeOK, Types, BudgetTypes, TableTypes, WorldTypes, ObjectTypes,
                budgetVars, tableVars, worldVars
  <2> QED BY <1>5, <2>1, Untouched DEF CancelUnconfirmed
<1> QED BY <1>1, <1>2, <1>3, <1>4, <1>5 DEF Cancel

\* reconcile().
LEMMA ReconcileStep ==
    ASSUME SchedulerInv, NEW i \in Instances, Reconcile(i)
    PROVE  SchedulerInv'
<1>0. accounting_result \in [JobIds -> 0 .. MaxAttempts]
  BY DEF SchedulerInv, TypeOK, Types, JobTypes
<1>1. ASSUME NEW j \in JobIds, ReconcileCanceling(i, j) PROVE SchedulerInv'
  <2>1. ObjectTypes'
    BY <1>1, RecordTyped DEF ReconcileCanceling, CancelCharged
  <2> QED BY <1>1, <2>1, CancelChargedStep DEF ReconcileCanceling
<1>2. ASSUME NEW j \in JobIds, NEW wall \in LeaseWalls, ReconcileRequeued(i, j, wall) PROVE SchedulerInv'
  <2>1. /\ status[j] = "leased" /\ Record(i)
        /\ Settle(j, ProvisionalExpiry(request[j], wall), TRUE)
        /\ status' = [status EXCEPT ![j] = "queued"]
        /\ UNCHANGED <<request, attempts, result, accounting_result, late_result, order, tableVars,
                       dispatched, objectVars>>
    BY <1>2 DEF ReconcileRequeued
  <2>2. attempts[j] < request[j].max_attempts
    BY <1>2 DEF ReconcileRequeued, RetryExpired
  <2>3. lease[j] # 0 /\ ObjectTypes' /\ "queued" \in Statuses \ {"leased", "canceling"}
    BY <2>1, RecordTyped DEF SchedulerInv, LeaseIndexesAgree, Statuses
  <2>4. ProvisionalExpiry(request[j], wall) \in Budgets
    BY <2>3, HeldLease, ProvisionalFacts
  <2> QED BY <1>0, <2>1, <2>2, <2>3, <2>4, SettleStep
<1>3. ASSUME NEW j \in JobIds, NEW wall \in LeaseWalls, ReconcileFailed(i, j, wall) PROVE SchedulerInv'
  <2>1. /\ status[j] = "leased" /\ Record(i)
        /\ Settle(j, ProvisionalExpiry(request[j], wall), TRUE)
        /\ status' = [status EXCEPT ![j] = "infrastructure_failed"]
        /\ result' = [result EXCEPT ![j] = [attempt |-> lease[j], outcome |-> "infrastructure_failure"]]
        /\ UNCHANGED <<request, attempts, accounting_result, late_result, order, tableVars,
                       dispatched, objectVars>>
    BY <1>3 DEF ReconcileFailed
  <2>2. /\ "infrastructure_failure" \in Outcomes
        /\ StatusByOutcome["infrastructure_failure"] = "infrastructure_failed"
        /\ "infrastructure_failed" \in Statuses \ {"leased", "canceling"}
        /\ "infrastructure_failed" # "queued"
    BY DEF StatusByOutcome, Outcomes, Statuses, TerminalStatuses
  <2>3. lease[j] # 0 /\ ObjectTypes'
    BY <2>1, RecordTyped DEF SchedulerInv, LeaseIndexesAgree
  <2>4. ProvisionalExpiry(request[j], wall) \in Budgets
    BY <2>3, HeldLease, ProvisionalFacts
  <2> QED BY <1>0, <2>1, <2>2, <2>3, <2>4, SettleStep
<1> QED BY <1>1, <1>2, <1>3 DEF Reconcile

\* Time, heartbeats, restarts and the resumption of orphans.
LEMMA EnvironmentStep ==
    ASSUME SchedulerInv
    PROVE  /\ \A l \in Leases : Expire(l) => SchedulerInv'
           /\ \A i \in Instances, w \in Workers, l \in Leases : Heartbeat(i, w, l) => SchedulerInv'
           /\ \A i \in Instances, l \in Leases : ResumeOrphan(i, l) => SchedulerInv'
           /\ \A i \in Instances : Restart(i) => SchedulerInv'
<1> USE DEF SchedulerInv, TypeOK, Types, BudgetTypes, TableTypes, WorldTypes, budgetVars, tableVars
<1>1. ASSUME NEW l \in Leases, Expire(l) PROVE SchedulerInv'
  <2>1. BudgetTypes' /\ TableTypes' /\ WorldTypes' /\ ObjectTypes'
    BY <1>1 DEF Expire, ObjectTypes, objectVars
  <2> QED BY <1>1, <2>1, Untouched DEF Expire
<1>2. ASSUME NEW i \in Instances, NEW w \in Workers, NEW l \in Leases, Heartbeat(i, w, l) PROVE SchedulerInv'
  <2>1. BudgetTypes' /\ TableTypes' /\ WorldTypes' /\ ObjectTypes'
    BY <1>2, RecordTyped DEF Heartbeat
  <2> QED BY <1>2, <2>1, Untouched DEF Heartbeat
<1>3. ASSUME NEW i \in Instances, NEW l \in Leases, ResumeOrphan(i, l) PROVE SchedulerInv'
  <2>1. restart_orphan_lease_ids' \in [Instances -> SUBSET Leases]
    <3>1. \/ restart_orphan_lease_ids' = [restart_orphan_lease_ids EXCEPT ![i] =
                 {o \in restart_orphan_lease_ids[i] \ {l} : Holds(o) /\ status[o[1]] = "leased"}]
          \/ restart_orphan_lease_ids' = [restart_orphan_lease_ids EXCEPT ![i] = @]
      BY <1>3 DEF ResumeOrphan, AfterRecord
    <3> QED BY <3>1 DEF ObjectTypes
  <2>2. synced' \subseteq Instances
    BY <1>3, RecordTyped DEF ResumeOrphan
  <2>3. BudgetTypes' /\ TableTypes' /\ WorldTypes' /\ ObjectTypes'
    BY <1>3, <2>1, <2>2 DEF ResumeOrphan, ObjectTypes
  <2> QED BY <1>3, <2>3, Untouched DEF ResumeOrphan
<1>4. ASSUME NEW i \in Instances, Restart(i) PROVE SchedulerInv'
  <2> DEFINE orphans == {LeaseOf(j) : j \in {k \in Jobs : status[k] = "leased" /\ lease[k] # 0}}
  <2>1. orphans \subseteq Leases
    BY HeldLease DEF Jobs
  <2>2. BudgetTypes' /\ TableTypes' /\ WorldTypes'
    BY <1>4 DEF Restart, worldVars
  <2>3. /\ restart_orphan_lease_ids' = [restart_orphan_lease_ids EXCEPT ![i] = orphans]
        /\ restart_durable_replay_lease_ids' =
              [restart_durable_replay_lease_ids EXCEPT ![i] = orphans \cap durable_replay_lease_ids]
        /\ synced' = synced \cup {i}
        /\ executors' = [executors EXCEPT ![i] = {}] /\ cancel_calls' = [cancel_calls EXCEPT ![i] = {}]
    BY <1>4 DEF Restart
  <2> HIDE DEF orphans
  <2>4. ObjectTypes'
    BY <2>1, <2>3 DEF ObjectTypes
  <2> QED BY <1>4, <2>2, <2>4, Untouched DEF Restart
<1> QED BY <1>1, <1>2, <1>3, <1>4

\* Every step of the scheduler preserves the inductive invariant.
LEMMA SchedulerStep == SchedulerInv /\ [Next]_vars => SchedulerInv'
<1> SUFFICES ASSUME SchedulerInv, [Next]_vars PROVE SchedulerInv'
  OBVIOUS
<1>1. ASSUME NEW i \in Instances, Administer(i) PROVE SchedulerInv'
  BY <1>1, AdministerStep
<1>2. ASSUME NEW i \in Instances, Claim(i) PROVE SchedulerInv'
  BY <1>2, ClaimStepOrExhaust
<1>3. ASSUME NEW i \in Instances, Complete(i) PROVE SchedulerInv'
  BY <1>3, CompleteStep
<1>4. ASSUME NEW i \in Instances, Cancel(i) PROVE SchedulerInv'
  BY <1>4, CancelStep
<1>5. ASSUME NEW i \in Instances, Reconcile(i) PROVE SchedulerInv'
  BY <1>5, ReconcileStep
<1>6. CASE UNCHANGED vars
  <2>1. BudgetTypes' /\ TableTypes' /\ WorldTypes' /\ ObjectTypes'
    BY <1>6 DEF SchedulerInv, TypeOK, Types, BudgetTypes, TableTypes, WorldTypes, ObjectTypes,
                vars, budgetVars, tableVars, worldVars, objectVars
  <2> QED BY <1>6, <2>1, Untouched DEF vars
<1> QED BY <1>1, <1>2, <1>3, <1>4, <1>5, <1>6, EnvironmentStep DEF Next

\* Whatever the order of claims, completions, cancellations, expiries, late
\* results, restarts and unacknowledged appends, on any number of scheduler
\* objects: attempts stay within max_attempts, the four lease indexes agree,
\* every lease is held or settled, a late result counts once, and the scored
\* result is that of the last attempt.
THEOREM SchedulerSafe == Spec => []SchedulerInv
  BY SchedulerInit, SchedulerStep, PTL DEF Spec

(* Redelivered and reordered late results are counted once.                *)
THEOREM LateResultsCountOnce == Spec => []LateCountedOnce
<1>1. SchedulerInv => LateCountedOnce
  BY DEF SchedulerInv
<1> QED BY <1>1, SchedulerSafe, PTL

(* An abandoned attempt never provides the score of its job.               *)
THEOREM LastAttemptScores == Spec => []ScoredResultIsLastAttempt
<1>1. SchedulerInv => ScoredResultIsLastAttempt
  BY DEF SchedulerInv
<1> QED BY <1>1, SchedulerSafe, PTL

(* The four records of who runs what stay consistent with each other.      *)
THEOREM IndexesStayConsistent == Spec => []LeaseIndexesAgree
<1>1. SchedulerInv => LeaseIndexesAgree
  BY DEF SchedulerInv
<1> QED BY <1>1, SchedulerSafe, PTL


-----------------------------------------------------------------------------
(* Action properties. *)

\* Ending the held lease of job k leaves every job and every settled lease but
\* its own alone.
LEMMA SettleFrame ==
    ASSUME SchedulerInv, NEW k \in JobIds, lease[k] # 0, NEW amount,
           Settle(k, amount, TRUE) \/ Settle(k, amount, FALSE),
           NEW l \in Leases, Settled(l), ~IsProvisional(l)
    PROVE  (Settled(l) /\ ~IsProvisional(l))' /\ charge'[l] = charge[l]
<1>1. l # LeaseOf(k)
  BY HeldLease DEF Settled
<1>2. /\ result_completion_leases' = result_completion_leases \cup {LeaseOf(k)}
      /\ \/ provisional_results' = provisional_results
         \/ provisional_results' = [provisional_results EXCEPT ![LeaseOf(k)] = amount]
      /\ charge' = [charge EXCEPT ![LeaseOf(k)] = amount]
  BY DEF Settle, AccountResult
<1> QED BY <1>1, <1>2 DEF Settled, IsProvisional, SchedulerInv, TypeOK, Types, SettleTypes

\* The steps that end a lease: a job that had one, and status[k] and result[k].
LEMMA StepKinds ==
    ASSUME SchedulerInv, [Next]_vars
    PROVE  \/ UNCHANGED <<status, result, attempts, settleVars>>
           \/ \E k \in JobIds : \E s :
                /\ status[k] \notin TerminalStatuses
                /\ status' = [status EXCEPT ![k] = s]
                /\ \/ result' = result
                   \/ \E v : result' = [result EXCEPT ![k] = v]
                /\ \/ attempts' = attempts /\ UNCHANGED settleVars
                   \/ attempts' = [attempts EXCEPT ![k] = @ + 1] /\ UNCHANGED settleVars
                   \/ /\ attempts' = attempts /\ lease[k] # 0
                      /\ \E amount : Settle(k, amount, TRUE) \/ Settle(k, amount, FALSE)
           \/ \E i \in Instances, l \in Leases, r \in Results :
                CompleteCanceling(i, l, r) \/ CompleteLate(i, l, r)
<1> DEFINE Kind(k, s) ==
             /\ status[k] \notin TerminalStatuses
             /\ status' = [status EXCEPT ![k] = s]
             /\ \/ result' = result
                \/ \E v : result' = [result EXCEPT ![k] = v]
             /\ \/ attempts' = attempts /\ UNCHANGED settleVars
                \/ attempts' = [attempts EXCEPT ![k] = @ + 1] /\ UNCHANGED settleVars
                \/ /\ attempts' = attempts /\ lease[k] # 0
                   /\ \E amount : Settle(k, amount, TRUE) \/ Settle(k, amount, FALSE)
           Goal == \/ UNCHANGED <<status, result, attempts, settleVars>>
                   \/ \E k \in JobIds : \E s : Kind(k, s)
                   \/ \E i \in Instances, l \in Leases, r \in Results :
                        CompleteCanceling(i, l, r) \/ CompleteLate(i, l, r)
<1> SUFFICES Goal
  OBVIOUS
<1>0. /\ \A k \in JobIds : status[k] \in {"leased", "canceling"} => lease[k] # 0
      /\ \A s \in {"absent", "queued", "leased", "canceling"} : s \notin TerminalStatuses
  BY DEF SchedulerInv, LeaseIndexesAgree, TerminalStatuses
<1>1. ASSUME NEW i \in Instances, Administer(i) PROVE Goal
  <2>1. ASSUME NEW r \in Requests, Enqueue(i, r) PROVE Goal
    <3>1. Kind(r.job_id, "queued") /\ r.job_id \in JobIds
      BY <1>0, <2>1, RequestFacts DEF Enqueue
    <3> QED BY <3>1
  <2>2. CASE \/ \E cfg \in Configurations : ConfigureCampaign(i, cfg)
             \/ \E d \in Descriptors, executor \in BOOLEAN : RegisterWorker(i, d, executor)
             \/ \E w \in Workers : BindExecutor(i, w)
             \/ \E g \in Grants : GrantEvidenceShare(i, g)
             \/ RecordNotice(i)
    BY <2>2 DEF ConfigureCampaign, RegisterWorker, BindExecutor, GrantEvidenceShare, RecordNotice, jobVars
  <2> QED BY <1>1, <2>1, <2>2 DEF Administer
<1>2. ASSUME NEW i \in Instances, Claim(i) PROVE Goal
  <2>1. PICK w \in Workers, j \in JobIds : ClaimJob(i, w, j) \/ ExhaustJob(i, w, j)
    BY <1>2 DEF Claim
  <2>2. status[j] = "queued"
    BY <2>1 DEF ClaimJob, ExhaustJob, FirstVisited, Visits
  <2>3. CASE ClaimJob(i, w, j)
    <3>1. Kind(j, "leased")
      BY <1>0, <2>2, <2>3 DEF ClaimJob
    <3> QED BY <3>1
  <2>4. CASE ExhaustJob(i, w, j)
    <3>1. Kind(j, "budget_exhausted")
      BY <1>0, <2>2, <2>4 DEF ExhaustJob
    <3> QED BY <3>1
  <2> QED BY <2>1, <2>3, <2>4
<1>3. ASSUME NEW i \in Instances, Complete(i) PROVE Goal
  <2>1. PICK l \in Leases, r \in Results :
           \/ CompleteRequeued(i, l, r) \/ CompleteFinished(i, l, r)
           \/ CompleteCanceling(i, l, r) \/ CompleteLate(i, l, r)
    BY <1>3 DEF Complete
  <2>2. l[1] \in JobIds
    BY DEF Leases
  <2>3. CASE CompleteRequeued(i, l, r)
    <3>1. Kind(l[1], "queued")
      BY <1>0, <2>2, <2>3 DEF CompleteRequeued
    <3> QED BY <2>2, <3>1
  <2>4. CASE CompleteFinished(i, l, r)
    <3>1. Kind(l[1], StatusByOutcome[r.outcome])
      BY <1>0, <2>2, <2>4 DEF CompleteFinished
    <3> QED BY <2>2, <3>1
  <2> QED BY <2>1, <2>3, <2>4
<1>4. ASSUME NEW i \in Instances, NEW k \in JobIds, status[k] \in {"leased", "canceling"}, CancelCharged(i, k)
      PROVE  Goal
  <2>1. Kind(k, "canceled")
    BY <1>0, <1>4 DEF CancelCharged
  <2> QED BY <2>1
<1>5. ASSUME NEW i \in Instances, Cancel(i) PROVE Goal
  <2>1. ASSUME NEW j \in JobIds, CancelQueued(i, j) PROVE Goal
    <3>1. Kind(j, "canceled")
      BY <1>0, <2>1 DEF CancelQueued
    <3> QED BY <3>1
  <2>2. ASSUME NEW j \in JobIds, CancelRequested(i, j) PROVE Goal
    <3>1. Kind(j, "canceling")
      BY <1>0, <2>2 DEF CancelRequested
    <3> QED BY <3>1
  <2>3. ASSUME NEW j \in JobIds, SealActive(i, j) PROVE Goal
    BY <1>4, <2>3 DEF SealActive
  <2>4. ASSUME NEW l \in Leases, CancelConfirmed(i, l) PROVE Goal
    <3>1. l[1] \in JobIds
      BY DEF Leases
    <3> QED BY <1>4, <2>4, <3>1 DEF CancelConfirmed
  <2>5. ASSUME NEW l \in Leases, CancelUnconfirmed(i, l) PROVE Goal
    BY <2>5 DEF CancelUnconfirmed, jobVars
  <2> QED BY <1>5, <2>1, <2>2, <2>3, <2>4, <2>5 DEF Cancel
<1>6. ASSUME NEW i \in Instances, Reconcile(i) PROVE Goal
  <2>1. ASSUME NEW j \in JobIds, ReconcileCanceling(i, j) PROVE Goal
    BY <1>4, <2>1 DEF ReconcileCanceling
  <2>2. ASSUME NEW j \in JobIds, NEW wall \in LeaseWalls, ReconcileRequeued(i, j, wall) PROVE Goal
    <3>1. Kind(j, "queued")
      BY <1>0, <2>2 DEF ReconcileRequeued
    <3> QED BY <3>1
  <2>3. ASSUME NEW j \in JobIds, NEW wall \in LeaseWalls, ReconcileFailed(i, j, wall) PROVE Goal
    <3>1. Kind(j, "infrastructure_failed")
      BY <1>0, <2>3 DEF ReconcileFailed
    <3> QED BY <3>1
  <2> QED BY <1>6, <2>1, <2>2, <2>3 DEF Reconcile
<1>7. CASE \/ \E l \in Leases : Expire(l)
           \/ \E i \in Instances : \/ \E w \in Workers, l \in Leases : Heartbeat(i, w, l)
                                   \/ \E l \in Leases : ResumeOrphan(i, l)
                                   \/ Restart(i)
           \/ UNCHANGED vars
  BY <1>7 DEF Expire, Heartbeat, ResumeOrphan, Restart, vars, jobVars
<1> QED BY <1>1, <1>2, <1>3, <1>5, <1>6, <1>7 DEF Next

\* A finished job keeps its status, its result and its number of attempts,
\* whatever late results, cancellations and restarts follow.
THEOREM FinishedJobsStay == Spec => TerminalIsFinal
<1>1. ASSUME SchedulerInv, [Next]_vars, NEW j \in JobIds, status[j] \in TerminalStatuses
      PROVE  status'[j] = status[j] /\ result'[j] = result[j] /\ attempts'[j] = attempts[j]
  <2> USE <1>1 DEF SchedulerInv, TypeOK, Types, JobTypes
  <2>1. CASE UNCHANGED <<status, result, attempts, settleVars>>
    BY <2>1
  <2>2. ASSUME NEW k \in JobIds, NEW s, status[k] \notin TerminalStatuses,
               status' = [status EXCEPT ![k] = s],
               result' = result \/ \E v : result' = [result EXCEPT ![k] = v],
               attempts' = attempts \/ attempts' = [attempts EXCEPT ![k] = @ + 1]
        PROVE  status'[j] = status[j] /\ result'[j] = result[j] /\ attempts'[j] = attempts[j]
    <3>1. k # j
      BY <2>2
    <3> QED BY <2>2, <3>1
  <2>3. ASSUME NEW i \in Instances, NEW l \in Leases, NEW r \in Results,
               CompleteCanceling(i, l, r) \/ CompleteLate(i, l, r)
        PROVE  status'[j] = status[j] /\ result'[j] = result[j] /\ attempts'[j] = attempts[j]
    <3>1. CASE CompleteLate(i, l, r)
      BY <3>1 DEF CompleteLate, SettleLate
    <3>2. CASE CompleteCanceling(i, l, r)
      <4>1. l[1] # j
        BY <3>2 DEF CompleteCanceling, TerminalStatuses
      <4> QED BY <3>2, <4>1 DEF CompleteCanceling
    <3> QED BY <2>3, <3>1, <3>2
  <2> QED BY <2>1, <2>2, <2>3, StepKinds
<1>2. SchedulerInv /\ [Next]_vars =>
        [\A j \in JobIds : status[j] \in TerminalStatuses =>
            status'[j] = status[j] /\ result'[j] = result[j] /\ attempts'[j] = attempts[j]]_vars
  BY <1>1
<1> QED BY <1>2, SchedulerInit, SchedulerStep, PTL DEF Spec, TerminalIsFinal

\* A lease charged on its own result keeps that charge, and a result that was
\* on time does not become a late one.
LEMMA FinalStep ==
    ASSUME SchedulerInv, [Next]_vars, NEW l \in Leases, Settled(l), ~IsProvisional(l)
    PROVE  /\ (Settled(l) /\ ~IsProvisional(l))' /\ charge'[l] = charge[l]
           /\ l \in late_completion_leases' => l \in late_completion_leases
<1> DEFINE Stays == /\ (Settled(l) /\ ~IsProvisional(l))' /\ charge'[l] = charge[l]
                    /\ l \in late_completion_leases' => l \in late_completion_leases
<1>1. CASE UNCHANGED settleVars
  BY <1>1 DEF settleVars, Settled, IsProvisional
<1>2. ASSUME NEW k \in JobIds, lease[k] # 0, NEW amount,
             Settle(k, amount, TRUE) \/ Settle(k, amount, FALSE)
      PROVE  Stays
  <2>1. UNCHANGED late_completion_leases
    BY <1>2 DEF Settle
  <2> QED BY <1>2, <2>1, SettleFrame
<1>3. ASSUME NEW i \in Instances, NEW m \in Leases, NEW r \in Results, CompleteCanceling(i, m, r)
      PROVE  Stays
  <2>1. m # l
    BY <1>3 DEF CompleteCanceling, Holds, Settled, SchedulerInv, EveryLeaseSettled
  <2> QED BY <1>3, <2>1 DEF CompleteCanceling, AccountResult, Settled, IsProvisional,
                            SchedulerInv, TypeOK, Types, SettleTypes
<1>4. ASSUME NEW i \in Instances, NEW m \in Leases, NEW r \in Results, CompleteLate(i, m, r)
      PROVE  Stays
  <2>1. m # l
    BY <1>4 DEF CompleteLate
  <2>2. /\ result_completion_leases' = result_completion_leases \cup {m}
        /\ late_completion_leases' = late_completion_leases \cup {m}
        /\ provisional_results' = [provisional_results EXCEPT ![m] = None]
        /\ charge' = [charge EXCEPT ![m] = NormalizedConsumption(r.consumed)]
    BY <1>4 DEF CompleteLate, SettleLate, AccountResult, ReplaceAccountedResult
  <2> QED BY <2>1, <2>2 DEF Settled, IsProvisional, SchedulerInv, TypeOK, Types, SettleTypes
<1> QED BY <1>1, <1>2, <1>3, <1>4, StepKinds

\* What a lease is charged on its own result is never charged again, refunded or
\* replaced.
THEOREM FinalChargesStay == Spec => FinalChargeIsFinal
<1>1. SchedulerInv /\ [Next]_vars =>
        [\A l \in Leases : Settled(l) /\ ~IsProvisional(l) =>
            (Settled(l) /\ ~IsProvisional(l))' /\ charge'[l] = charge[l]]_vars
  BY FinalStep
<1> QED BY <1>1, SchedulerInit, SchedulerStep, PTL DEF Spec, FinalChargeIsFinal

-----------------------------------------------------------------------------
(* Matched cohorts. *)

\* The two tables of a cohort say what its jobs and its attempts share: the
\* lane of every submitted job, the environment of every lease ever issued.
LanesKept ==
    \A j \in JobIds : request[j] # None /\ request[j].cohort_id # None =>
        cohort_lanes[<<request[j].campaign_id, request[j].cohort_id>>] = request[j].lane
EnvironmentsKept ==
    \A l \in lease_history :
        /\ lease_environment[l] \in Environments
        /\ request[l[1]].cohort_id # None =>
             cohort_environments[<<request[l[1]].campaign_id, request[l[1]].cohort_id>>] = lease_environment[l]

LEMMA IssuedLease ==
    ASSUME SchedulerInv, NEW l \in lease_history
    PROVE  /\ l \in Leases /\ l[1] \in JobIds /\ l[2] \in 1 .. MaxAttempts /\ l = <<l[1], l[2]>>
           /\ l[2] <= attempts[l[1]] /\ attempts[l[1]] \in Nat /\ status[l[1]] # "absent"
           /\ request[l[1]] \in Requests
<1>1. l \in Leases /\ l[1] \in JobIds /\ l[2] \in 1 .. MaxAttempts /\ l = <<l[1], l[2]>>
  BY DEF SchedulerInv, TypeOK, Types, LeaseTypes, Leases
<1>2. l[2] <= attempts[l[1]] /\ attempts[l[1]] \in Nat
  BY <1>1 DEF SchedulerInv, EveryLeaseSettled, TypeOK, Types, JobTypes
<1>3. status[l[1]] # "absent"
  BY <1>1, <1>2 DEF SchedulerInv, AttemptsLeft
<1> QED BY <1>1, <1>2, <1>3 DEF SchedulerInv, TypeOK, Types, JobTypes

\* Only enqueue() and claim() write what the cohort's jobs and leases share.
LEMMA CohortFrame ==
    ASSUME [Next]_vars
    PROVE  \/ UNCHANGED <<request, lease_history, lease_environment, cohort_lanes, cohort_environments>>
           \/ \E i \in Instances, r \in Requests : Enqueue(i, r)
           \/ \E i \in Instances, w \in Workers, j \in JobIds : ClaimJob(i, w, j)
<1> DEFINE Same == UNCHANGED <<request, lease_history, lease_environment, cohort_lanes, cohort_environments>>
<1>1. CASE UNCHANGED vars
  BY <1>1 DEF vars, jobVars, leaseVars, tableVars
<1>2. ASSUME NEW i \in Instances, Administer(i)
      PROVE  Same \/ \E r \in Requests : Enqueue(i, r)
  BY <1>2 DEF Administer, ConfigureCampaign, RegisterWorker, BindExecutor, GrantEvidenceShare, RecordNotice,
              jobVars, leaseVars, tableVars
<1>3. ASSUME NEW i \in Instances, Claim(i)
      PROVE  Same \/ \E w \in Workers, j \in JobIds : ClaimJob(i, w, j)
  BY <1>3 DEF Claim, ExhaustJob, leaseVars, tableVars
<1>4. ASSUME NEW i \in Instances, Complete(i)
      PROVE  Same
  BY <1>4 DEF Complete, CompleteRequeued, CompleteFinished, CompleteCanceling, CompleteLate, SettleLate, Settle,
              leaseVars, tableVars
<1>5. ASSUME NEW i \in Instances, Cancel(i)
      PROVE  Same
  BY <1>5 DEF Cancel, CancelQueued, CancelRequested, SealActive, CancelConfirmed, CancelUnconfirmed, CancelCharged,
              Settle, jobVars, leaseVars, tableVars
<1>6. ASSUME NEW i \in Instances, Reconcile(i)
      PROVE  Same
  BY <1>6 DEF Reconcile, ReconcileCanceling, ReconcileRequeued, ReconcileFailed, CancelCharged, Settle, tableVars
<1>7. CASE \/ \E l \in Leases : Expire(l)
           \/ \E i \in Instances : \/ \E w \in Workers, l \in Leases : Heartbeat(i, w, l)
                                   \/ \E l \in Leases : ResumeOrphan(i, l)
                                   \/ Restart(i)
  BY <1>7 DEF Expire, Heartbeat, ResumeOrphan, Restart, jobVars, leaseVars, tableVars
<1> QED BY <1>1, <1>2, <1>3, <1>4, <1>5, <1>6, <1>7 DEF Next

\* A request names a cohort of the tables.
LEMMA CohortKey ==
    ASSUME NEW r \in Requests, r.cohort_id # None
    PROVE  <<r.campaign_id, r.cohort_id>> \in Campaigns \X Cohorts /\ r.lane \in Lanes /\ r.lane # None
BY RequestsAssumption, NoneAssumption DEF RequestType

LEMMA CohortStep ==
    ASSUME SchedulerInv, LanesKept, EnvironmentsKept, [Next]_vars
    PROVE  LanesKept' /\ EnvironmentsKept'
<1>0. /\ cohort_lanes \in [Campaigns \X Cohorts -> Lanes \cup {None}]
      /\ cohort_environments \in [Campaigns \X Cohorts -> Environments \cup {None}]
      /\ request \in [JobIds -> Requests \cup {None}]
      /\ lease_environment \in [Leases -> Environments \cup {None}]
  BY DEF SchedulerInv, TypeOK, Types, TableTypes, JobTypes, LeaseTypes
<1>1. CASE UNCHANGED <<request, lease_history, lease_environment, cohort_lanes, cohort_environments>>
  BY <1>1 DEF LanesKept, EnvironmentsKept
<1>2. ASSUME NEW i \in Instances, NEW r \in Requests, Enqueue(i, r)
      PROVE  LanesKept' /\ EnvironmentsKept'
  <2> DEFINE key == <<r.campaign_id, r.cohort_id>>
  <2>1. /\ r.job_id \in JobIds /\ status[r.job_id] = "absent" /\ request' = [request EXCEPT ![r.job_id] = r]
        /\ cohort_lanes' = IF r.cohort_id = None THEN cohort_lanes ELSE [cohort_lanes EXCEPT ![key] = r.lane]
        /\ r.cohort_id # None => cohort_lanes[key] \in {None, r.lane}
        /\ UNCHANGED <<lease_history, lease_environment, cohort_environments>>
    BY <1>2, RequestFacts DEF Enqueue, leaseVars
  <2>2. EnvironmentsKept'
    <3>1. \A l \in lease_history : request'[l[1]] = request[l[1]]
      BY <1>0, <2>1, IssuedLease
    <3> QED BY <2>1, <3>1 DEF EnvironmentsKept
  <2>3. ASSUME NEW j \in JobIds, request'[j] # None, request'[j].cohort_id # None
        PROVE  cohort_lanes'[<<request'[j].campaign_id, request'[j].cohort_id>>] = request'[j].lane
    <3>1. CASE j = r.job_id
      BY <1>0, <2>1, <2>3, <3>1, CohortKey
    <3>2. CASE j # r.job_id
      <4>1. request'[j] = request[j] /\ request[j] \in Requests
        BY <1>0, <2>1, <2>3, <3>2
      <4> DEFINE mine == <<request[j].campaign_id, request[j].cohort_id>>
      <4>2. cohort_lanes[mine] = request[j].lane /\ mine \in Campaigns \X Cohorts /\ request[j].lane # None
        BY <2>3, <4>1, CohortKey DEF LanesKept
      <4>3. CASE r.cohort_id # None /\ key = mine
        <5>1. request[j].lane = r.lane
          BY <2>1, <4>2, <4>3
        <5>2. cohort_lanes'[mine] = r.lane
          BY <1>0, <2>1, <4>2, <4>3
        <5> QED BY <4>1, <5>1, <5>2
      <4>4. CASE r.cohort_id = None \/ key # mine
        BY <1>0, <2>1, <4>1, <4>2, <4>4
      <4> QED BY <4>3, <4>4
    <3> QED BY <3>1, <3>2
  <2> QED BY <2>2, <2>3 DEF LanesKept
<1>3. ASSUME NEW i \in Instances, NEW w \in Workers, NEW j \in JobIds, ClaimJob(i, w, j)
      PROVE  LanesKept' /\ EnvironmentsKept'
  <2> DEFINE r == request[j]
             key == <<r.campaign_id, r.cohort_id>>
             env == EnvironmentFingerprint(descriptor[w])
             new == <<j, attempts[j] + 1>>
  <2>0. /\ status[j] = "queued" /\ r \in Requests /\ attempts[j] + 1 \in 1 .. MaxAttempts
        /\ new \in Leases /\ new[1] = j /\ ~(attempts[j] + 1 <= attempts[j])
    <3>1. FirstVisited(w, j)
      BY <1>3 DEF ClaimJob
    <3> QED BY <3>1, VisitedJob, BoundsAssumption DEF Leases
  <2>1. /\ UNCHANGED <<request, cohort_lanes>>
        /\ lease_history' = lease_history \cup {new}
        /\ lease_environment' = [lease_environment EXCEPT ![new] = env]
        /\ cohort_environments' = IF r.cohort_id = None THEN cohort_environments
                                                        ELSE [cohort_environments EXCEPT ![key] = env]
        /\ r.cohort_id # None => cohort_environments[key] \in {None, env}
    <3>1. FirstVisited(w, j)
      BY <1>3 DEF ClaimJob
    <3>2. WorkerMatches(w, r)
      BY <3>1 DEF FirstVisited, Visits
    <3>3. r.cohort_id # None => cohort_environments[key] \in {None, env}
      BY <3>2 DEF WorkerMatches
    <3> QED BY <1>3, <3>3 DEF ClaimJob
  <2>2. env \in Environments
    BY <1>3 DEF ClaimJob, SchedulerInv, TypeOK, Types, TableTypes, Environments
  <2>3. new \notin lease_history
    BY <2>0 DEF SchedulerInv, EveryLeaseSettled
  <2>4. LanesKept'
    BY <2>1 DEF LanesKept
  <2> HIDE DEF env, new
  <2>5. ASSUME NEW l \in lease_history'
        PROVE  /\ lease_environment'[l] \in Environments
               /\ request[l[1]].cohort_id # None =>
                    cohort_environments'[<<request[l[1]].campaign_id, request[l[1]].cohort_id>>] = lease_environment'[l]
    <3>1. CASE l = new
      BY <1>0, <2>0, <2>1, <2>2, <3>1, CohortKey
    <3>2. CASE l # new
      <4>1. l \in lease_history /\ l \in Leases /\ request[l[1]] \in Requests
        BY <2>1, <3>2, IssuedLease
      <4>2. lease_environment'[l] = lease_environment[l] /\ lease_environment[l] \in Environments
        BY <1>0, <2>1, <3>2, <4>1 DEF EnvironmentsKept
      <4> DEFINE mine == <<request[l[1]].campaign_id, request[l[1]].cohort_id>>
      <4>3. ASSUME request[l[1]].cohort_id # None
            PROVE  cohort_environments'[mine] = lease_environment[l]
        <5>1. cohort_environments[mine] = lease_environment[l] /\ mine \in Campaigns \X Cohorts
          BY <4>1, <4>3, CohortKey DEF EnvironmentsKept
        <5>2. CASE r.cohort_id # None /\ key = mine
          <6>1. cohort_environments[mine] = env
            BY <2>1, <4>2, <5>1, <5>2, EnvironmentsAssumption
          <6> QED BY <1>0, <2>1, <5>1, <5>2, <6>1
        <5>3. CASE r.cohort_id = None \/ key # mine
          BY <1>0, <2>1, <5>1, <5>3
        <5> QED BY <5>2, <5>3
      <4> QED BY <4>2, <4>3
    <3> QED BY <3>1, <3>2
  <2> QED BY <2>0, <2>1, <2>4, <2>5 DEF EnvironmentsKept
<1> QED BY <1>1, <1>2, <1>3, CohortFrame

\* All attempts of a cohort run in one environment and one lane: the tables of
\* enqueue() and claim() pin both for as long as the log grows, whatever workers
\* are registered again in between.
THEOREM CohortsStayMatched == Spec => []MatchedCohort
<1>1. Init => LanesKept /\ EnvironmentsKept
  BY DEF Init, InitWith, LanesKept, EnvironmentsKept
<1>2. SchedulerInv /\ LanesKept /\ EnvironmentsKept => MatchedCohort
  <2> SUFFICES ASSUME SchedulerInv, LanesKept, EnvironmentsKept, NEW l \in lease_history, NEW m \in lease_history,
                      request[l[1]].cohort_id # None, request[l[1]].cohort_id = request[m[1]].cohort_id,
                      request[l[1]].campaign_id = request[m[1]].campaign_id
               PROVE  lease_environment[l] = lease_environment[m] /\ request[l[1]].lane = request[m[1]].lane
    BY DEF MatchedCohort
  <2>1. request[l[1]] # None /\ request[m[1]] # None /\ l[1] \in JobIds /\ m[1] \in JobIds
    BY IssuedLease, NoneAssumption
  <2> QED BY <2>1 DEF LanesKept, EnvironmentsKept
<1> QED BY <1>1, <1>2, CohortStep, SchedulerSafe, PTL DEF Spec

-----------------------------------------------------------------------------
(* Leases that were inherited from the log. *)

\* The result of the lease itself is known, and came while the lease was held.
OwnResult(l) == Settled(l) /\ ~IsProvisional(l) /\ l \notin late_completion_leases
\* Every object found the lease in the log, and its worker replays the result.
Inherited(l) == \A i \in Instances : l \in restart_durable_replay_lease_ids[i]
\* The lease has ended and its job goes on to another attempt.
Passed(l) == l \notin leases /\ (status[l[1]] = "queued" \/ attempts[l[1]] > l[2])

\* InheritedLeaseNotReissued is not inductive: between the requeue and the next
\* claim() the attempt count says nothing yet.
PassedOnResult == \A l \in lease_history : Inherited(l) /\ Passed(l) => OwnResult(l)

\* Ending the lease of job k passes no other lease, and k's own only when k is
\* queued again.
LEMMA PassedBefore ==
    ASSUME SchedulerInv, NEW k \in JobIds, lease[k] # 0,
           \A j \in JobIds : j # k => status'[j] = status[j], attempts' = attempts,
           leases' = leases \ {LeaseOf(k)},
           NEW l \in lease_history, Passed(l)', l # LeaseOf(k) \/ status'[k] # "queued"
    PROVE  Passed(l)
<1>1. /\ l[1] \in JobIds /\ l = <<l[1], l[2]>> /\ l[2] \in Nat
      /\ l[2] <= attempts[l[1]] /\ attempts[l[1]] \in Nat /\ lease[k] = attempts[k]
  BY IssuedLease, HeldLease, BoundsAssumption
<1>2. CASE l = LeaseOf(k)
  <2>1. l[1] = k /\ l[2] = attempts[k] /\ status'[k] # "queued"
    BY <1>1, <1>2 DEF LeaseOf
  <2> QED BY <1>1, <2>1 DEF Passed
<1>3. CASE l # LeaseOf(k)
  <2>1. l \notin leases
    BY <1>3 DEF Passed
  <2>2. CASE l[1] = k
    <3>1. l[2] # attempts[k]
      BY <1>1, <1>3, <2>2 DEF LeaseOf
    <3> QED BY <1>1, <2>1, <2>2, <3>1 DEF Passed
  <2>3. CASE l[1] # k
    BY <1>1, <2>1, <2>3 DEF Passed
  <2> QED BY <2>2, <2>3
<1> QED BY <1>2, <1>3

\* The steps by which a lease that every object inherited may come to be passed:
\* none but its own result.
LEMMA PassedStep ==
    ASSUME SchedulerInv, [Next]_vars, NEW l \in lease_history', Inherited(l)', Passed(l)'
    PROVE  OwnResult(l)' \/ (l \in lease_history /\ Inherited(l) /\ Passed(l))
<1> DEFINE Before == l \in lease_history /\ Inherited(l) /\ Passed(l)
<1>0. status \in [JobIds -> Statuses \cup {"absent"}] /\ attempts \in [JobIds -> 0 .. MaxAttempts]
  BY DEF SchedulerInv, TypeOK, Types, JobTypes
<1>1. CASE UNCHANGED <<status, attempts, leases, lease_history, restart_durable_replay_lease_ids>>
  BY <1>1 DEF Inherited, Passed
<1>2. ASSUME UNCHANGED <<attempts, leases, lease_history, restart_durable_replay_lease_ids>>,
             NEW k \in JobIds, NEW s, status' = [status EXCEPT ![k] = s], s # "queued" \/ status[k] = "absent"
      PROVE  Before
  <2>1. l \in lease_history /\ l[1] \in JobIds /\ status[l[1]] # "absent"
    BY <1>2, IssuedLease
  <2>2. status'[l[1]] = "queued" => status[l[1]] = "queued"
    BY <1>0, <1>2, <2>1
  <2> QED BY <1>2, <2>1, <2>2 DEF Inherited, Passed
<1>3. ASSUME NEW k \in JobIds, lease[k] # 0, NEW s, status' = [status EXCEPT ![k] = s],
             leases' = leases \ {LeaseOf(k)},
             UNCHANGED <<attempts, lease_history, restart_durable_replay_lease_ids>>,
             l # LeaseOf(k) \/ s # "queued"
      PROVE  Before
  <2>1. l \in lease_history /\ attempts' = attempts
    BY <1>3
  <2>2. Passed(l)
    <3>1. /\ \A j \in JobIds : j # k => status'[j] = status[j]
          /\ l # LeaseOf(k) \/ status'[k] # "queued"
      BY <1>0, <1>3
    <3> QED BY <1>3, <2>1, <3>1, PassedBefore
  <2>3. Inherited(l)
    BY <1>3 DEF Inherited
  <2> QED BY <2>1, <2>2, <2>3
<1>4. \A k \in JobIds : status[k] \in {"leased", "canceling"} => lease[k] # 0
  BY DEF SchedulerInv, LeaseIndexesAgree
<1>5. ASSUME NEW i \in Instances, Administer(i) PROVE Before
  <2>1. ASSUME NEW r \in Requests, Enqueue(i, r) PROVE Before
    <3>1. r.job_id \in JobIds
      BY RequestFacts
    <3> QED BY <1>2, <2>1, <3>1 DEF Enqueue, leaseVars, objectVars
  <2>2. CASE \/ \E cfg \in Configurations : ConfigureCampaign(i, cfg)
             \/ \E d \in Descriptors, executor \in BOOLEAN : RegisterWorker(i, d, executor)
             \/ \E w \in Workers : BindExecutor(i, w)
             \/ \E g \in Grants : GrantEvidenceShare(i, g)
             \/ RecordNotice(i)
    BY <1>1, <2>2 DEF ConfigureCampaign, RegisterWorker, BindExecutor, GrantEvidenceShare, RecordNotice,
                      jobVars, leaseVars, objectVars, Inherited, Passed
  <2> QED BY <1>5, <2>1, <2>2 DEF Administer
<1>6. ASSUME NEW i \in Instances, NEW w \in Workers, NEW j \in JobIds, ClaimJob(i, w, j) \/ ExhaustJob(i, w, j)
      PROVE  Before
  <2>1. status[j] = "queued"
    BY <1>6 DEF ClaimJob, ExhaustJob, FirstVisited, Visits
  <2>2. CASE ExhaustJob(i, w, j)
    BY <1>2, <2>2 DEF ExhaustJob, leaseVars, objectVars
  <2>3. CASE ClaimJob(i, w, j)
    <3>1. /\ attempts' = [attempts EXCEPT ![j] = @ + 1] /\ status' = [status EXCEPT ![j] = "leased"]
          /\ leases' = leases \cup {<<j, attempts[j] + 1>>}
          /\ lease_history' = lease_history \cup {<<j, attempts[j] + 1>>}
          /\ UNCHANGED restart_durable_replay_lease_ids
      BY <2>3 DEF ClaimJob, objectVars
    <3>2. l \in lease_history /\ l \notin leases
      BY <3>1 DEF Passed
    <3>3. l[1] \in JobIds
      BY <3>2, IssuedLease
    <3> QED BY <1>0, <2>1, <3>1, <3>2, <3>3 DEF Inherited, Passed
  <2> QED BY <1>6, <2>2, <2>3
<1>7. ASSUME NEW i \in Instances, NEW m \in Leases, NEW r \in Results,
             \/ CompleteRequeued(i, m, r) \/ CompleteFinished(i, m, r)
             \/ CompleteCanceling(i, m, r) \/ CompleteLate(i, m, r)
      PROVE  OwnResult(l)' \/ Before
  <2>1. m[1] \in JobIds
    BY DEF Leases
  <2>2. CASE CompleteLate(i, m, r)
    BY <1>1, <2>2 DEF CompleteLate, SettleLate, leaseVars, objectVars
  <2>3. CASE CompleteCanceling(i, m, r)
    BY <1>3, <1>4, <2>1, <2>3 DEF CompleteCanceling, ReleaseLease, objectVars
  <2>4. CASE CompleteFinished(i, m, r)
    <3>1. StatusByOutcome[r.outcome] # "queued"
      BY ResultFacts DEF StatusByOutcome, Outcomes
    <3> QED BY <1>3, <1>4, <2>1, <2>4, <3>1 DEF CompleteFinished, Settle, ReleaseLease, objectVars
  <2>5. CASE CompleteRequeued(i, m, r)
    <3>1. CASE l # LeaseOf(m[1])
      BY <1>3, <1>4, <2>1, <2>5, <3>1 DEF CompleteRequeued, Settle, ReleaseLease, objectVars
    <3>2. CASE l = LeaseOf(m[1])
      <4>1. lease[m[1]] # 0 /\ Settle(m[1], NormalizedConsumption(r.consumed), FALSE)
        BY <1>4, <2>1, <2>5 DEF CompleteRequeued
      <4>2. l \in Leases /\ l \notin result_completion_leases
        BY <2>1, <3>2, <4>1, HeldLease
      <4>3. ~IsProvisional(l) /\ l \notin late_completion_leases
        BY <4>2 DEF SchedulerInv, LateCountedOnce
      <4> QED BY <3>2, <4>1, <4>3 DEF Settle, OwnResult, Settled, IsProvisional
    <3> QED BY <3>1, <3>2
  <2> QED BY <1>7, <2>2, <2>3, <2>4, <2>5
<1>8. ASSUME NEW i \in Instances, NEW k \in JobIds, status[k] \in {"leased", "canceling"}, CancelCharged(i, k),
             UNCHANGED restart_durable_replay_lease_ids
      PROVE  Before
  BY <1>3, <1>4, <1>8 DEF CancelCharged, Settle, ReleaseLease
<1>9. ASSUME NEW i \in Instances, Cancel(i) PROVE Before
  <2>1. ASSUME NEW j \in JobIds, CancelQueued(i, j) \/ CancelRequested(i, j) PROVE Before
    BY <1>2, <2>1 DEF CancelQueued, CancelRequested, leaseVars, objectVars
  <2>2. ASSUME NEW j \in JobIds, SealActive(i, j) PROVE Before
    BY <1>8, <2>2 DEF SealActive, objectVars
  <2>3. ASSUME NEW m \in Leases, CancelConfirmed(i, m) PROVE Before
    <3>1. m[1] \in JobIds
      BY DEF Leases
    <3> QED BY <1>8, <2>3, <3>1 DEF CancelConfirmed
  <2>4. ASSUME NEW m \in Leases, CancelUnconfirmed(i, m) PROVE Before
    BY <1>1, <2>4 DEF CancelUnconfirmed, jobVars, leaseVars, Inherited, Passed
  <2> QED BY <1>9, <2>1, <2>2, <2>3, <2>4 DEF Cancel
<1>10. ASSUME NEW i \in Instances, Reconcile(i) PROVE Before
  <2>1. ASSUME NEW j \in JobIds, ReconcileCanceling(i, j) PROVE Before
    BY <1>8, <2>1 DEF ReconcileCanceling, objectVars
  <2>2. ASSUME NEW j \in JobIds, NEW wall \in LeaseWalls, ReconcileRequeued(i, j, wall) PROVE Before
    <3>1. l # LeaseOf(j)
      BY <2>2 DEF ReconcileRequeued, RetryExpired, objectVars, Inherited
    <3> QED BY <1>3, <1>4, <2>2, <3>1 DEF ReconcileRequeued, Settle, ReleaseLease, objectVars
  <2>3. ASSUME NEW j \in JobIds, NEW wall \in LeaseWalls, ReconcileFailed(i, j, wall) PROVE Before
    BY <1>3, <1>4, <2>3 DEF ReconcileFailed, Settle, ReleaseLease, objectVars
  <2> QED BY <1>10, <2>1, <2>2, <2>3 DEF Reconcile
<1>11. ASSUME NEW i \in Instances, Restart(i) PROVE FALSE
  <2>1. l \in restart_durable_replay_lease_ids'[i] /\ l \notin leases
    BY <1>11 DEF Restart, leaseVars, Inherited, Passed
  <2>2. PICK k \in JobIds : status[k] = "leased" /\ lease[k] # 0 /\ l = LeaseOf(k)
    BY <1>11, <2>1 DEF Restart, Jobs, SchedulerInv, TypeOK, Types, ObjectTypes
  <2> QED BY <2>1, <2>2, HeldLease
<1>12. CASE \/ \E m \in Leases : Expire(m)
            \/ \E i \in Instances : \/ \E w \in Workers, m \in Leases : Heartbeat(i, w, m)
                                    \/ \E m \in Leases : ResumeOrphan(i, m)
            \/ UNCHANGED vars
  BY <1>1, <1>12 DEF Expire, Heartbeat, ResumeOrphan, vars, jobVars, leaseVars, objectVars
<1> QED BY <1>5, <1>6, <1>7, <1>9, <1>10, <1>11, <1>12 DEF Next, Claim, Complete

\* A lease that every object inherited with durable replay is followed by a new
\* attempt only after its own, punctual result: reconcile() of a restarted
\* process never takes the loss of an answer for the loss of the evaluation.
THEOREM InheritedLeasesAreWaitedFor == Spec => []InheritedLeaseNotReissued
<1>1. Init => PassedOnResult
  BY DEF Init, InitWith, PassedOnResult
<1>2. SchedulerInv /\ PassedOnResult /\ [Next]_vars => PassedOnResult'
  <2> SUFFICES ASSUME SchedulerInv, PassedOnResult, [Next]_vars, NEW l \in lease_history', Inherited(l)', Passed(l)'
               PROVE  OwnResult(l)'
    BY DEF PassedOnResult
  <2>1. CASE l \in lease_history /\ Inherited(l) /\ Passed(l)
    <3>1. l \in Leases /\ OwnResult(l)
      BY <2>1, IssuedLease DEF PassedOnResult
    <3> QED BY <3>1, FinalStep DEF OwnResult
  <2> QED BY <2>1, PassedStep
<1>3. SchedulerInv /\ PassedOnResult => InheritedLeaseNotReissued
  <2> SUFFICES ASSUME SchedulerInv, PassedOnResult, NEW l \in Leases, Inherited(l), attempts[l[1]] > l[2]
               PROVE  OwnResult(l)
    BY DEF InheritedLeaseNotReissued, Inherited, OwnResult
  <2>1. l[1] \in JobIds /\ l[2] \in 1 .. MaxAttempts /\ l = <<l[1], l[2]>> /\ attempts[l[1]] \in Nat
    BY DEF Leases, SchedulerInv, TypeOK, Types, JobTypes
  <2>2. l \in lease_history
    BY <2>1 DEF SchedulerInv, EveryLeaseSettled
  <2>3. l \notin leases
    BY <2>1 DEF SchedulerInv, LeaseIndexesAgree
  <2> QED BY <2>2, <2>3 DEF PassedOnResult, Passed
<1> QED BY <1>1, <1>2, <1>3, SchedulerSafe, PTL DEF Spec

-----------------------------------------------------------------------------
(* Concurrency.  claim() counts the leases in the workers' own indexes; the  *)
(* bound is about the leases that exist.                                     *)

FewLeases == IsFiniteSet(leases) /\ GlobalConcurrency

\* The workers' indexes hold all the leases there are, so their union is what
\* claim() counts against max_concurrency.
LEMMA IndexesCoverLeases ==
    ASSUME SchedulerInv
    PROVE  leases = UNION {active_leases[v] : v \in Workers}
<1>1. leases \subseteq Leases /\ \A w \in Workers : active_leases[w] \subseteq Leases
  BY DEF SchedulerInv, TypeOK, Types, LeaseTypes
<1>2. \A w \in Workers, l \in Leases : l \in active_leases[w] <=> l \in leases /\ lease_worker[l] = w
  BY DEF SchedulerInv, LeaseIndexesAgree
<1>3. ASSUME NEW l \in leases PROVE lease_worker[l] \in Workers
  <2>1. PICK j \in JobIds, n \in 1 .. MaxAttempts : l = <<j, n>>
    BY <1>1 DEF Leases
  <2>2. lease[j] = n /\ n # 0
    BY <2>1, BoundsAssumption DEF SchedulerInv, LeaseIndexesAgree
  <2>3. l = LeaseOf(j)
    BY <2>1, <2>2 DEF LeaseOf
  <2> QED BY <2>2, <2>3 DEF SchedulerInv, AttemptsLeft
<1>4. ASSUME NEW l \in leases PROVE \E v \in Workers : l \in active_leases[v]
  BY <1>1, <1>2, <1>3
<1>5. ASSUME NEW v \in Workers, NEW l \in active_leases[v] PROVE l \in leases
  BY <1>1, <1>2
<1> QED BY <1>4, <1>5

\* A lease appears by one job of claim() only, which found a slot.
LEMMA LeasesGrowBySlot ==
    ASSUME SchedulerInv, [Next]_vars
    PROVE  \/ leases' \subseteq leases
           \/ \E w \in Workers : \E l : HasSlot(w) /\ leases' = leases \cup {l}
<1>1. ASSUME NEW i \in Instances, Administer(i) PROVE leases' = leases
  BY <1>1 DEF Administer, ConfigureCampaign, RegisterWorker, BindExecutor, GrantEvidenceShare, Enqueue,
              RecordNotice, leaseVars
<1>2. ASSUME NEW i \in Instances, NEW w \in Workers, NEW j \in JobIds, ClaimJob(i, w, j)
      PROVE  HasSlot(w) /\ leases' = leases \cup {<<j, attempts[j] + 1>>}
  BY <1>2 DEF ClaimJob
<1>3. ASSUME NEW i \in Instances, NEW w \in Workers, NEW j \in JobIds, ExhaustJob(i, w, j)
      PROVE  leases' = leases
  BY <1>3 DEF ExhaustJob, leaseVars
<1>4. ASSUME NEW k, NEW amount, NEW p, Settle(k, amount, p) PROVE leases' \subseteq leases
  BY <1>4 DEF Settle, ReleaseLease
<1>5. ASSUME NEW i, NEW k, CancelCharged(i, k) PROVE leases' \subseteq leases
  BY <1>4, <1>5 DEF CancelCharged
<1>6. ASSUME NEW i \in Instances, Complete(i) PROVE leases' \subseteq leases
  <2>1. PICK l \in Leases, r \in Results :
           \/ CompleteRequeued(i, l, r) \/ CompleteFinished(i, l, r)
           \/ CompleteCanceling(i, l, r) \/ CompleteLate(i, l, r)
    BY <1>6 DEF Complete
  <2>2. CASE CompleteRequeued(i, l, r) \/ CompleteFinished(i, l, r)
    BY <1>4, <2>2 DEF CompleteRequeued, CompleteFinished
  <2>3. CASE CompleteCanceling(i, l, r)
    BY <2>3 DEF CompleteCanceling, ReleaseLease
  <2>4. CASE CompleteLate(i, l, r)
    BY <2>4 DEF CompleteLate, SettleLate, leaseVars
  <2> QED BY <2>1, <2>2, <2>3, <2>4
<1>7. ASSUME NEW i \in Instances, Cancel(i) PROVE leases' \subseteq leases
  <2>1. ASSUME NEW j \in JobIds, CancelQueued(i, j) \/ CancelRequested(i, j) \/ SealActive(i, j)
        PROVE  leases' \subseteq leases
    BY <1>5, <2>1 DEF CancelQueued, CancelRequested, SealActive, leaseVars
  <2>2. ASSUME NEW l \in Leases, CancelConfirmed(i, l) \/ CancelUnconfirmed(i, l)
        PROVE  leases' \subseteq leases
    BY <1>5, <2>2 DEF CancelConfirmed, CancelUnconfirmed, leaseVars
  <2> QED BY <1>7, <2>1, <2>2 DEF Cancel
<1>8. ASSUME NEW i \in Instances, Reconcile(i) PROVE leases' \subseteq leases
  <2>1. ASSUME NEW j \in JobIds, ReconcileCanceling(i, j) PROVE leases' \subseteq leases
    BY <1>5, <2>1 DEF ReconcileCanceling
  <2>2. ASSUME NEW j \in JobIds, NEW wall \in LeaseWalls,
               ReconcileRequeued(i, j, wall) \/ ReconcileFailed(i, j, wall)
        PROVE  leases' \subseteq leases
    BY <1>4, <2>2 DEF ReconcileRequeued, ReconcileFailed
  <2> QED BY <1>8, <2>1, <2>2 DEF Reconcile
<1>9. CASE \/ \E m \in Leases : Expire(m)
           \/ \E i \in Instances : \/ \E w \in Workers, m \in Leases : Heartbeat(i, w, m)
                                   \/ \E m \in Leases : ResumeOrphan(i, m)
                                   \/ Restart(i)
           \/ UNCHANGED vars
  BY <1>9 DEF Expire, Heartbeat, ResumeOrphan, Restart, vars, leaseVars
<1>10. ASSUME NEW i \in Instances, Claim(i)
       PROVE  leases' = leases \/ \E w \in Workers : \E l : HasSlot(w) /\ leases' = leases \cup {l}
  <2>1. PICK w \in Workers, j \in JobIds : ClaimJob(i, w, j) \/ ExhaustJob(i, w, j)
    BY <1>10 DEF Claim
  <2> QED BY <1>2, <1>3, <2>1
<1> QED BY <1>1, <1>6, <1>7, <1>8, <1>9, <1>10 DEF Next

\* At no time are more than max_concurrency leases held, whichever object
\* claimed them and whichever workers were registered again: no end of a lease
\* takes it from the index that claim() counts before it takes the lease itself.
THEOREM ConcurrencyNeverExceeds == Spec => []GlobalConcurrency
<1>1. Init => FewLeases
  BY FS_EmptySet, BoundsAssumption DEF Init, InitWith, FewLeases, GlobalConcurrency
<1>2. SchedulerInv /\ FewLeases /\ [Next]_vars => FewLeases'
  <2> SUFFICES ASSUME SchedulerInv, FewLeases, [Next]_vars PROVE FewLeases'
    OBVIOUS
  <2>1. IsFiniteSet(leases) /\ Cardinality(leases) \in Nat /\ Cardinality(leases) <= MaxConcurrency
    BY FS_CardinalityType DEF FewLeases, GlobalConcurrency
  <2>2. CASE leases' \subseteq leases
    <3>1. IsFiniteSet(leases') /\ Cardinality(leases') <= Cardinality(leases)
      BY <2>1, <2>2, FS_Subset
    <3>2. Cardinality(leases') \in Nat
      BY <3>1, FS_CardinalityType
    <3> QED BY <2>1, <3>1, <3>2, BoundsAssumption DEF FewLeases, GlobalConcurrency
  <2>3. ASSUME NEW w \in Workers, NEW l, HasSlot(w), leases' = leases \cup {l} PROVE FewLeases'
    <3>1. Cardinality(leases) < MaxConcurrency
      BY <2>3, IndexesCoverLeases DEF HasSlot
    <3>2. /\ IsFiniteSet(leases \cup {l})
          /\ Cardinality(leases \cup {l}) = IF l \in leases THEN Cardinality(leases) ELSE Cardinality(leases) + 1
      BY <2>1, FS_AddElement
    <3>3. Cardinality(leases \cup {l}) <= MaxConcurrency
      BY <2>1, <3>1, <3>2, BoundsAssumption
    <3> QED BY <2>3, <3>2, <3>3 DEF FewLeases, GlobalConcurrency
  <2> QED BY <2>2, <2>3, LeasesGrowBySlot
<1>3. FewLeases => GlobalConcurrency
  BY DEF FewLeases
<1> QED BY <1>1, <1>2, <1>3, SchedulerSafe, PTL DEF Spec

-----------------------------------------------------------------------------
(* Sums.  Units(S, f, d) is where SumOver counts; Sums says that there are   *)
(* finitely many units and how many.                                         *)

Sums(S, f, d, n) == IsFiniteSet(Units(S, f, d)) /\ Cardinality(Units(S, f, d)) = n

\* The empty sum.
LEMMA SumEmpty == ASSUME NEW f, NEW d PROVE Sums({}, f, d, 0)
<1>1. Units({}, f, d) = {}
  BY DEF Units
<1> QED BY <1>1, FS_EmptySet DEF Sums

LEMMA SumIsNat == ASSUME NEW S, NEW f, NEW d, NEW n, Sums(S, f, d, n) PROVE n \in Nat
BY FS_CardinalityType DEF Sums

\* One summand has as many units as it is large.
LEMMA UnitsOfOne ==
    ASSUME NEW x, NEW m \in Nat
    PROVE  IsFiniteSet({x} \X (1 .. m)) /\ Cardinality({x} \X (1 .. m)) = m
<1>1. IsFiniteSet({x}) /\ Cardinality({x}) = 1
  BY FS_Singleton
<1>2. IsFiniteSet(1 .. m) /\ Cardinality(1 .. m) = IF 1 > m THEN 0 ELSE m - 1 + 1
  BY FS_Interval
<1>3. Cardinality(1 .. m) = m
  BY <1>2
<1>4. /\ IsFiniteSet({x} \X (1 .. m))
      /\ Cardinality({x} \X (1 .. m)) = Cardinality({x}) * Cardinality(1 .. m)
  BY <1>1, <1>2, FS_Product
<1> QED BY <1>1, <1>3, <1>4

\* A sum with one summand more.
LEMMA SumAdd ==
    ASSUME NEW S, NEW f, NEW d, NEW n, Sums(S, f, d, n),
           NEW x, x \notin S, f[x][d] \in Nat
    PROVE  Sums(S \cup {x}, f, d, n + f[x][d])
<1> DEFINE U == Units(S, f, d)
           V == {x} \X (1 .. f[x][d])
<1>1. Units(S \cup {x}, f, d) = U \cup V
  BY DEF Units
<1>2. U \cap V = {}
  BY DEF Units
<1>3. IsFiniteSet(V) /\ Cardinality(V) = f[x][d]
  BY UnitsOfOne
<1>4. IsFiniteSet(U) /\ Cardinality(U) = n /\ n \in Nat
  BY SumIsNat DEF Sums
<1> HIDE DEF U, V
<1>5. /\ IsFiniteSet(U \cup V)
      /\ Cardinality(U \cup V) = Cardinality(U) + Cardinality(V) - Cardinality(U \cap V)
  BY <1>3, <1>4, FS_Union
<1>6. Cardinality(U \cap V) = 0
  BY <1>2, FS_EmptySet
<1>7. Cardinality(U \cup V) = n + f[x][d]
  BY <1>3, <1>4, <1>5, <1>6
<1> QED BY <1>1, <1>5, <1>7 DEF Sums

\* A sum over fewer or smaller summands.
LEMMA SumLess ==
    ASSUME NEW S, NEW f, NEW T, NEW g, NEW d, NEW n, Sums(S, f, d, n), T \subseteq S,
           \A x \in T : f[x][d] \in Nat /\ g[x][d] \in Nat /\ g[x][d] <= f[x][d]
    PROVE  \E m \in Nat : Sums(T, g, d, m) /\ m <= n
<1>1. Units(T, g, d) \subseteq Units(S, f, d)
  <2> SUFFICES ASSUME NEW x \in T, NEW k \in 1 .. g[x][d] PROVE <<x, k>> \in Units(S, f, d)
    BY DEF Units
  <2>1. k \in 1 .. f[x][d]
    OBVIOUS
  <2> QED BY <2>1 DEF Units
<1>2. /\ IsFiniteSet(Units(T, g, d))
      /\ Cardinality(Units(T, g, d)) <= Cardinality(Units(S, f, d))
  BY <1>1, FS_Subset DEF Sums
<1>3. Cardinality(Units(T, g, d)) \in Nat
  BY <1>2, FS_CardinalityType
<1> QED BY <1>2, <1>3 DEF Sums

\* The sum looks at the summands only.
LEMMA SumSame ==
    ASSUME NEW S, NEW f, NEW g, NEW d, NEW n, Sums(S, f, d, n), \A x \in S : g[x][d] = f[x][d]
    PROVE  Sums(S, g, d, n)
<1>1. Units(S, g, d) = Units(S, f, d)
  BY DEF Units
<1> QED BY <1>1 DEF Sums

LEMMA SumUnique ==
    ASSUME NEW S, NEW f, NEW d, NEW m, NEW n, Sums(S, f, d, m), Sums(S, f, d, n)
    PROVE  m = n
BY DEF Sums

\* A sum with one summand less.
LEMMA SumRemove ==
    ASSUME NEW S, NEW f, NEW d, NEW n, Sums(S, f, d, n), \A x \in S : f[x][d] \in Nat, NEW x \in S
    PROVE  n >= f[x][d] /\ Sums(S \ {x}, f, d, n - f[x][d])
<1>0. /\ S \ {x} \subseteq S
      /\ \A y \in S \ {x} : f[y][d] \in Nat /\ f[y][d] <= f[y][d]
  OBVIOUS
<1>1. PICK m \in Nat : Sums(S \ {x}, f, d, m)
  BY <1>0, SumLess
<1>2. Sums((S \ {x}) \cup {x}, f, d, m + f[x][d])
  BY <1>1, SumAdd
<1>3. (S \ {x}) \cup {x} = S
  OBVIOUS
<1>4. n = m + f[x][d] /\ f[x][d] \in Nat
  BY <1>2, <1>3, SumUnique
<1>5. n >= f[x][d] /\ n - f[x][d] = m
  BY <1>4
<1> QED BY <1>1, <1>5

\* A sum in which one summand becomes another.
LEMMA SumReplace ==
    ASSUME NEW S, NEW f, NEW g, NEW d, NEW n, Sums(S, f, d, n), \A x \in S : f[x][d] \in Nat,
           NEW x \in S, g[x][d] \in Nat, \A y \in S \ {x} : g[y][d] = f[y][d]
    PROVE  n >= f[x][d] /\ Sums(S, g, d, n - f[x][d] + g[x][d])
<1>1. n >= f[x][d] /\ Sums(S \ {x}, f, d, n - f[x][d])
  BY SumRemove
<1>2. Sums(S \ {x}, g, d, n - f[x][d])
  BY <1>1, SumSame
<1>3. Sums((S \ {x}) \cup {x}, g, d, n - f[x][d] + g[x][d])
  BY <1>2, SumAdd
<1>4. (S \ {x}) \cup {x} = S
  OBVIOUS
<1> QED BY <1>1, <1>3, <1>4

-----------------------------------------------------------------------------
(* Budgets.  The running totals are sums over leases and grants; a step adds *)
(* a summand, removes one or replaces one.                                   *)

ReservedSums ==
    \A a \in BudgetHeldAccounts, d \in Dims : Sums(HeldBy(a), Reservation, d, reserved[a][d])

ConsumedSums ==
    \A a \in Accounts, d \in Dims : \E m, n \in Nat :
        /\ Sums(ChargedTo(a), charge, d, m)
        /\ Sums(GrantedBy(a), Cost, d, n)
        /\ consumed[a][d] = m + n

\* That a refund never clamps rests on two records of a lease that agree: what
\* is refunded is what was charged, and a provisional charge covers the
\* reservation.  Nothing is charged to a lease before it ends.
RefundIsCharge ==
    /\ \A l \in lease_history : IsProvisional(l) =>
         /\ provisional_results[l] = charge[l]
         /\ \A d \in Dims : charge[l][d] >= ReservationOf(l)[d]
    /\ \A l \in Leases : ~Settled(l) => charge[l] = Zero

AccountsInv == ReservedSums /\ ConsumedSums /\ RefundIsCharge

\* No lease, no grant and no total changes.
Quiet ==
    /\ UNCHANGED <<leases, lease_history, lease_worker, charge, provisional_results, result_completion_leases,
                   reserved, consumed, evidence_grants>>
    /\ \A l \in lease_history : request'[l[1]] = request[l[1]]

\* The held lease of job j ends and is charged amount.
Ends(j, amount) ==
    /\ lease[j] # 0
    /\ ReleaseLease(j)
    /\ AccountResult(LeaseOf(j), amount)
    /\ result_completion_leases' = result_completion_leases \cup {LeaseOf(j)}
    /\ \/ provisional_results' = provisional_results
       \/ /\ provisional_results' = [provisional_results EXCEPT ![LeaseOf(j)] = amount]
          /\ \A d \in Dims : amount[d] >= request[j].reservation[d]
    /\ UNCHANGED <<request, lease_history, lease_worker, evidence_grants>>

\* A provisional charge becomes amount.
Replaces(l, amount) ==
    /\ IsProvisional(l)
    /\ ReplaceAccountedResult(l, provisional_results[l], amount)
    /\ provisional_results' = [provisional_results EXCEPT ![l] = None]
    /\ result_completion_leases' = result_completion_leases \cup {l}
    /\ UNCHANGED <<request, leases, lease_history, lease_worker, reserved, evidence_grants>>

\* Provisional charges cover what the request reserved.
LEMMA ProvisionalCovers ==
    ASSUME NEW r \in Requests, NEW d \in Dims
    PROVE  /\ ProvisionalCancellation(r)[d] >= r.reservation[d]
           /\ \A wall \in LeaseWalls : ProvisionalExpiry(r, wall)[d] >= r.reservation[d]
<1>1. r.reservation \in Budgets /\ r.reservation[d] \in Nat
  BY RequestFacts DEF Budgets
<1>2. ProvisionalCancellation(r)[d] >= r.reservation[d]
  BY <1>1, DimsAssumption DEF ProvisionalCancellation, NormalizedConsumption, Budgets
<1>3. ASSUME NEW wall \in LeaseWalls PROVE ProvisionalExpiry(r, wall)[d] >= r.reservation[d]
  BY <1>1, <1>2, LeaseWallsAssumption DEF ProvisionalExpiry
<1> QED BY <1>2, <1>3

\* The same of Settle, as the events that end a held lease use it.
LEMMA SettleEnds ==
    ASSUME SchedulerInv, NEW j \in JobIds, lease[j] # 0, NEW amount \in Budgets,
           UNCHANGED <<request, evidence_grants>>,
           \/ Settle(j, amount, FALSE)
           \/ Settle(j, amount, TRUE) /\ \A d \in Dims : amount[d] >= request[j].reservation[d]
    PROVE  Ends(j, amount)
BY DEF Settle, Ends

LEMMA CancelEnds ==
    ASSUME SchedulerInv, NEW i \in Instances, NEW j \in JobIds, status[j] \in {"leased", "canceling"},
           CancelCharged(i, j)
    PROVE  \E amount \in Budgets : Ends(j, amount)
<1>1. lease[j] # 0
  BY DEF SchedulerInv, LeaseIndexesAgree
<1>2. /\ ProvisionalCancellation(request[j]) \in Budgets
      /\ \A d \in Dims : ProvisionalCancellation(request[j])[d] >= request[j].reservation[d]
  BY <1>1, HeldLease, ProvisionalFacts, ProvisionalCovers
<1>3. /\ Settle(j, ProvisionalCancellation(request[j]), TRUE)
      /\ UNCHANGED <<request, evidence_grants>>
  BY DEF CancelCharged, tableVars
<1> QED BY <1>1, <1>2, <1>3, SettleEnds

\* Every step does one of five things to the accounts.
LEMMA AccountSteps ==
    ASSUME SchedulerInv, [Next]_vars
    PROVE  \/ Quiet
           \/ \E i \in Instances : \E g \in Grants : GrantEvidenceShare(i, g)
           \/ \E i \in Instances : \E w \in Workers, j \in JobIds : ClaimJob(i, w, j)
           \/ \E j \in JobIds, amount \in Budgets : Ends(j, amount)
           \/ \E l \in lease_history \ leases, amount \in Budgets : Replaces(l, amount)
<1> DEFINE Kinds ==
           \/ Quiet
           \/ \E i \in Instances : \E g \in Grants : GrantEvidenceShare(i, g)
           \/ \E i \in Instances : \E w \in Workers, j \in JobIds : ClaimJob(i, w, j)
           \/ \E j \in JobIds, amount \in Budgets : Ends(j, amount)
           \/ \E l \in lease_history \ leases, amount \in Budgets : Replaces(l, amount)
<1> SUFFICES Kinds
  OBVIOUS
<1>1. ASSUME NEW i \in Instances, Administer(i) PROVE Kinds
  <2>1. ASSUME NEW r \in Requests, Enqueue(i, r) PROVE Quiet
    <3>1. /\ status[r.job_id] = "absent" /\ request' = [request EXCEPT ![r.job_id] = r]
          /\ UNCHANGED <<leases, lease_history, lease_worker, charge, provisional_results,
                         result_completion_leases, reserved, consumed, evidence_grants>>
      BY <2>1 DEF Enqueue, leaseVars, settleVars, budgetVars
    <3>2. ASSUME NEW l \in lease_history PROVE request'[l[1]] = request[l[1]]
      <4>1. l[1] \in JobIds /\ l[1] # r.job_id
        BY <3>1, IssuedLease
      <4> QED BY <3>1, <4>1 DEF SchedulerInv, TypeOK, Types, JobTypes
    <3> QED BY <3>1, <3>2 DEF Quiet
  <2>2. CASE \/ \E cfg \in Configurations : ConfigureCampaign(i, cfg)
             \/ \E d \in Descriptors, executor \in BOOLEAN : RegisterWorker(i, d, executor)
             \/ \E w \in Workers : BindExecutor(i, w)
             \/ RecordNotice(i)
    <3>1. Quiet
      BY <2>2 DEF ConfigureCampaign, RegisterWorker, BindExecutor, RecordNotice, Quiet, jobVars, leaseVars, settleVars, budgetVars,
                  tableVars
    <3> QED BY <3>1
  <2> QED BY <1>1, <2>1, <2>2 DEF Administer
<1>2. ASSUME NEW i \in Instances, Claim(i) PROVE Kinds
  <2>1. PICK w \in Workers, j \in JobIds : ClaimJob(i, w, j) \/ ExhaustJob(i, w, j)
    BY <1>2 DEF Claim
  <2>2. ExhaustJob(i, w, j) => Quiet
    BY DEF ExhaustJob, Quiet, leaseVars, settleVars, budgetVars, tableVars
  <2> QED BY <2>1, <2>2
<1>3. ASSUME NEW i \in Instances, Complete(i) PROVE Kinds
  <2>1. PICK l \in Leases, r \in Results :
           \/ CompleteRequeued(i, l, r) \/ CompleteFinished(i, l, r)
           \/ CompleteCanceling(i, l, r) \/ CompleteLate(i, l, r)
    BY <1>3 DEF Complete
  <2>2. l[1] \in JobIds /\ NormalizedConsumption(r.consumed) \in Budgets
    BY ResultFacts, BudgetClosed DEF Leases
  <2>3. status[l[1]] \in {"leased", "canceling"} => lease[l[1]] # 0
    BY <2>2 DEF SchedulerInv, LeaseIndexesAgree
  <2>4. CASE CompleteRequeued(i, l, r) \/ CompleteFinished(i, l, r)
    <3>1. /\ Settle(l[1], NormalizedConsumption(r.consumed), FALSE) /\ status[l[1]] = "leased"
          /\ UNCHANGED <<request, evidence_grants>>
      BY <2>4 DEF CompleteRequeued, CompleteFinished, tableVars
    <3> QED BY <2>2, <2>3, <3>1, SettleEnds
  <2>5. CASE CompleteCanceling(i, l, r)
    <3>1. l = LeaseOf(l[1]) /\ status[l[1]] = "canceling"
      BY <2>5 DEF CompleteCanceling, Holds
    <3>2. Ends(l[1], NormalizedConsumption(r.consumed))
      BY <2>3, <2>5, <3>1 DEF CompleteCanceling, Ends, tableVars
    <3> QED BY <2>2, <3>2
  <2>6. CASE CompleteLate(i, l, r)
    <3>1. /\ l \in lease_history \ leases
          /\ Settled(l) => IsProvisional(l)
          /\ SettleLate(l, NormalizedConsumption(r.consumed))
      BY <2>6 DEF CompleteLate
    <3>2. IsProvisional(l)
      BY <3>1 DEF SchedulerInv, EveryLeaseSettled, Settled
    <3>3. Replaces(l, NormalizedConsumption(r.consumed))
      BY <3>1, <3>2 DEF SettleLate, Replaces, leaseVars, tableVars
    <3> QED BY <2>2, <3>1, <3>3
  <2> QED BY <2>1, <2>4, <2>5, <2>6
<1>4. ASSUME NEW i \in Instances, Cancel(i) PROVE Kinds
  <2>1. ASSUME NEW j \in JobIds, CancelQueued(i, j) \/ CancelRequested(i, j) PROVE Quiet
    BY <2>1 DEF CancelQueued, CancelRequested, Quiet, leaseVars, settleVars, budgetVars, tableVars
  <2>2. ASSUME NEW j \in JobIds, SealActive(i, j) PROVE Kinds
    BY <2>2, CancelEnds DEF SealActive
  <2>3. ASSUME NEW l \in Leases, CancelConfirmed(i, l) PROVE Kinds
    <3>1. l[1] \in JobIds
      BY DEF Leases
    <3> QED BY <2>3, <3>1, CancelEnds DEF CancelConfirmed
  <2>4. ASSUME NEW l \in Leases, CancelUnconfirmed(i, l) PROVE Quiet
    BY <2>4 DEF CancelUnconfirmed, Quiet, jobVars, leaseVars, settleVars, budgetVars, tableVars
  <2> QED BY <1>4, <2>1, <2>2, <2>3, <2>4 DEF Cancel
<1>5. ASSUME NEW i \in Instances, Reconcile(i) PROVE Kinds
  <2>1. ASSUME NEW j \in JobIds, ReconcileCanceling(i, j) PROVE Kinds
    BY <2>1, CancelEnds DEF ReconcileCanceling
  <2>2. ASSUME NEW j \in JobIds, NEW wall \in LeaseWalls,
               ReconcileRequeued(i, j, wall) \/ ReconcileFailed(i, j, wall)
        PROVE  Kinds
    <3>1. /\ status[j] = "leased" /\ Settle(j, ProvisionalExpiry(request[j], wall), TRUE)
          /\ UNCHANGED <<request, evidence_grants>>
      BY <2>2 DEF ReconcileRequeued, ReconcileFailed, tableVars
    <3>2. lease[j] # 0
      BY <3>1 DEF SchedulerInv, LeaseIndexesAgree
    <3>3. /\ ProvisionalExpiry(request[j], wall) \in Budgets
          /\ \A d \in Dims : ProvisionalExpiry(request[j], wall)[d] >= request[j].reservation[d]
      BY <3>2, HeldLease, ProvisionalFacts, ProvisionalCovers
    <3> QED BY <3>1, <3>2, <3>3, SettleEnds
  <2> QED BY <1>5, <2>1, <2>2 DEF Reconcile
<1>6. CASE \/ \E m \in Leases : Expire(m)
           \/ \E i \in Instances : \/ \E w \in Workers, m \in Leases : Heartbeat(i, w, m)
                                   \/ \E m \in Leases : ResumeOrphan(i, m)
                                   \/ Restart(i)
           \/ UNCHANGED vars
  <2>1. Quiet
    BY <1>6 DEF Expire, Heartbeat, ResumeOrphan, Restart, vars, Quiet, jobVars, leaseVars, settleVars, budgetVars,
                tableVars
  <2> QED BY <2>1
<1> QED BY <1>1, <1>2, <1>3, <1>4, <1>5, <1>6 DEF Next

\* Who pays for a lease: as long as its request and its worker stay, so do the
\* accounts; for a campaign and a branch the request decides.
LEMMA ChargedAlike ==
    ASSUME NEW l \in lease_history, request'[l[1]] = request[l[1]], lease_worker'[l] = lease_worker[l]
    PROVE  /\ ChargedAccounts(l)' = ChargedAccounts(l)
           /\ ReservationOf(l)' = ReservationOf(l)
BY DEF ChargedAccounts, ReservationOf

LEMMA RequestPays ==
    ASSUME NEW l, NEW a \in BudgetHeldAccounts
    PROVE  a \in ChargedAccounts(l) <=> a \in BudgetAccounts(request[l[1]])
<1>1. \A w : WorkerAccount(w)[1] = "worker"
  BY DEF WorkerAccount
<1>2. a[1] # "worker"
  BY DEF BudgetHeldAccounts
<1> QED BY <1>1, <1>2 DEF ChargedAccounts

\* The numbers that are summed.
LEMMA AccountTypes ==
    ASSUME SchedulerInv, NEW d \in Dims
    PROVE  /\ \A l \in lease_history : /\ ReservationOf(l) \in Budgets /\ Reservation[l] = ReservationOf(l)
                                       /\ Reservation[l][d] \in Nat
           /\ \A l \in Leases : charge[l] \in Budgets /\ charge[l][d] \in Nat
           /\ \A g \in Grants : Cost[g][d] \in Nat /\ Cost[g] = EvidenceCost(g)
           /\ \A a \in Accounts : /\ reserved[a] \in Budgets /\ reserved[a][d] \in Nat
                                  /\ consumed[a] \in Budgets /\ consumed[a][d] \in Nat
           /\ lease_history \subseteq Leases
<1>1. ASSUME NEW l \in lease_history
      PROVE  /\ ReservationOf(l) \in Budgets /\ Reservation[l] = ReservationOf(l)
             /\ Reservation[l][d] \in Nat
  <2>1. request[l[1]] \in Requests
    BY IssuedLease
  <2>2. ReservationOf(l) \in Budgets
    BY <2>1, RequestFacts DEF ReservationOf
  <2> QED BY <2>2 DEF Reservation, Budgets
<1>2. \A l \in Leases : charge[l] \in Budgets /\ charge[l][d] \in Nat
  BY DEF SchedulerInv, TypeOK, Types, SettleTypes, Budgets
<1>3. \A g \in Grants : Cost[g][d] \in Nat /\ Cost[g] = EvidenceCost(g)
  BY GrantsAssumption DEF Cost, EvidenceCost, GrantType
<1>4. \A a \in Accounts : /\ reserved[a] \in Budgets /\ reserved[a][d] \in Nat
                          /\ consumed[a] \in Budgets /\ consumed[a][d] \in Nat
  BY DEF SchedulerInv, TypeOK, Types, BudgetTypes, Budgets
<1>5. lease_history \subseteq Leases
  BY DEF SchedulerInv, TypeOK, Types, LeaseTypes
<1> QED BY <1>1, <1>2, <1>3, <1>4, <1>5

\* Budget arithmetic, one dimension at a time.
LEMMA BudgetAt ==
    ASSUME NEW b, NEW c, NEW d \in Dims
    PROVE  /\ Plus(b, c)[d] = b[d] + c[d]
           /\ Minus(b, c)[d] = IF b[d] >= c[d] THEN b[d] - c[d] ELSE 0
           /\ Zero[d] = 0
BY DEF Plus, Minus, Zero

\* The empty log.
LEMMA AccountsInit ==
    ASSUME NEW configured, InitWith(configured)
    PROVE  AccountsInv
<1>1. /\ leases = {} /\ lease_history = {} /\ evidence_grants = {}
      /\ reserved = [a \in Accounts |-> Zero] /\ consumed = [a \in Accounts |-> Zero]
      /\ charge = [l \in Leases |-> Zero]
  BY DEF InitWith
<1>2. \A a : HeldBy(a) = {} /\ ChargedTo(a) = {} /\ GrantedBy(a) = {}
  BY <1>1 DEF HeldBy, ChargedTo, GrantedBy
<1>3. ReservedSums
  <2> SUFFICES ASSUME NEW a \in BudgetHeldAccounts, NEW d \in Dims
               PROVE  Sums(HeldBy(a), Reservation, d, reserved[a][d])
    BY DEF ReservedSums
  <2>1. a \in Accounts
    BY DEF BudgetHeldAccounts
  <2>2. reserved[a][d] = 0
    BY <1>1, <2>1, BudgetAt
  <2> QED BY <1>2, <2>2, SumEmpty
<1>4. ConsumedSums
  <2> SUFFICES ASSUME NEW a \in Accounts, NEW d \in Dims
               PROVE  \E m, n \in Nat : /\ Sums(ChargedTo(a), charge, d, m)
                                        /\ Sums(GrantedBy(a), Cost, d, n)
                                        /\ consumed[a][d] = m + n
    BY DEF ConsumedSums
  <2>1. consumed[a][d] = 0 + 0
    BY <1>1, BudgetAt
  <2>2. Sums(ChargedTo(a), charge, d, 0) /\ Sums(GrantedBy(a), Cost, d, 0)
    BY <1>2, SumEmpty
  <2> QED BY <2>1, <2>2
<1>5. RefundIsCharge
  BY <1>1 DEF RefundIsCharge
<1> QED BY <1>3, <1>4, <1>5 DEF AccountsInv

\* Steps that neither end, issue nor charge a lease.
LEMMA QuietAccounts ==
    ASSUME SchedulerInv, AccountsInv, Quiet
    PROVE  AccountsInv'
<1>0. UNCHANGED <<leases, lease_history, charge, provisional_results, result_completion_leases,
                  reserved, consumed, evidence_grants>>
  BY DEF Quiet
<1>1. \A l \in lease_history : /\ ChargedAccounts(l)' = ChargedAccounts(l)
                               /\ ReservationOf(l)' = ReservationOf(l)
  BY ChargedAlike DEF Quiet
<1>2. \A a : /\ HeldBy(a)' = HeldBy(a) /\ ChargedTo(a)' = ChargedTo(a) /\ GrantedBy(a)' = GrantedBy(a)
  BY <1>0, <1>1 DEF HeldBy, ChargedTo, GrantedBy
<1>3. Reservation' = Reservation
  BY <1>0, <1>1 DEF Reservation
<1>4. ReservedSums'
  BY <1>0, <1>2, <1>3 DEF AccountsInv, ReservedSums
<1>5. ConsumedSums'
  BY <1>0, <1>2 DEF AccountsInv, ConsumedSums, Cost
<1>6. RefundIsCharge'
  BY <1>0, <1>1 DEF AccountsInv, RefundIsCharge, IsProvisional, Settled
<1> QED BY <1>4, <1>5, <1>6 DEF AccountsInv

\* grant_evidence_share: one more grant, charged to its campaign.
LEMMA GrantAccounts ==
    ASSUME SchedulerInv, AccountsInv, NEW i \in Instances, NEW g \in Grants, GrantEvidenceShare(i, g)
    PROVE  AccountsInv'
<1>0. /\ UNCHANGED <<request, leases, lease_history, lease_worker, charge, provisional_results,
                     result_completion_leases, reserved>>
      /\ g \notin evidence_grants /\ evidence_grants' = evidence_grants \cup {g}
      /\ consumed' = [consumed EXCEPT ![CampaignAccount(g.campaign_id)] = Plus(@, EvidenceCost(g))]
  BY DEF GrantEvidenceShare, jobVars, leaseVars, settleVars
<1>1. \A a : /\ HeldBy(a)' = HeldBy(a) /\ ChargedTo(a)' = ChargedTo(a)
             /\ GrantedBy(a)' = IF a = CampaignAccount(g.campaign_id) THEN GrantedBy(a) \cup {g} ELSE GrantedBy(a)
  BY <1>0 DEF HeldBy, ChargedTo, GrantedBy, ChargedAccounts
<1>2. Reservation' = Reservation
  BY <1>0 DEF Reservation, ReservationOf
<1>3. ReservedSums'
  BY <1>0, <1>1, <1>2 DEF AccountsInv, ReservedSums
<1>4. ConsumedSums'
  <2> SUFFICES ASSUME NEW a \in Accounts, NEW d \in Dims
               PROVE  \E m, n \in Nat : /\ Sums(ChargedTo(a)', charge', d, m)
                                        /\ Sums(GrantedBy(a)', Cost, d, n)
                                        /\ consumed'[a][d] = m + n
    BY DEF ConsumedSums, Cost
  <2>1. PICK m \in Nat, n \in Nat : /\ Sums(ChargedTo(a), charge, d, m)
                                    /\ Sums(GrantedBy(a), Cost, d, n)
                                    /\ consumed[a][d] = m + n
    BY DEF AccountsInv, ConsumedSums
  <2>2. Cost[g][d] \in Nat /\ Cost[g] = EvidenceCost(g) /\ consumed \in [Accounts -> Budgets]
    BY AccountTypes DEF SchedulerInv, TypeOK, Types, BudgetTypes
  <2>3. CASE a = CampaignAccount(g.campaign_id)
    <3>1. g \notin GrantedBy(a)
      BY <1>0 DEF GrantedBy
    <3>2. Sums(GrantedBy(a) \cup {g}, Cost, d, n + Cost[g][d])
      BY <2>1, <2>2, <3>1, SumAdd
    <3>3. consumed'[a][d] = consumed[a][d] + Cost[g][d]
      BY <1>0, <2>2, <2>3, BudgetAt
    <3>4. consumed'[a][d] = m + (n + Cost[g][d]) /\ n + Cost[g][d] \in Nat
      BY <2>1, <2>2, <3>3
    <3> QED BY <1>0, <1>1, <2>1, <2>3, <3>2, <3>4
  <2>4. CASE a # CampaignAccount(g.campaign_id)
    <3>1. consumed'[a] = consumed[a]
      BY <1>0, <2>2, <2>4
    <3> QED BY <1>0, <1>1, <2>1, <2>4, <3>1
  <2> QED BY <2>3, <2>4
<1>5. RefundIsCharge'
  BY <1>0 DEF AccountsInv, RefundIsCharge, IsProvisional, Settled, ReservationOf
<1> QED BY <1>3, <1>4, <1>5 DEF AccountsInv

\* job_leased: one more lease, which reserves and is charged nothing yet.
LEMMA ClaimAccounts ==
    ASSUME SchedulerInv, AccountsInv, NEW i \in Instances, NEW w \in Workers, NEW j \in JobIds, ClaimJob(i, w, j)
    PROVE  AccountsInv'
<1>1. PICK l : l = <<j, attempts[j] + 1>>
  OBVIOUS
<1>2. /\ leases' = leases \cup {l} /\ lease_history' = lease_history \cup {l}
      /\ lease_worker' = [lease_worker EXCEPT ![l] = w]
      /\ UNCHANGED <<request, charge, provisional_results, result_completion_leases, consumed, evidence_grants>>
      /\ reserved' = [a \in Accounts |-> IF a \in BudgetAccounts(request[j])
                                           THEN Plus(reserved[a], request[j].reservation) ELSE reserved[a]]
  BY <1>1 DEF ClaimJob, settleVars
<1>3. /\ request[j] \in Requests /\ request[j].reservation \in Budgets /\ l \in Leases /\ l[1] = j
      /\ l \notin lease_history /\ l \notin result_completion_leases
  <2>1. FirstVisited(w, j)
    BY DEF ClaimJob
  <2>2. request[j] \in Requests /\ attempts[j] \in 0 .. MaxAttempts - 1 /\ request[j].reservation \in Budgets
    BY <2>1, VisitedJob, RequestFacts
  <2>3. attempts[j] + 1 \in 1 .. MaxAttempts /\ ~(attempts[j] + 1 <= attempts[j])
    BY <2>2, BoundsAssumption
  <2>4. l \in Leases /\ l \notin lease_history
    BY <1>1, <2>3 DEF Leases, SchedulerInv, EveryLeaseSettled
  <2> QED BY <1>1, <2>2, <2>4 DEF SchedulerInv, EveryLeaseSettled
<1>4. \A m \in lease_history : ChargedAccounts(m)' = ChargedAccounts(m) /\ ReservationOf(m)' = ReservationOf(m)
  <2> SUFFICES ASSUME NEW m \in lease_history
               PROVE  ChargedAccounts(m)' = ChargedAccounts(m) /\ ReservationOf(m)' = ReservationOf(m)
    OBVIOUS
  <2>1. lease_worker'[m] = lease_worker[m]
    BY <1>2, <1>3, IssuedLease DEF SchedulerInv, TypeOK, Types, LeaseTypes
  <2> QED BY <1>2, <2>1, ChargedAlike
<1>5. \A a : /\ GrantedBy(a)' = GrantedBy(a)
             /\ ChargedTo(a)' = IF a \in ChargedAccounts(l)' THEN ChargedTo(a) \cup {l} ELSE ChargedTo(a)
  BY <1>2, <1>4 DEF GrantedBy, ChargedTo
<1>6. \A a \in BudgetHeldAccounts :
        HeldBy(a)' = IF a \in BudgetAccounts(request[j]) THEN HeldBy(a) \cup {l} ELSE HeldBy(a)
  <2> SUFFICES ASSUME NEW a \in BudgetHeldAccounts
               PROVE  HeldBy(a)' = IF a \in BudgetAccounts(request[j]) THEN HeldBy(a) \cup {l} ELSE HeldBy(a)
    OBVIOUS
  <2>1. a \in ChargedAccounts(l)' <=> a \in BudgetAccounts(request[j])
    <3>1. \A v : WorkerAccount(v)[1] = "worker"
      BY DEF WorkerAccount
    <3>2. a[1] # "worker"
      BY DEF BudgetHeldAccounts
    <3> QED BY <1>2, <1>3, <3>1, <3>2 DEF ChargedAccounts
  <2>2. l \notin leases /\ l \notin ChargedTo(a)
    BY <1>3 DEF SchedulerInv, EveryLeaseSettled, ChargedTo
  <2> QED BY <1>2, <1>5, <2>1, <2>2 DEF HeldBy
<1>7. /\ \A m \in lease_history : Reservation'[m] = Reservation[m]
      /\ Reservation'[l] = request[j].reservation
  BY <1>2, <1>3, <1>4 DEF Reservation, ReservationOf
<1>8. ReservedSums'
  <2> SUFFICES ASSUME NEW a \in BudgetHeldAccounts, NEW d \in Dims
               PROVE  Sums(HeldBy(a)', Reservation', d, reserved'[a][d])
    BY DEF ReservedSums
  <2>1. a \in Accounts /\ HeldBy(a) \subseteq lease_history /\ l \notin HeldBy(a)
    BY <1>3 DEF BudgetHeldAccounts, HeldBy, ChargedTo
  <2>2. Sums(HeldBy(a), Reservation', d, reserved[a][d])
    <3>1. Sums(HeldBy(a), Reservation, d, reserved[a][d])
      BY DEF AccountsInv, ReservedSums
    <3>2. \A m \in HeldBy(a) : Reservation'[m][d] = Reservation[m][d]
      BY <1>7, <2>1
    <3> QED BY <3>1, <3>2, SumSame
  <2>3. CASE a \in BudgetAccounts(request[j])
    <3>1. Reservation'[l][d] \in Nat
      BY <1>3, <1>7 DEF Budgets
    <3>2. Sums(HeldBy(a) \cup {l}, Reservation', d, reserved[a][d] + Reservation'[l][d])
      BY <2>1, <2>2, <3>1, SumAdd
    <3>3. reserved'[a][d] = reserved[a][d] + Reservation'[l][d]
      BY <1>2, <1>7, <2>1, <2>3, BudgetAt
    <3> QED BY <1>6, <2>3, <3>2, <3>3
  <2>4. CASE a \notin BudgetAccounts(request[j])
    <3>1. reserved'[a] = reserved[a]
      BY <1>2, <2>1, <2>4
    <3> QED BY <1>6, <2>2, <2>4, <3>1
  <2> QED BY <2>3, <2>4
<1>9. ConsumedSums'
  <2> SUFFICES ASSUME NEW a \in Accounts, NEW d \in Dims
               PROVE  \E m, n \in Nat : /\ Sums(ChargedTo(a)', charge', d, m)
                                        /\ Sums(GrantedBy(a)', Cost, d, n)
                                        /\ consumed'[a][d] = m + n
    BY DEF ConsumedSums, Cost
  <2>1. PICK m \in Nat, n \in Nat : /\ Sums(ChargedTo(a), charge, d, m)
                                    /\ Sums(GrantedBy(a), Cost, d, n)
                                    /\ consumed[a][d] = m + n
    BY DEF AccountsInv, ConsumedSums
  <2>2. charge[l] = Zero
    BY <1>3 DEF AccountsInv, RefundIsCharge, Settled
  <2>3. charge[l][d] = 0 /\ m + charge[l][d] = m /\ charge[l][d] \in Nat
    BY <2>2, BudgetAt
  <2>4. l \notin ChargedTo(a)
    BY <1>3 DEF ChargedTo
  <2>5. Sums(ChargedTo(a) \cup {l}, charge, d, m)
    <3>1. Sums(ChargedTo(a) \cup {l}, charge, d, m + charge[l][d])
      BY <2>1, <2>3, <2>4, SumAdd
    <3> QED BY <2>3, <3>1
  <2>6. Sums(ChargedTo(a)', charge', d, m)
    BY <1>2, <1>5, <2>1, <2>5
  <2> QED BY <1>2, <1>5, <2>1, <2>6
<1>10. RefundIsCharge'
  <2>1. ~IsProvisional(l)
    BY <1>3 DEF SchedulerInv, LateCountedOnce
  <2> QED BY <1>2, <1>4, <2>1 DEF AccountsInv, RefundIsCharge, IsProvisional, Settled
<1> QED BY <1>8, <1>9, <1>10 DEF AccountsInv

\* The end of a held lease: its reservation is given back in full, and what it
\* is charged is added to all accounts that pay for it.
LEMMA EndsAccounts ==
    ASSUME SchedulerInv, AccountsInv, NEW j \in JobIds, NEW amount \in Budgets, Ends(j, amount)
    PROVE  AccountsInv'
<1>1. PICK l : l = LeaseOf(j)
  OBVIOUS
<1>2. /\ leases' = leases \ {l}
      /\ reserved' = [a \in Accounts |-> IF a \in BudgetAccounts(request[j])
                                           THEN Minus(reserved[a], request[j].reservation) ELSE reserved[a]]
      /\ consumed' = [a \in Accounts |-> IF a \in ChargedAccounts(l) THEN Plus(consumed[a], amount)
                                                                     ELSE consumed[a]]
      /\ charge' = [charge EXCEPT ![l] = amount]
      /\ result_completion_leases' = result_completion_leases \cup {l}
      /\ UNCHANGED <<request, lease_history, lease_worker, evidence_grants>>
  BY <1>1 DEF Ends, ReleaseLease, AccountResult
<1>3. /\ l[1] = j /\ l \in Leases /\ l \in leases /\ l \in lease_history /\ l \notin result_completion_leases
      /\ request[j] \in Requests /\ request[j].reservation \in Budgets
  <2>1. lease[j] # 0
    BY DEF Ends
  <2>2. l[1] = j
    BY <1>1 DEF LeaseOf
  <2> QED BY <1>1, <2>1, <2>2, HeldLease, RequestFacts DEF SchedulerInv, EveryLeaseSettled
<1>4. \A a : ChargedTo(a)' = ChargedTo(a) /\ GrantedBy(a)' = GrantedBy(a) /\ HeldBy(a)' = HeldBy(a) \ {l}
  BY <1>2 DEF ChargedTo, ChargedAccounts, GrantedBy, HeldBy
<1>5. Reservation' = Reservation /\ Reservation[l] = request[j].reservation
  BY <1>2, <1>3 DEF Reservation, ReservationOf
<1>6. charge[l] = Zero /\ charge \in [Leases -> Budgets]
  BY <1>3 DEF AccountsInv, RefundIsCharge, Settled, SchedulerInv, TypeOK, Types, SettleTypes
<1>7. ReservedSums'
  <2> SUFFICES ASSUME NEW a \in BudgetHeldAccounts, NEW d \in Dims
               PROVE  Sums(HeldBy(a)', Reservation', d, reserved'[a][d])
    BY DEF ReservedSums
  <2>1. a \in Accounts /\ (l \in HeldBy(a) <=> a \in BudgetAccounts(request[j]))
    BY <1>3, RequestPays DEF BudgetHeldAccounts, HeldBy, ChargedTo
  <2>2. Sums(HeldBy(a), Reservation, d, reserved[a][d]) /\ \A m \in HeldBy(a) : Reservation[m][d] \in Nat
    BY AccountTypes DEF AccountsInv, ReservedSums, HeldBy, ChargedTo
  <2>3. CASE a \in BudgetAccounts(request[j])
    <3>1. /\ reserved[a][d] >= Reservation[l][d]
          /\ Sums(HeldBy(a) \ {l}, Reservation, d, reserved[a][d] - Reservation[l][d])
      BY <2>1, <2>2, <2>3, SumRemove
    <3>2. reserved'[a][d] = reserved[a][d] - Reservation[l][d]
      BY <1>2, <1>5, <2>1, <2>3, <3>1, BudgetAt
    <3> QED BY <1>4, <1>5, <3>1, <3>2
  <2>4. CASE a \notin BudgetAccounts(request[j])
    <3>1. reserved'[a] = reserved[a] /\ HeldBy(a) \ {l} = HeldBy(a)
      BY <1>2, <2>1, <2>4
    <3> QED BY <1>4, <1>5, <2>2, <3>1
  <2> QED BY <2>3, <2>4
<1>8. ConsumedSums'
  <2> SUFFICES ASSUME NEW a \in Accounts, NEW d \in Dims
               PROVE  \E m, n \in Nat : /\ Sums(ChargedTo(a)', charge', d, m)
                                        /\ Sums(GrantedBy(a)', Cost, d, n)
                                        /\ consumed'[a][d] = m + n
    BY DEF ConsumedSums, Cost
  <2>1. PICK m \in Nat, n \in Nat : /\ Sums(ChargedTo(a), charge, d, m)
                                    /\ Sums(GrantedBy(a), Cost, d, n)
                                    /\ consumed[a][d] = m + n
    BY DEF AccountsInv, ConsumedSums
  <2>2. /\ \A k \in ChargedTo(a) : k \in Leases /\ charge[k][d] \in Nat
        /\ \A k \in ChargedTo(a) \ {l} : charge'[k][d] = charge[k][d]
    BY <1>2, <1>6, AccountTypes DEF ChargedTo
  <2>3. charge[l][d] = 0 /\ charge'[l][d] = amount[d] /\ amount[d] \in Nat
    BY <1>2, <1>3, <1>6, BudgetAt DEF Budgets
  <2>4. l \in ChargedTo(a) <=> a \in ChargedAccounts(l)
    BY <1>3 DEF ChargedTo
  <2>5. CASE a \in ChargedAccounts(l)
    <3>1. Sums(ChargedTo(a), charge', d, m - charge[l][d] + charge'[l][d])
      BY <2>1, <2>2, <2>3, <2>4, <2>5, SumReplace
    <3>2. m - charge[l][d] + charge'[l][d] = m + amount[d] /\ m + amount[d] \in Nat
      BY <2>3
    <3>3. consumed'[a][d] = consumed[a][d] + amount[d]
      BY <1>2, <2>5, BudgetAt
    <3>4. consumed'[a][d] = (m + amount[d]) + n
      BY <2>1, <2>3, <3>3
    <3> QED BY <1>4, <2>1, <3>1, <3>2, <3>4
  <2>6. CASE a \notin ChargedAccounts(l)
    <3>1. \A k \in ChargedTo(a) : charge'[k][d] = charge[k][d]
      BY <2>2, <2>4, <2>6
    <3>2. Sums(ChargedTo(a), charge', d, m)
      BY <2>1, <3>1, SumSame
    <3>3. consumed'[a] = consumed[a]
      BY <1>2, <2>6
    <3> QED BY <1>4, <2>1, <3>2, <3>3
  <2> QED BY <2>5, <2>6
<1>9. RefundIsCharge'
  <2>1. ASSUME NEW k \in lease_history, IsProvisional(k)'
        PROVE  /\ provisional_results'[k] = charge'[k]
               /\ \A d \in Dims : charge'[k][d] >= ReservationOf(k)'[d]
    <3>1. k \in Leases /\ ReservationOf(k)' = ReservationOf(k) /\ ReservationOf(l) = request[j].reservation
      BY <1>2, <1>3, AccountTypes, IssuedLease DEF ReservationOf
    <3>2. provisional_results \in [Leases -> Budgets \cup {None}] /\ ~IsProvisional(l)
      BY <1>3 DEF SchedulerInv, TypeOK, Types, SettleTypes, LateCountedOnce
    <3>3. \/ provisional_results' = provisional_results
          \/ /\ provisional_results' = [provisional_results EXCEPT ![l] = amount]
             /\ \A d \in Dims : amount[d] >= request[j].reservation[d]
      BY <1>1 DEF Ends
    <3>4. CASE k = l
      <4>1. provisional_results'[l] = amount /\ \A d \in Dims : amount[d] >= request[j].reservation[d]
        BY <1>3, <2>1, <3>2, <3>3, <3>4 DEF IsProvisional
      <4> QED BY <1>2, <1>3, <1>6, <3>1, <3>4, <4>1
    <3>5. CASE k # l
      <4>1. provisional_results'[k] = provisional_results[k] /\ charge'[k] = charge[k]
        BY <1>2, <1>6, <3>1, <3>2, <3>3, <3>5
      <4>2. IsProvisional(k)
        BY <2>1, <4>1 DEF IsProvisional
      <4> QED BY <3>1, <4>1, <4>2 DEF AccountsInv, RefundIsCharge
    <3> QED BY <3>4, <3>5
  <2>2. ASSUME NEW k \in Leases, ~Settled(k)' PROVE charge'[k] = Zero
    <3>1. k # l /\ ~Settled(k)
      BY <1>2, <2>2 DEF Settled
    <3> QED BY <1>2, <1>6, <3>1 DEF AccountsInv, RefundIsCharge
  <2> QED BY <1>2, <2>1, <2>2 DEF RefundIsCharge
<1> QED BY <1>7, <1>8, <1>9 DEF AccountsInv

\* A late result: the charge it replaces is refunded to the same accounts, and
\* the refund never exceeds what they had consumed.
LEMMA ReplacesAccounts ==
    ASSUME SchedulerInv, AccountsInv, NEW l \in lease_history \ leases, NEW amount \in Budgets, Replaces(l, amount)
    PROVE  AccountsInv'
<1>1. /\ l \in Leases /\ provisional_results[l] = charge[l] /\ charge \in [Leases -> Budgets]
      /\ provisional_results \in [Leases -> Budgets \cup {None}]
  BY IssuedLease DEF Replaces, AccountsInv, RefundIsCharge, SchedulerInv, TypeOK, Types, SettleTypes
<1>2. /\ consumed' = [a \in Accounts |-> IF a \in ChargedAccounts(l)
                                           THEN Plus(Minus(consumed[a], charge[l]), amount) ELSE consumed[a]]
      /\ charge' = [charge EXCEPT ![l] = amount]
      /\ provisional_results' = [provisional_results EXCEPT ![l] = None]
      /\ result_completion_leases' = result_completion_leases \cup {l}
      /\ UNCHANGED <<request, leases, lease_history, lease_worker, reserved, evidence_grants>>
  BY <1>1 DEF Replaces, ReplaceAccountedResult
<1>3. \A a : ChargedTo(a)' = ChargedTo(a) /\ GrantedBy(a)' = GrantedBy(a) /\ HeldBy(a)' = HeldBy(a)
  BY <1>2 DEF ChargedTo, ChargedAccounts, GrantedBy, HeldBy
<1>4. Reservation' = Reservation
  BY <1>2 DEF Reservation, ReservationOf
<1>5. ReservedSums'
  BY <1>2, <1>3, <1>4 DEF AccountsInv, ReservedSums
<1>6. ConsumedSums'
  <2> SUFFICES ASSUME NEW a \in Accounts, NEW d \in Dims
               PROVE  \E m, n \in Nat : /\ Sums(ChargedTo(a)', charge', d, m)
                                        /\ Sums(GrantedBy(a)', Cost, d, n)
                                        /\ consumed'[a][d] = m + n
    BY DEF ConsumedSums, Cost
  <2>1. PICK m \in Nat, n \in Nat : /\ Sums(ChargedTo(a), charge, d, m)
                                    /\ Sums(GrantedBy(a), Cost, d, n)
                                    /\ consumed[a][d] = m + n
    BY DEF AccountsInv, ConsumedSums
  <2>2. /\ \A k \in ChargedTo(a) : k \in Leases /\ charge[k][d] \in Nat
        /\ \A k \in ChargedTo(a) \ {l} : charge'[k][d] = charge[k][d]
    BY <1>1, <1>2, AccountTypes DEF ChargedTo
  <2>3. charge'[l][d] = amount[d] /\ amount[d] \in Nat /\ charge[l][d] \in Nat
    BY <1>1, <1>2 DEF Budgets
  <2>4. l \in ChargedTo(a) <=> a \in ChargedAccounts(l)
    BY DEF ChargedTo
  <2>5. CASE a \in ChargedAccounts(l)
    <3>1. /\ m >= charge[l][d]
          /\ Sums(ChargedTo(a), charge', d, m - charge[l][d] + charge'[l][d])
      BY <2>1, <2>2, <2>3, <2>4, <2>5, SumReplace
    <3>2. m - charge[l][d] + charge'[l][d] \in Nat
      BY <2>3, <3>1
    <3>3. consumed'[a][d] = Minus(consumed[a], charge[l])[d] + amount[d]
      BY <1>2, <2>5, BudgetAt
    <3>4. Minus(consumed[a], charge[l])[d] = consumed[a][d] - charge[l][d]
      BY <2>1, <2>3, <3>1, BudgetAt
    <3>5. consumed'[a][d] = (m - charge[l][d] + charge'[l][d]) + n
      BY <2>1, <2>3, <3>1, <3>3, <3>4
    <3> QED BY <1>3, <2>1, <3>1, <3>2, <3>5
  <2>6. CASE a \notin ChargedAccounts(l)
    <3>1. \A k \in ChargedTo(a) : charge'[k][d] = charge[k][d]
      BY <2>2, <2>4, <2>6
    <3>2. Sums(ChargedTo(a), charge', d, m)
      BY <2>1, <3>1, SumSame
    <3>3. consumed'[a] = consumed[a]
      BY <1>2, <2>6
    <3> QED BY <1>3, <2>1, <3>2, <3>3
  <2> QED BY <2>5, <2>6
<1>7. RefundIsCharge'
  <2>1. ASSUME NEW k \in lease_history, IsProvisional(k)'
        PROVE  /\ provisional_results'[k] = charge'[k]
               /\ \A d \in Dims : charge'[k][d] >= ReservationOf(k)'[d]
    <3>1. k \in Leases /\ k # l /\ ReservationOf(k)' = ReservationOf(k)
      BY <1>1, <1>2, <2>1, IssuedLease DEF IsProvisional, ReservationOf
    <3>2. provisional_results'[k] = provisional_results[k] /\ charge'[k] = charge[k]
      BY <1>1, <1>2, <3>1
    <3>3. IsProvisional(k)
      BY <2>1, <3>2 DEF IsProvisional
    <3> QED BY <3>1, <3>2, <3>3 DEF AccountsInv, RefundIsCharge
  <2>2. ASSUME NEW k \in Leases, ~Settled(k)' PROVE charge'[k] = Zero
    <3>1. k # l /\ ~Settled(k)
      BY <1>2, <2>2 DEF Settled
    <3> QED BY <1>1, <1>2, <3>1 DEF AccountsInv, RefundIsCharge
  <2> QED BY <1>2, <2>1, <2>2 DEF RefundIsCharge
<1> QED BY <1>5, <1>6, <1>7 DEF AccountsInv

LEMMA AccountsStep == SchedulerInv /\ AccountsInv /\ [Next]_vars => AccountsInv'
BY AccountSteps, QuietAccounts, GrantAccounts, ClaimAccounts, EndsAccounts, ReplacesAccounts

\* The totals are the sums.
LEMMA SumsAddUp ==
    ASSUME SchedulerInv, AccountsInv
    PROVE  AccountsAddUp
<1>1. ReservedIsHeld
  <2> SUFFICES ASSUME NEW a \in BudgetHeldAccounts PROVE reserved[a] = SumOver(HeldBy(a), Reservation)
    BY DEF ReservedIsHeld
  <2>1. reserved[a] \in [Dims -> Nat]
    BY DEF BudgetHeldAccounts, SchedulerInv, TypeOK, Types, BudgetTypes, Budgets
  <2>2. \A d \in Dims : reserved[a][d] = Cardinality(Units(HeldBy(a), Reservation, d))
    BY DEF AccountsInv, ReservedSums, Sums
  <2> QED BY <2>1, <2>2 DEF SumOver
<1>2. ConsumedIsLedger
  <2> SUFFICES ASSUME NEW a \in Accounts
               PROVE  consumed[a] = Plus(SumOver(ChargedTo(a), charge), SumOver(GrantedBy(a), Cost))
    BY DEF ConsumedIsLedger
  <2>1. consumed[a] \in [Dims -> Nat]
    BY DEF SchedulerInv, TypeOK, Types, BudgetTypes, Budgets
  <2>2. \A d \in Dims : consumed[a][d] = Cardinality(Units(ChargedTo(a), charge, d))
                                           + Cardinality(Units(GrantedBy(a), Cost, d))
    BY DEF AccountsInv, ConsumedSums, Sums
  <2> QED BY <2>1, <2>2 DEF SumOver, Plus
<1> QED BY <1>1, <1>2 DEF AccountsAddUp

\* Budgets neither leak nor drift: at every moment each campaign and branch has
\* reserved exactly what its held leases reserve, and each campaign, branch and
\* worker has consumed exactly what its leases were charged last, plus the
\* grants, for whatever mix of results, expiries, cancellations and late answers.
THEOREM AccountsBalance == Spec => []AccountsAddUp
<1>1. Init => AccountsInv
  BY AccountsInit DEF Init
<1>2. SchedulerInv /\ AccountsInv => AccountsAddUp
  BY SumsAddUp
<1> QED BY <1>1, <1>2, AccountsStep, SchedulerSafe, PTL DEF Spec

-----------------------------------------------------------------------------
(* Limits that are configured before the first lease.                        *)

AdmittedSums ==
    \A a \in BudgetHeldAccounts, d \in Dims : \E m, n \in Nat :
        /\ Sums(ChargedTo(a), Admitted, d, m)
        /\ Sums(GrantedBy(a), Cost, d, n)
        /\ limits[a][d] = 0 \/ m + n <= limits[a][d]

\* Only configure_campaign writes limits.
LEMMA LimitsStay ==
    ASSUME Configurations = {}, [Next]_vars
    PROVE  limits' = limits
<1>1. \A i \in Instances : Administer(i) => limits' = limits
  BY DEF Administer, RegisterWorker, BindExecutor, GrantEvidenceShare, Enqueue, RecordNotice, budgetVars
<1>2. \A i \in Instances : Claim(i) => limits' = limits
  BY DEF Claim, ClaimJob, ExhaustJob, budgetVars
<1>3. \A i \in Instances : Complete(i) => limits' = limits
  BY DEF Complete, CompleteRequeued, CompleteFinished, CompleteCanceling, CompleteLate, Settle, SettleLate
<1>4. \A i \in Instances : Cancel(i) => limits' = limits
  BY DEF Cancel, CancelQueued, CancelRequested, SealActive, CancelConfirmed, CancelUnconfirmed, CancelCharged,
         Settle, budgetVars
<1>5. \A i \in Instances : Reconcile(i) => limits' = limits
  BY DEF Reconcile, ReconcileCanceling, ReconcileRequeued, ReconcileFailed, CancelCharged, Settle
<1>6. CASE \/ \E m \in Leases : Expire(m)
           \/ \E i \in Instances : \/ \E w \in Workers, m \in Leases : Heartbeat(i, w, m)
                                   \/ \E m \in Leases : ResumeOrphan(i, m)
                                   \/ Restart(i)
           \/ UNCHANGED vars
  BY <1>6 DEF Expire, Heartbeat, ResumeOrphan, Restart, vars, budgetVars
<1> QED BY <1>1, <1>2, <1>3, <1>4, <1>5, <1>6 DEF Next

\* What a lease's reservation admitted is no more than what it reserves, and
\* no more than what it was charged once it has ended.
LEMMA AdmittedAt ==
    ASSUME SchedulerInv, NEW l \in lease_history, NEW d \in Dims
    PROVE  /\ Admitted[l][d] = IF l \in leases \/ charge[l][d] > ReservationOf(l)[d]
                                 THEN ReservationOf(l)[d] ELSE charge[l][d]
           /\ Admitted[l][d] \in Nat /\ Admitted[l][d] <= ReservationOf(l)[d]
           /\ l \notin leases => Admitted[l][d] <= charge[l][d]
           /\ ReservationOf(l)[d] \in Nat /\ charge[l][d] \in Nat
<1>1. ReservationOf(l)[d] \in Nat /\ charge[l][d] \in Nat
  BY AccountTypes DEF Budgets
<1>2. Admitted[l][d] = IF l \in leases \/ charge[l][d] > ReservationOf(l)[d]
                         THEN ReservationOf(l)[d] ELSE charge[l][d]
  BY DEF Admitted
<1> QED BY <1>1, <1>2

\* What was admitted is covered by what is reserved and what was charged.
LEMMA AdmittedIsCovered ==
    ASSUME SchedulerInv, AccountsInv, NEW a \in BudgetHeldAccounts, NEW d \in Dims,
           NEW m \in Nat, NEW n \in Nat, Sums(ChargedTo(a), Admitted, d, m), Sums(GrantedBy(a), Cost, d, n)
    PROVE  m + n <= reserved[a][d] + consumed[a][d]
<1> DEFINE A == Units(ChargedTo(a), Admitted, d)
           R == Units(HeldBy(a), Reservation, d)
           C == Units(ChargedTo(a), charge, d)
<1>0. a \in Accounts
  BY DEF BudgetHeldAccounts
<1>1. A \subseteq R \cup C
  <2> SUFFICES ASSUME NEW l \in ChargedTo(a), NEW k \in 1 .. Admitted[l][d] PROVE <<l, k>> \in R \cup C
    BY DEF Units
  <2>1. l \in lease_history /\ Reservation[l] = ReservationOf(l)
    BY AccountTypes DEF ChargedTo
  <2>2. /\ Admitted[l][d] <= Reservation[l][d] /\ Admitted[l][d] \in Nat
        /\ l \notin leases => Admitted[l][d] <= charge[l][d]
        /\ Reservation[l][d] \in Nat /\ charge[l][d] \in Nat
    BY <2>1, AdmittedAt
  <2>3. CASE l \in leases
    <3>1. l \in HeldBy(a) /\ k \in 1 .. Reservation[l][d]
      BY <2>2, <2>3 DEF HeldBy
    <3> QED BY <3>1 DEF Units
  <2>4. CASE l \notin leases
    <3>1. k \in 1 .. charge[l][d]
      BY <2>2, <2>4
    <3> QED BY <3>1 DEF Units
  <2> QED BY <2>3, <2>4
<1>2. IsFiniteSet(R) /\ Cardinality(R) = reserved[a][d] /\ reserved[a][d] \in Nat
  BY <1>0, AccountTypes DEF AccountsInv, ReservedSums, Sums
<1>3. PICK c \in Nat, e \in Nat : /\ Sums(ChargedTo(a), charge, d, c)
                                  /\ Sums(GrantedBy(a), Cost, d, e)
                                  /\ consumed[a][d] = c + e
  BY <1>0 DEF AccountsInv, ConsumedSums
<1>4. IsFiniteSet(C) /\ Cardinality(C) = c /\ Cardinality(A) = m
  BY <1>3 DEF Sums
<1>5. e = n
  BY <1>3, SumUnique
<1> HIDE DEF A, R, C
<1>6. /\ IsFiniteSet(R \cup C)
      /\ Cardinality(R \cup C) = Cardinality(R) + Cardinality(C) - Cardinality(R \cap C)
  BY <1>2, <1>4, FS_Union
<1>7. Cardinality(R \cap C) \in Nat
  <2>1. IsFiniteSet(R \cap C)
    BY <1>2, FS_Subset
  <2> QED BY <2>1, FS_CardinalityType
<1>8. Cardinality(A) <= Cardinality(R \cup C)
  BY <1>1, <1>6, FS_Subset
<1> QED BY <1>2, <1>3, <1>4, <1>5, <1>6, <1>7, <1>8

\* Nothing more is admitted when no lease or grant is added.
LEMMA AdmittedShrinks ==
    ASSUME SchedulerInv, SchedulerInv', AdmittedSums, UNCHANGED <<lease_history, limits>>,
           \A a : ChargedTo(a)' = ChargedTo(a) /\ GrantedBy(a)' = GrantedBy(a),
           \A l \in lease_history, d \in Dims : Admitted'[l][d] <= Admitted[l][d]
    PROVE  AdmittedSums'
<1> SUFFICES ASSUME NEW a \in BudgetHeldAccounts, NEW d \in Dims
             PROVE  \E m, n \in Nat : /\ Sums(ChargedTo(a)', Admitted', d, m)
                                      /\ Sums(GrantedBy(a)', Cost, d, n)
                                      /\ limits'[a][d] = 0 \/ m + n <= limits'[a][d]
  BY DEF AdmittedSums, Cost
<1>1. PICK m \in Nat, n \in Nat : /\ Sums(ChargedTo(a), Admitted, d, m)
                                  /\ Sums(GrantedBy(a), Cost, d, n)
                                  /\ limits[a][d] = 0 \/ m + n <= limits[a][d]
  BY DEF AdmittedSums
<1>2. \A l \in ChargedTo(a) : Admitted[l][d] \in Nat
  BY AdmittedAt DEF ChargedTo
<1>3. \A l \in ChargedTo(a) : Admitted'[l][d] \in Nat
  <2> SUFFICES ASSUME NEW l \in lease_history' PROVE Admitted'[l][d] \in Nat
    BY DEF ChargedTo
  <2>1. (ReservationOf(l)' \in Budgets) /\ charge' \in [Leases -> Budgets] /\ l \in Leases
    <3>1. l \in Leases /\ l[1] \in JobIds /\ attempts'[l[1]] \in Nat /\ l[2] \in 1 .. MaxAttempts
          /\ l = <<l[1], l[2]>>
      BY BoundsAssumption DEF SchedulerInv, TypeOK, Types, LeaseTypes, JobTypes, Leases
    <3>2. status'[l[1]] # "absent"
      BY <3>1 DEF SchedulerInv, EveryLeaseSettled, AttemptsLeft
    <3>3. request'[l[1]] \in Requests
      BY <3>1, <3>2 DEF SchedulerInv, TypeOK, Types, JobTypes
    <3> QED BY <3>1, <3>3, RequestFacts DEF ReservationOf, SchedulerInv, TypeOK, Types, SettleTypes
  <2>2. Admitted'[l][d] \in {ReservationOf(l)'[d], charge'[l][d]}
    BY DEF Admitted
  <2> QED BY <2>1, <2>2 DEF Budgets
<1>4. PICK k \in Nat : Sums(ChargedTo(a), Admitted', d, k) /\ k <= m
  BY <1>1, <1>2, <1>3, SumLess DEF ChargedTo
<1>5. limits[a][d] \in Nat
  BY DEF BudgetHeldAccounts, SchedulerInv, TypeOK, Types, BudgetTypes, Budgets
<1>6. limits[a][d] = 0 \/ k + n <= limits[a][d]
  BY <1>1, <1>4, <1>5
<1> QED BY <1>1, <1>4, <1>6

\* Nor do the steps that leave leases and grants alone.
LEMMA AdmittedQuiet ==
    ASSUME SchedulerInv, SchedulerInv', AdmittedSums, Quiet, limits' = limits
    PROVE  AdmittedSums'
<1>1. \A l \in lease_history : /\ ChargedAccounts(l)' = ChargedAccounts(l)
                               /\ ReservationOf(l)' = ReservationOf(l)
  BY ChargedAlike DEF Quiet
<1>2. /\ \A a : ChargedTo(a)' = ChargedTo(a) /\ GrantedBy(a)' = GrantedBy(a)
      /\ Admitted' = Admitted
  BY <1>1 DEF Quiet, ChargedTo, GrantedBy, Admitted
<1>3. \A l \in lease_history, d \in Dims : Admitted'[l][d] <= Admitted[l][d]
  BY <1>2, AdmittedAt
<1> QED BY <1>2, <1>3, AdmittedShrinks DEF Quiet

\* A lease that ends gives back what it did not use.
LEMMA AdmittedEnds ==
    ASSUME SchedulerInv, SchedulerInv', AdmittedSums, NEW j \in JobIds, NEW amount \in Budgets, Ends(j, amount),
           limits' = limits
    PROVE  AdmittedSums'
<1>1. PICK l : l = LeaseOf(j)
  OBVIOUS
<1>2. /\ leases' = leases \ {l} /\ charge' = [charge EXCEPT ![l] = amount]
      /\ UNCHANGED <<request, lease_history, lease_worker, evidence_grants>>
      /\ l \in Leases /\ l \in leases /\ charge \in [Leases -> Budgets]
  BY <1>1, HeldLease DEF Ends, ReleaseLease, AccountResult, SchedulerInv, TypeOK, Types, SettleTypes
<1>3. \A a : ChargedTo(a)' = ChargedTo(a) /\ GrantedBy(a)' = GrantedBy(a)
  BY <1>2 DEF ChargedTo, ChargedAccounts, GrantedBy
<1>4. ASSUME NEW k \in lease_history, NEW d \in Dims PROVE Admitted'[k][d] <= Admitted[k][d]
  <2>1. /\ ReservationOf(k)' = ReservationOf(k) /\ k \in Leases
        /\ ReservationOf(k)[d] \in Nat /\ amount[d] \in Nat
    BY <1>2, AdmittedAt, IssuedLease DEF ReservationOf, Budgets
  <2>2. Admitted'[k][d] = IF k \in leases' \/ charge'[k][d] > ReservationOf(k)[d]
                            THEN ReservationOf(k)[d] ELSE charge'[k][d]
    BY <1>2, <2>1 DEF Admitted
  <2>3. CASE k = l
    <3>1. Admitted[k][d] = ReservationOf(k)[d] /\ charge'[k][d] = amount[d]
      BY <1>2, <2>1, <2>3, AdmittedAt
    <3> QED BY <2>1, <2>2, <3>1
  <2>4. CASE k # l
    <3>1. charge'[k] = charge[k] /\ (k \in leases' <=> k \in leases)
      BY <1>2, <2>1, <2>4
    <3> QED BY <2>2, <3>1, AdmittedAt
  <2> QED BY <2>3, <2>4
<1> QED BY <1>2, <1>3, <1>4, AdmittedShrinks

\* A late result cannot take more of the reservation than the provisional
\* charge did, which took all of it.
LEMMA AdmittedReplaces ==
    ASSUME SchedulerInv, SchedulerInv', AccountsInv, AdmittedSums,
           NEW l \in lease_history \ leases, NEW amount \in Budgets, Replaces(l, amount), limits' = limits
    PROVE  AdmittedSums'
<1>1. /\ charge' = [charge EXCEPT ![l] = amount] /\ l \in Leases /\ charge \in [Leases -> Budgets]
      /\ UNCHANGED <<request, leases, lease_history, lease_worker, evidence_grants>>
  BY IssuedLease DEF Replaces, ReplaceAccountedResult, SchedulerInv, TypeOK, Types, SettleTypes
<1>2. \A a : ChargedTo(a)' = ChargedTo(a) /\ GrantedBy(a)' = GrantedBy(a)
  BY <1>1 DEF ChargedTo, ChargedAccounts, GrantedBy
<1>3. ASSUME NEW k \in lease_history, NEW d \in Dims PROVE Admitted'[k][d] <= Admitted[k][d]
  <2>1. /\ ReservationOf(k)' = ReservationOf(k) /\ k \in Leases
        /\ ReservationOf(k)[d] \in Nat /\ amount[d] \in Nat
    BY <1>1, AdmittedAt, IssuedLease DEF ReservationOf, Budgets
  <2>2. Admitted'[k][d] = IF k \in leases \/ charge'[k][d] > ReservationOf(k)[d]
                            THEN ReservationOf(k)[d] ELSE charge'[k][d]
    BY <1>1, <2>1 DEF Admitted
  <2>3. CASE k = l
    <3>1. charge[k][d] >= ReservationOf(k)[d] /\ charge[k][d] \in Nat
      BY <2>3, AdmittedAt DEF AccountsInv, RefundIsCharge, Replaces
    <3>2. Admitted[k][d] = ReservationOf(k)[d] /\ charge'[k][d] = amount[d]
      BY <1>1, <2>1, <2>3, <3>1, AdmittedAt
    <3> QED BY <2>1, <2>2, <3>2
  <2>4. CASE k # l
    <3>1. charge'[k] = charge[k]
      BY <1>1, <2>1, <2>4
    <3> QED BY <2>2, <3>1, AdmittedAt
  <2> QED BY <2>3, <2>4
<1> QED BY <1>1, <1>2, <1>3, AdmittedShrinks

\* grant_evidence_share compares all of the campaign's consumption and
\* reservations with its limit.
LEMMA AdmittedGrant ==
    ASSUME SchedulerInv, AccountsInv, AdmittedSums, NEW i \in Instances, NEW g \in Grants, GrantEvidenceShare(i, g),
           limits' = limits
    PROVE  AdmittedSums'
<1>1. /\ UNCHANGED <<request, leases, lease_history, lease_worker, charge>>
      /\ g \notin evidence_grants /\ evidence_grants' = evidence_grants \cup {g}
      /\ LET a == CampaignAccount(g.campaign_id)
         IN  Within(Plus(Plus(consumed[a], reserved[a]), EvidenceCost(g)), limits[a])
  BY DEF GrantEvidenceShare, jobVars, leaseVars, settleVars
<1>2. /\ \A a : /\ ChargedTo(a)' = ChargedTo(a)
                /\ GrantedBy(a)' = IF a = CampaignAccount(g.campaign_id) THEN GrantedBy(a) \cup {g} ELSE GrantedBy(a)
      /\ Admitted' = Admitted
  BY <1>1 DEF ChargedTo, ChargedAccounts, GrantedBy, Admitted, ReservationOf
<1> SUFFICES ASSUME NEW a \in BudgetHeldAccounts, NEW d \in Dims
             PROVE  \E m, n \in Nat : /\ Sums(ChargedTo(a)', Admitted', d, m)
                                      /\ Sums(GrantedBy(a)', Cost, d, n)
                                      /\ limits'[a][d] = 0 \/ m + n <= limits'[a][d]
  BY DEF AdmittedSums, Cost
<1>3. PICK m \in Nat, n \in Nat : /\ Sums(ChargedTo(a), Admitted, d, m)
                                  /\ Sums(GrantedBy(a), Cost, d, n)
                                  /\ limits[a][d] = 0 \/ m + n <= limits[a][d]
  BY DEF AdmittedSums
<1>4. CASE a = CampaignAccount(g.campaign_id)
  <2>1. g \notin GrantedBy(a) /\ Cost[g][d] \in Nat /\ Cost[g] = EvidenceCost(g)
    BY <1>1, AccountTypes DEF GrantedBy
  <2>2. Sums(GrantedBy(a) \cup {g}, Cost, d, n + Cost[g][d])
    BY <1>3, <2>1, SumAdd
  <2>3. limits[a][d] = 0 \/ consumed[a][d] + reserved[a][d] + Cost[g][d] <= limits[a][d]
    BY <1>1, <1>4, <2>1, BudgetAt DEF Within
  <2>4. m + n <= reserved[a][d] + consumed[a][d]
    BY <1>3, AdmittedIsCovered
  <2>5. limits[a][d] \in Nat /\ reserved[a][d] \in Nat /\ consumed[a][d] \in Nat
    BY AccountTypes DEF BudgetHeldAccounts, SchedulerInv, TypeOK, Types, BudgetTypes, Budgets
  <2>6. limits[a][d] = 0 \/ m + (n + Cost[g][d]) <= limits[a][d]
    BY <2>1, <2>3, <2>4, <2>5
  <2>7. n + Cost[g][d] \in Nat
    BY <2>1
  <2> QED BY <1>2, <1>3, <1>4, <2>2, <2>6, <2>7
<1>5. CASE a # CampaignAccount(g.campaign_id)
  BY <1>2, <1>3, <1>5
<1> QED BY <1>4, <1>5

\* claim() compares them with both limits of the job, the campaign's and the
\* branch's.
LEMMA AdmittedClaim ==
    ASSUME SchedulerInv, AccountsInv, AdmittedSums,
           NEW i \in Instances, NEW w \in Workers, NEW j \in JobIds, ClaimJob(i, w, j), limits' = limits
    PROVE  AdmittedSums'
<1>1. PICK l : l = <<j, attempts[j] + 1>>
  OBVIOUS
<1>2. /\ leases' = leases \cup {l} /\ lease_history' = lease_history \cup {l}
      /\ lease_worker' = [lease_worker EXCEPT ![l] = w]
      /\ UNCHANGED <<request, charge, evidence_grants>>
      /\ BudgetState(request[j]) = "available"
  BY <1>1 DEF ClaimJob, settleVars
<1>3. /\ request[j] \in Requests /\ request[j].reservation \in Budgets /\ l \in Leases /\ l[1] = j
      /\ l \notin lease_history
  <2>1. FirstVisited(w, j)
    BY DEF ClaimJob
  <2>2. request[j] \in Requests /\ attempts[j] \in 0 .. MaxAttempts - 1 /\ request[j].reservation \in Budgets
    BY <2>1, VisitedJob, RequestFacts
  <2>3. attempts[j] + 1 \in 1 .. MaxAttempts /\ ~(attempts[j] + 1 <= attempts[j])
    BY <2>2, BoundsAssumption
  <2>4. l \in Leases /\ l \notin lease_history
    BY <1>1, <2>3 DEF Leases, SchedulerInv, EveryLeaseSettled
  <2> QED BY <1>1, <2>2, <2>4
<1>4. ASSUME NEW k \in lease_history
      PROVE  /\ ChargedAccounts(k)' = ChargedAccounts(k) /\ ReservationOf(k)' = ReservationOf(k)
             /\ Admitted'[k] = Admitted[k]
  <2>1. lease_worker'[k] = lease_worker[k] /\ k # l /\ (k \in leases' <=> k \in leases)
    BY <1>2, <1>3, IssuedLease DEF SchedulerInv, TypeOK, Types, LeaseTypes
  <2>2. ChargedAccounts(k)' = ChargedAccounts(k) /\ ReservationOf(k)' = ReservationOf(k)
    BY <1>2, <2>1, ChargedAlike
  <2> QED BY <1>2, <2>1, <2>2 DEF Admitted
<1>5. \A d \in Dims : Admitted'[l][d] = request[j].reservation[d]
  BY <1>2, <1>3 DEF Admitted, ReservationOf
<1>6. \A a : /\ GrantedBy(a)' = GrantedBy(a)
             /\ ChargedTo(a)' = IF a \in ChargedAccounts(l)' THEN ChargedTo(a) \cup {l} ELSE ChargedTo(a)
  BY <1>2, <1>4 DEF GrantedBy, ChargedTo
<1> SUFFICES ASSUME NEW a \in BudgetHeldAccounts, NEW d \in Dims
             PROVE  \E m, n \in Nat : /\ Sums(ChargedTo(a)', Admitted', d, m)
                                      /\ Sums(GrantedBy(a)', Cost, d, n)
                                      /\ limits'[a][d] = 0 \/ m + n <= limits'[a][d]
  BY DEF AdmittedSums, Cost
<1>7. PICK m \in Nat, n \in Nat : /\ Sums(ChargedTo(a), Admitted, d, m)
                                  /\ Sums(GrantedBy(a), Cost, d, n)
                                  /\ limits[a][d] = 0 \/ m + n <= limits[a][d]
  BY DEF AdmittedSums
<1>8. Sums(ChargedTo(a), Admitted', d, m)
  BY <1>4, <1>7, SumSame DEF ChargedTo
<1>9. CASE a \in ChargedAccounts(l)'
  <2>1. a \in BudgetAccounts(request[j])
    <3>1. \A v : WorkerAccount(v)[1] = "worker"
      BY DEF WorkerAccount
    <3>2. a[1] # "worker"
      BY DEF BudgetHeldAccounts
    <3> QED BY <1>2, <1>3, <1>9, <3>1, <3>2 DEF ChargedAccounts
  <2>2. Within(Plus(Plus(reserved[a], consumed[a]), request[j].reservation), limits[a])
    BY <1>2, <2>1 DEF BudgetState, BudgetReserved
  <2>3. limits[a][d] = 0 \/ reserved[a][d] + consumed[a][d] + request[j].reservation[d] <= limits[a][d]
    BY <2>2, BudgetAt DEF Within
  <2>4. m + n <= reserved[a][d] + consumed[a][d]
    BY <1>7, AdmittedIsCovered
  <2>5. /\ limits[a][d] \in Nat /\ reserved[a][d] \in Nat /\ consumed[a][d] \in Nat
        /\ request[j].reservation[d] \in Nat
    BY <1>3, AccountTypes DEF BudgetHeldAccounts, SchedulerInv, TypeOK, Types, BudgetTypes, Budgets
  <2>6. l \notin ChargedTo(a)
    BY <1>3 DEF ChargedTo
  <2>7. Sums(ChargedTo(a) \cup {l}, Admitted', d, m + Admitted'[l][d])
    BY <1>5, <1>8, <2>5, <2>6, SumAdd
  <2>8. limits[a][d] = 0 \/ (m + Admitted'[l][d]) + n <= limits[a][d]
    BY <1>5, <2>3, <2>4, <2>5
  <2>9. m + Admitted'[l][d] \in Nat
    BY <1>5, <2>5
  <2> QED BY <1>6, <1>7, <1>9, <2>7, <2>8, <2>9
<1>10. CASE a \notin ChargedAccounts(l)'
  BY <1>6, <1>7, <1>8, <1>10
<1> QED BY <1>9, <1>10

\* What leases and grants were admitted to never exceeds a limit that was
\* configured before the first of them, in whatever order claims, expiries,
\* refunds, grants and late results come.  (A limit that is configured later can
\* be below what was admitted by then.)
THEOREM LimitsAreKept ==
    ASSUME Configurations = {}, NEW configured \in [Accounts -> Budgets]
    PROVE  InitWith(configured) /\ [][Next]_vars => []AdmittedWithinLimit
<1>1. InitWith(configured) => SchedulerInv /\ AccountsInv /\ AdmittedSums
  <2> SUFFICES ASSUME InitWith(configured) PROVE SchedulerInv /\ AccountsInv /\ AdmittedSums
    OBVIOUS
  <2>1. SchedulerInv /\ AccountsInv
    BY ConfiguredInit, AccountsInit
  <2>2. \A a : ChargedTo(a) = {} /\ GrantedBy(a) = {}
    BY DEF InitWith, ChargedTo, GrantedBy
  <2>3. \A a \in BudgetHeldAccounts, d \in Dims : limits[a][d] \in Nat
    BY <2>1 DEF BudgetHeldAccounts, SchedulerInv, TypeOK, Types, BudgetTypes, Budgets
  <2>4. \A a, d : Sums(ChargedTo(a), Admitted, d, 0) /\ Sums(GrantedBy(a), Cost, d, 0)
    BY <2>2, SumEmpty
  <2>5. \A a \in BudgetHeldAccounts, d \in Dims : 0 + 0 <= limits[a][d]
    BY <2>3
  <2> QED BY <2>1, <2>4, <2>5 DEF AdmittedSums
<1>2. SchedulerInv /\ AccountsInv /\ AdmittedSums /\ [Next]_vars => (SchedulerInv /\ AccountsInv /\ AdmittedSums)'
  <2> SUFFICES ASSUME SchedulerInv, AccountsInv, AdmittedSums, [Next]_vars
               PROVE  SchedulerInv' /\ AccountsInv' /\ AdmittedSums'
    OBVIOUS
  <2>1. SchedulerInv' /\ AccountsInv' /\ limits' = limits
    BY SchedulerStep, AccountsStep, LimitsStay
  <2> QED BY <2>1, AccountSteps, AdmittedQuiet, AdmittedGrant, AdmittedClaim, AdmittedEnds, AdmittedReplaces
<1>3. AdmittedSums => AdmittedWithinLimit
  <2> SUFFICES ASSUME AdmittedSums, NEW a \in BudgetHeldAccounts, NEW d \in Dims
               PROVE  \/ limits[a][d] = 0
                      \/ Plus(SumOver(ChargedTo(a), Admitted), SumOver(GrantedBy(a), Cost))[d] <= limits[a][d]
    BY DEF AdmittedWithinLimit, Within
  <2> QED BY BudgetAt DEF AdmittedSums, Sums, SumOver
<1> QED BY <1>1, <1>2, <1>3, PTL
=============================================================================
