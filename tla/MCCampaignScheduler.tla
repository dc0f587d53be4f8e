------------------------- MODULE MCCampaignScheduler -------------------------
(***************************************************************************)
(* Two scheduler objects on one log, either of which may die while the     *)
(* worker runs or is asked to cancel, and one job of up to two attempts,   *)
(* without limits or with a budget of one job.                             *)
(***************************************************************************)
EXTENDS CampaignAccounting

\* A budget of `jobs` jobs and n of the other dimension of the instance.
Budget(jobs, n) == [d \in Dims |-> IF d = "jobs" THEN jobs ELSE n]

Job(id, branch, cohort, n, max, retry) ==
    [job_id |-> id, idempotency_key |-> id, campaign_id |-> "c", branch_id |-> branch, lane |-> "lane",
     cohort_id |-> cohort, resources |-> 1, required_capabilities |-> {}, evidence_grants |-> {},
     reservation |-> Budget(1, n), max_attempts |-> max, retry_expired_lease |-> retry]

Worker(id, locality, durable, concurrency) ==
    [worker_id |-> id, runtime |-> "python", resources |-> 2, capabilities |-> {"gpu"},
     durable_result_replay |-> durable, locality |-> locality, concurrency |-> concurrency]

Success(n) == [outcome |-> "candidate_success", retryable |-> TRUE, consumed |-> Budget(1, n)]
Failure(n, again) ==
    [outcome |-> "infrastructure_failure", retryable |-> again, consumed |-> Budget(0, n)]

SharedRequests == {Job("j1", "b", None, 1, 2, TRUE)}
SharedDescriptors == {Worker("w1", "remote", TRUE, 1), Worker("w1", "local", FALSE, 1)}
SharedResults == {Success(1), Failure(0, TRUE)}
SharedLimits ==
    {[a \in Accounts |-> IF a = CampaignAccount("c") THEN Budget(n, 0) ELSE Zero] : n \in 0 .. 1}

SharedSpec == (\E configured \in SharedLimits : InitWith(configured)) /\ [][Next]_vars /\ Fairness

=============================================================================
