-------------------------- MODULE MCCampaignBudgets --------------------------
(***************************************************************************)
(* Budgets, cohorts and attempts of one scheduler object and two jobs.  A  *)
(* behaviour is of one of three setups, which differ in what is enqueued,  *)
(* registered and answered; the constants of this module cover all three.  *)
(***************************************************************************)
EXTENDS CampaignAccounting

Budget(jobs, wall, evidence) ==
    [d \in Dims |-> CASE d = "jobs" -> jobs [] d = "wall_seconds" -> wall [] OTHER -> evidence]

Job(id, branch, cohort, reservation, max, retry) ==
    [job_id |-> id, idempotency_key |-> id, campaign_id |-> "c", branch_id |-> branch, lane |-> "lane",
     cohort_id |-> cohort, resources |-> 1, required_capabilities |-> {}, evidence_grants |-> {},
     reservation |-> reservation, max_attempts |-> max, retry_expired_lease |-> retry]

Worker(id, locality, durable, concurrency) ==
    [worker_id |-> id, runtime |-> "python", resources |-> 2, capabilities |-> {"gpu"},
     durable_result_replay |-> durable, locality |-> locality, concurrency |-> concurrency]

Result(outcome, used) == [outcome |-> outcome, retryable |-> TRUE, consumed |-> used]

-----------------------------------------------------------------------------
(* attempts: a job that is retried and one that is not, a remote worker    *)
(* with durable replay, leases longer than was reserved, and limits that   *)
(* are configured at any time.                                             *)

AttemptRequests ==
    {Job("j1", "b1", None, Budget(1, 2, 0), 2, TRUE), Job("j2", "b1", None, Budget(1, 1, 0), 1, FALSE)}
AttemptDescriptors == {Worker("w1", "remote", TRUE, 2)}
AttemptResults ==
    {Result("candidate_success", Budget(1, 1, 0)), Result("infrastructure_failure", Budget(0, 3, 0))}
AttemptConfigurations ==
    {[a \in {CampaignAccount("c"), BranchAccount("c", "b1")} |-> Budget(3, 4, 0)]}

Attempts == INSTANCE CampaignAccounting
            WITH Requests <- AttemptRequests, Descriptors <- AttemptDescriptors, Results <- AttemptResults,
                 Configurations <- AttemptConfigurations, Grants <- {}, LeaseWalls <- {3}

(* budget: two branches compete for a campaign with evidence grants; the   *)
(* limits are configured before the first worker and the first job, as     *)
(* CampaignRuntime shows of build_campaign_scheduler_runtime.              *)

GrantTo(id, cost) == [grant_id |-> id, campaign_id |-> "c", to_branch_id |-> "b2", token_cost |-> cost]
BudgetGrants == {GrantTo("g1", 1), GrantTo("g2", 2)}
BudgetRequests ==
    {Job("j1", "b1", None, Budget(1, 0, 1), 2, TRUE), Job("j2", "b2", None, Budget(1, 0, 2), 1, TRUE),
     [Job("j2", "b2", None, Budget(1, 0, 1), 1, TRUE) EXCEPT !.evidence_grants = {GrantTo("g1", 1)}]}
BudgetDescriptors == {Worker("w1", "local", FALSE, 2)}
BudgetResults ==
    {Result("candidate_success", Budget(1, 0, 0)), Result("infrastructure_failure", Budget(0, 0, 3))}
BudgetLimits ==
    [a \in Accounts |-> CASE a = BranchAccount("c", "b1") -> Budget(2, 0, 1)
                          [] a \in {CampaignAccount("c"), BranchAccount("c", "b2")} -> Budget(3, 0, 3)
                          [] OTHER -> Zero]

Limited == INSTANCE CampaignAccounting
           WITH Requests <- BudgetRequests, Descriptors <- BudgetDescriptors, Results <- BudgetResults,
                Configurations <- {}, Grants <- BudgetGrants, LeaseWalls <- {0}

(* cohort: two workers, one of which is registered again with another      *)
(* environment, and a cohort of two jobs, one of two lanes; one lease at a *)
(* time.                                                                   *)

CohortRequests ==
    {Job("j1", "b1", "k", Budget(1, 0, 0), 1, FALSE), Job("j2", "b1", "k", Budget(1, 0, 0), 1, FALSE),
     [Job("j2", "b1", "k", Budget(1, 0, 0), 1, FALSE) EXCEPT !.lane = "other"]}
CohortDescriptors == {Worker("w1", "local", FALSE, 1), Worker("w2", "local", FALSE, 2),
                      Worker("w2", "remote", FALSE, 2)}
CohortResults == {Result("candidate_failure", Budget(1, 0, 0))}

Cohort == INSTANCE CampaignAccounting
          WITH Requests <- CohortRequests, Descriptors <- CohortDescriptors, Results <- CohortResults,
               Configurations <- {}, Grants <- {}, LeaseWalls <- {0}, MaxConcurrency <- 1

-----------------------------------------------------------------------------
AllRequests == AttemptRequests \cup BudgetRequests \cup CohortRequests
AllDescriptors == AttemptDescriptors \cup BudgetDescriptors \cup CohortDescriptors
AllResults == AttemptResults \cup BudgetResults \cup CohortResults

VARIABLE setup  \* which of the three; it never changes

MCInit ==
    \/ setup = "cohort" /\ Cohort!Init
    \/ setup = "budget" /\ Limited!InitWith(BudgetLimits)
    \/ setup = "attempts" /\ Attempts!Init

MCNext ==
    /\ \/ setup = "cohort" /\ Cohort!Next
       \/ setup = "budget" /\ Limited!Next
       \/ setup = "attempts" /\ Attempts!Next
    /\ setup' = setup

MCSpec == MCInit /\ [][MCNext]_<<vars, setup>>

(* No more is admitted than the limits that were configured first, and     *)
(* claim() counts the leases of all workers and all cohorts.               *)
(* (AdmittedWithinLimit of CampaignAccounting, GlobalConcurrency of        *)
(* CampaignScheduler.)                                                     *)
LimitsHold == /\ setup = "budget" => AdmittedWithinLimit
              /\ setup = "cohort" => Cohort!GlobalConcurrency

=============================================================================
