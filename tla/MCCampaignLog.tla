-------------------------- MODULE MCCampaignLog ----------------------------
(***************************************************************************)
(* The file of events, and the builders that write a campaign's plan into  *)
(* such a log.  A behaviour is of one of the two: either there is nobody   *)
(* to build, or the file stays empty.  No dispatch loop runs.              *)
(***************************************************************************)
EXTENDS CampaignService

Job(key, content) == [key |-> key, content |-> content]
Plan(id, budget, jobs) == [identity |-> id, budget |-> budget, jobs |-> jobs]

J1 == Job("k1", "a")
J2 == Job("k2", "a")
PlanA == Plan("A", 1, <<J1, J2>>)
PlanSameJobs == Plan("B", 1, <<J1, J2>>)
PlanOtherJobs == Plan("A", 1, <<Job("k1", "b")>>)
PlanOtherBudget == Plan("A", 2, <<J1, J2>>)

Logged(type, value) == [type |-> type, value |-> value]
Configured == Logged("campaign_configured", 1)
OldLogs == {<<>>, <<Configured>>, <<Configured, Logged("worker_registered", "worker"), Logged("job_enqueued", J1)>>}

\* Callers race with different plans, or retry the same one; or there are none.
ManyPlans == [Builders |-> {"b1", "b2"}, Plans |-> {PlanA, PlanSameJobs, PlanOtherJobs, PlanOtherBudget},
              LegacyLogs |-> OldLogs, MaxFaults |-> 2, MaxOther |-> 1]
OnePlan == [ManyPlans EXCEPT !.Plans = {PlanA}]
NoRuntime == [OnePlan EXCEPT !.Builders = {}, !.LegacyLogs = {<<>>}]

Campaigns == {ManyPlans, OnePlan, NoRuntime}

\* A loop without jobs.
NoLoop == {[MaxAttempts |-> <<>>, Inherited |-> {}]}

MCInit == Init /\ Store!Init /\ Runtime!Init

MCNext == /\ \/ campaign = NoRuntime /\ Store!Next /\ UNCHANGED runtimeVars
             \/ Runtime!Next /\ UNCHANGED storeVars
          /\ UNCHANGED <<vars, scope>>

MCSpec == MCInit /\ [][MCNext]_<<vars, scope, storeVars, runtimeVars>> /\ Runtime!Fairness

=============================================================================
