--------------------------- MODULE CampaignRuntime ---------------------------
(***************************************************************************)
(* build_campaign_scheduler_runtime (campaign_scheduler_runtime.py): a     *)
(* process builds or resumes the scheduler of one campaign.  It configures *)
(* the budgets once, checks the jobs of a log that was written before      *)
(* plans were bound, binds the plan, registers its worker and enqueues its *)
(* jobs.  Each step reads the shared log or appends to it; builders with   *)
(* the same or with other plans race, die between two steps, and start     *)
(* again.                                                                  *)
(***************************************************************************)
EXTENDS Naturals, Sequences, FiniteSets

CONSTANTS Scopes,  \* what a behaviour is about: the fields below
          None

\* The idempotency keys of a plan are unique (CampaignSchedulerRuntimePlan), and
\* a log that knows of no plans was configured once at most.
PlanAssumption ==
    \A s \in Scopes : \A p \in s.Plans :
        /\ p # None
        /\ p.jobs \in Seq({p.jobs[i] : i \in DOMAIN p.jobs})
        /\ \A i, k \in DOMAIN p.jobs : p.jobs[i].key = p.jobs[k].key => i = k

LegacyLogAssumption ==
    \A s \in Scopes : \A events \in s.LegacyLogs :
        /\ events \in Seq({events[i] : i \in DOMAIN events})
        /\ \A i \in DOMAIN events :
             events[i].type \in {"campaign_configured", "worker_registered", "job_enqueued", "other"}
        /\ \A i, k \in DOMAIN events :
             events[i].type = "campaign_configured" /\ events[k].type = "campaign_configured" => i = k

ScopesAssumption ==
    /\ PlanAssumption /\ LegacyLogAssumption
    /\ \A s \in Scopes : s.MaxFaults \in Nat /\ s.MaxOther \in Nat

VARIABLES
    log,        \* the events in the store
    view,       \* how many of them each builder's scheduler has applied
    plan, pc, next_job, faults,
    scope       \* which of Scopes; it never changes

Builders == scope.Builders
Plans == scope.Plans            \* CampaignSchedulerRuntimePlans: what they fingerprint, budget and jobs apart
LegacyLogs == scope.LegacyLogs  \* logs that code without plan binding may have left
MaxFaults == scope.MaxFaults    \* bound: crashes and raising appends
MaxOther == scope.MaxOther      \* bound: events that running schedulers append

vars == <<log, view, plan, pc, next_job, faults>>

Event(type, value) == [type |-> type, value |-> value]

Init ==
    /\ scope \in Scopes /\ log \in LegacyLogs
    /\ view = [b \in Builders |-> 0] /\ plan = [b \in Builders |-> None]
    /\ pc = [b \in Builders |-> "idle"] /\ next_job = [b \in Builders |-> 1]
    /\ faults = 0

-----------------------------------------------------------------------------
(* The log as store.read() returns it and as an object has applied it. *)

Values(events, type) == {events[i].value : i \in {k \in DOMAIN events : events[k].type = type}}
JobEvents(events) == {i \in DOMAIN events : events[i].type = "job_enqueued"}

\* The n-th of a log's jobs is the plan's n-th, as far as the log goes.
Rank(events, i) == Cardinality({k \in JobEvents(events) : k <= i})
Follows(events, p) ==
    \A i \in JobEvents(events) :
        Rank(events, i) \in DOMAIN p.jobs /\ p.jobs[Rank(events, i)] = events[i].value

Applied(b) == SubSeq(log, 1, view[b])

Goto(b, to) == pc' = [pc EXCEPT ![b] = to]

\* _record: refused if the object is stale; may raise after its line was written.
Append1(b, e, to) ==
    IF view[b] # Len(log)
      THEN Goto(b, "failed") /\ UNCHANGED <<log, view, faults>>
      ELSE /\ log' = Append(log, e)
           /\ \/ Goto(b, to) /\ view' = [view EXCEPT ![b] = @ + 1] /\ UNCHANGED faults
              \/ Goto(b, "failed") /\ faults < MaxFaults /\ faults' = faults + 1 /\ UNCHANGED view

Skip(b, to) == Goto(b, to) /\ UNCHANGED <<log, view, faults>>

-----------------------------------------------------------------------------
(* The builder's steps. *)

\* CampaignScheduler(store): replays the log.
Start(b, p) ==
    /\ pc[b] \in {"idle", "failed"}
    /\ plan' = [plan EXCEPT ![b] = p] /\ view' = [view EXCEPT ![b] = Len(log)]
    /\ next_job' = [next_job EXCEPT ![b] = 1]
    /\ Goto(b, "configure") /\ UNCHANGED <<log, faults>>

\* _configure_once: compares with the latest configuration in the store.
Configure(b) ==
    /\ pc[b] = "configure"
    /\ LET prior == {i \in DOMAIN log : log[i].type = "campaign_configured"}
       IN  \/ prior = {} /\ Append1(b, Event("campaign_configured", plan[b].budget), "validate")
           \/ \E latest \in prior :
                /\ \A i \in prior : i <= latest
                /\ Skip(b, IF log[latest].value = plan[b].budget THEN "validate" ELSE "failed")
    /\ UNCHANGED <<plan, next_job>>

\* Mutant: a half-written plan is refused.
ValidateWhole(b) ==
    /\ pc[b] = "validate"
    /\ Skip(b, IF \/ Values(log, "runtime_plan_bound") # {} \/ JobEvents(log) = {}
                  \/ Follows(log, plan[b]) /\ Cardinality(JobEvents(log)) = Len(plan[b].jobs)
                 THEN "bind" ELSE "failed")
    /\ UNCHANGED <<plan, next_job>>

\* _validate_legacy_job_state: a log that binds no plan holds a prefix of this plan's jobs.
Validate(b) ==
    /\ pc[b] = "validate"
    /\ Skip(b, IF Values(log, "runtime_plan_bound") # {} \/ Follows(log, plan[b]) THEN "bind" ELSE "failed")
    /\ UNCHANGED <<plan, next_job>>

\* bind_runtime_plan: by what the object itself has applied.
Bind(b) ==
    /\ pc[b] = "bind"
    /\ LET existing == Values(Applied(b), "runtime_plan_bound")
       IN  IF existing = {} THEN Append1(b, Event("runtime_plan_bound", plan[b]), "workers")
           ELSE Skip(b, IF plan[b] \in existing THEN "workers" ELSE "failed")
    /\ UNCHANGED <<plan, next_job>>

\* register_worker: appended unless the object knows the descriptor already.
Register(b) ==
    /\ pc[b] = "workers"
    /\ IF "worker" \in Values(Applied(b), "worker_registered") THEN Skip(b, "jobs")
       ELSE Append1(b, Event("worker_registered", "worker"), "jobs")
    /\ UNCHANGED <<plan, next_job>>

\* Mutant: a stale object skips its jobs instead of raising.
EnqueueUnlessStale(b) ==
    /\ pc[b] = "jobs" /\ next_job[b] <= Len(plan[b].jobs)
    /\ LET job == plan[b].jobs[next_job[b]]
       IN  IF view[b] # Len(log) \/ job \in Values(Applied(b), "job_enqueued") THEN Skip(b, "jobs")
           ELSE Append1(b, Event("job_enqueued", job), "jobs")
    /\ next_job' = [next_job EXCEPT ![b] = @ + 1]
    /\ UNCHANGED plan

\* enqueue: a job under a key the object knows is the same job or a conflict.
EnqueueNext(b) ==
    /\ pc[b] = "jobs" /\ next_job[b] <= Len(plan[b].jobs)
    /\ LET job == plan[b].jobs[next_job[b]]
           same == {j \in Values(Applied(b), "job_enqueued") : j.key = job.key}
       IN  IF same = {} THEN Append1(b, Event("job_enqueued", job), "jobs")
           ELSE Skip(b, IF job \in same THEN "jobs" ELSE "failed")
    /\ next_job' = [next_job EXCEPT ![b] = @ + 1]
    /\ UNCHANGED plan

Return(b) ==
    /\ pc[b] = "jobs" /\ next_job[b] > Len(plan[b].jobs)
    /\ Goto(b, "built") /\ UNCHANGED <<log, view, plan, next_job, faults>>

\* The scheduler that was built goes about its work, on the same log.
Work(b) ==
    /\ pc[b] = "built" /\ view[b] = Len(log)
    /\ Cardinality({i \in DOMAIN log : log[i].type = "other"}) < MaxOther
    /\ log' = Append(log, Event("other", None)) /\ view' = [view EXCEPT ![b] = @ + 1]
    /\ UNCHANGED <<plan, pc, next_job, faults>>

Crash(b) ==
    /\ pc[b] # "idle" /\ faults < MaxFaults
    /\ Goto(b, "idle") /\ faults' = faults + 1
    /\ plan' = [plan EXCEPT ![b] = None] /\ view' = [view EXCEPT ![b] = 0]
    /\ next_job' = [next_job EXCEPT ![b] = 1] /\ UNCHANGED log

-----------------------------------------------------------------------------

Build(b) == \/ Configure(b) \/ Validate(b) \/ Bind(b) \/ Register(b) \/ EnqueueNext(b) \/ Return(b)

\* All builders are done: only a crash could start them again.
Settled == (\A b \in Builders : pc[b] = "built") /\ UNCHANGED vars

Next == /\ \/ \E b \in Builders : \/ Build(b) \/ Work(b) \/ Crash(b)
                                  \/ \E p \in Plans : Start(b, p)
           \/ Settled
        /\ scope' = scope

\* A caller runs its builder to the end and starts it again when it died or was refused.
Retry(b) == b \in Builders /\ (Build(b) \/ \E p \in Plans : Start(b, p))
Fairness == \A b \in UNION {s.Builders : s \in Scopes} : WF_vars(Retry(b))

Spec == Init /\ [][Next]_<<vars, scope>> /\ Fairness

-----------------------------------------------------------------------------
(* Properties. *)

TypeOK ==
    /\ view \in [Builders -> 0 .. Len(log)] /\ plan \in [Builders -> Plans \cup {None}]
    /\ pc \in [Builders -> {"idle", "configure", "validate", "bind", "workers", "jobs", "built", "failed"}]
    /\ next_job \in [Builders -> Nat \ {0}] /\ faults \in 0 .. MaxFaults
    /\ \A i \in DOMAIN log : log[i].type \in {"campaign_configured", "runtime_plan_bound",
                                             "worker_registered", "job_enqueued", "other"}

Bound == Values(log, "runtime_plan_bound")

\* A log is bound to one plan and to one budget, whoever raced, died or was refused between reading
\* the store and appending to it ("one immutable runtime-plan identity").
OnePlanPerLog ==
    /\ Cardinality({i \in DOMAIN log : log[i].type = "runtime_plan_bound"}) <= 1
    /\ Cardinality({i \in DOMAIN log : log[i].type = "campaign_configured"}) <= 1

\* Once a plan is bound the jobs in the log are a prefix of that plan's jobs, those that were there
\* before it was bound included: no job of another plan runs under it and none is enqueued twice.
JobsFollowPlan == \A p \in Bound : Follows(log, p)

\* A runtime that build_campaign_scheduler_runtime returned runs the plan it was given: the log is
\* bound to it, has its budget and holds all its jobs, although it may be stale by then.
BuiltIsPlanned ==
    \A b \in Builders : pc[b] = "built" =>
        /\ Bound = {plan[b]}
        /\ Values(log, "campaign_configured") = {plan[b].budget}
        /\ Follows(log, plan[b]) /\ Cardinality(JobEvents(log)) = Len(plan[b].jobs)

\* Callers of one plan that start again after every failure all get their runtime: they cannot
\* keep refusing one another for ever, and no fault leaves a log that its own plan cannot resume.
RetriesSucceed == <>[](Cardinality(Plans) = 1 => \A b \in Builders : pc[b] = "built")

\* What holds of a log at every moment, whoever builds on it: one plan, its jobs in order, and all
\* of them where a runtime was returned.
RuntimeInv == TypeOK /\ OnePlanPerLog /\ JobsFollowPlan /\ BuiltIsPlanned

=============================================================================
