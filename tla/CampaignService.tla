--------------------------- MODULE CampaignService ---------------------------
(***************************************************************************)
(* What a process of the campaign scheduler runs: a dispatch loop          *)
(* (CampaignDispatch), the builder that made it (CampaignRuntime), and the *)
(* event file of its scheduler object (CampaignEventStore).  The loop      *)
(* knows of the file only whether its object can still append (usable),    *)
(* the builder that it is a log which only an object that has applied all  *)
(* of it may extend.                                                       *)
(***************************************************************************)
EXTENDS CampaignDispatch

CONSTANTS
    Instances, Events, MaxEvents, None,  \* of the event file
    RuntimeScopes                        \* of the builders

ASSUME NoneAssumption == None \notin Events /\ None \notin Instances
ASSUME MaxEventsAssumption == MaxEvents \in Nat

VARIABLES
    lines, tail, tail_event, flushed, holder, pending, stage, objects, memory, acked,  \* of the event file
    log, view, plan, builder_pc, next_job, faults, campaign                            \* of the builders

Store == INSTANCE CampaignEventStore WITH alive <- objects

Runtime == INSTANCE CampaignRuntime WITH Scopes <- RuntimeScopes, pc <- builder_pc, scope <- campaign

ASSUME RuntimeAssumption == Runtime!ScopesAssumption

storeVars == <<lines, tail, tail_event, flushed, holder, pending, stage, objects, memory, acked>>
runtimeVars == <<log, view, plan, builder_pc, next_job, faults, campaign>>

\* Scheduler objects and the file agree, and no acknowledged event is lost (CampaignEventStore).
StoreInv == Store!StoreInv

\* The file with its lock, torn tails and fences is one shared log (CampaignLog).
ImplementsLog == Store!ImplementsLog

\* The log, its plan and its jobs belong together (CampaignRuntime).
RuntimeInv == Runtime!RuntimeInv

\* Callers that try again get their runtime (CampaignRuntime).
RetriesSucceed == Runtime!RetriesSucceed

=============================================================================
