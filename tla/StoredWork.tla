------------------------------ MODULE StoredWork ------------------------------
(***************************************************************************)
(* The work that is kept in the project's database: missions (Mission),    *)
(* the campaigns over them (MissionCampaign) and the task queue with its   *)
(* runners (TaskRunner).  Each has tables of its own, and no process       *)
(* writes those of another.                                                *)
(***************************************************************************)
EXTENDS Mission

CONSTANTS
    CampaignScopes,                                 \* of campaigns
    Tasks, Native, Priority, MaxAttempts,           \* of the queue
    Workers, Python, Concurrency, MaxEmpty,         \* of its runners
    MaxCrashes, MaxFaults, MaxSlow

ASSUME QueueAssumption ==
    /\ Native \subseteq Tasks
    /\ Priority \in [Tasks -> Int]
    /\ MaxAttempts \in Nat \ {0}
    /\ None \notin Nat

ASSUME RunnerAssumption ==
    /\ Python \subseteq Workers
    /\ Concurrency \in Nat \ {0}
    /\ MaxEmpty \in [Workers -> Nat]
    /\ MaxCrashes \in Nat /\ MaxFaults \in Nat /\ MaxSlow \in Nat

VARIABLES
    mission, cstatus, depends, cpc, cwant, seen, moves, calls, cscope,                \* of campaigns
    rows, qpc, threads, claimed, succeeded, empties, shutdown, deaths, faults, slow   \* of the queue

Campaign == INSTANCE MissionCampaign
            WITH Scopes <- CampaignScopes, status <- cstatus, pc <- cpc, want <- cwant, scope <- cscope

Queue == INSTANCE TaskRunner WITH pc <- qpc, crashes <- deaths

campaignVars == <<mission, cstatus, depends, cpc, cwant, seen, moves, calls, cscope>>
queueVars == <<rows, qpc, threads, claimed, succeeded, empties, shutdown, deaths, faults, slow>>

\* The campaign can be worked off (MissionCampaign).
CampaignInv == Campaign!CampaignInv

\* The campaign follows its missions (MissionCampaign).
CampaignFollows == Campaign!CampaignFollows

\* Attempts, claims and rows of the queue agree (TaskRunner).
QueueInv == Queue!QueueInv

\* Until a task is slow, an ended task is never touched again (TaskRunner).
EndedIsFinal == Queue!EndedIsFinal

\* Every task ends (TaskRunner).
TasksEnd == Queue!TasksEnd

=============================================================================
