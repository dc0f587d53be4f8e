------------------------------ MODULE MCMission -------------------------------
(* Missions, and the campaigns over them.  A behaviour is of one of the    *)
(* two: in the scope of the other there is nobody.  The queue is empty.    *)
EXTENDS StoredWork

(* One process at a time on a code mission, with a restore.                *)
Serial == [Runners |-> {"r1"}, Operators |-> {"o"}, Subgoals |-> {1, 2}, MaxSteps |-> 3, MaxIterations |-> 2,
           Outcomes |-> {"completed", "failed", "blocked"}, Verdicts |-> {}, IsCode |-> TRUE, Serial |-> TRUE,
           MaxAsks |-> 2, MaxCrashes |-> 1, MaxRestores |-> 1]

(* Two runs at once, and a restore.                                        *)
Shared == [Serial EXCEPT !.Runners = {"r1", "r2"}, !.Operators = {}, !.Subgoals = {1}, !.MaxSteps = 2, !.MaxIterations = 1,
           !.Outcomes = {"completed", "failed"}, !.Verdicts = {"passed", "failed"}, !.IsCode = FALSE, !.Serial = FALSE,
           !.MaxCrashes = 0]

(* Two runs at once, one of which may die, and a restore.                  *)
Dying == [Shared EXCEPT !.Outcomes = {"completed"}, !.MaxCrashes = 1]

(* One run and an operator at once.                                        *)
Asked == [Serial EXCEPT !.Outcomes = {"completed", "failed"}, !.Verdicts = {"passed", "failed", "threw"}, !.MaxSteps = 2,
          !.IsCode = FALSE, !.Serial = FALSE, !.MaxAsks = 1, !.MaxRestores = 0]

NoMission == [Serial EXCEPT !.Runners = {}, !.Operators = {}]

MissionScopes == {Serial, Shared, Dying, Asked, NoMission}

-----------------------------------------------------------------------------
(* Three missions are added, with any dependencies.                        *)
Adding == [Missions |-> {1, 2, 3}, Callers |-> {"a", "b"}, MayRemove |-> FALSE, MaxMoves |-> 0, MaxCalls |-> 3]

(* Two missions move while callers change the campaign.                    *)
Moving == [Adding EXCEPT !.Missions = {1, 2}, !.MayRemove = TRUE, !.MaxMoves = 1, !.MaxCalls = 2]

NoCampaign == [Adding EXCEPT !.Callers = {}, !.MaxMoves = 0]

MCCampaignScopes == {Adding, Moving, NoCampaign}

NoTasks == <<>>

MCInit == Init /\ Campaign!Init /\ Queue!Init /\ (scope = NoMission <=> cscope # NoCampaign)

MCNext == /\ \/ Next /\ UNCHANGED campaignVars
             \/ Campaign!Next /\ UNCHANGED <<vars, scope>>
          /\ UNCHANGED queueVars

MCSpec == MCInit /\ [][MCNext]_<<vars, scope, campaignVars, queueVars>> /\ Fairness /\ Campaign!Fairness
=============================================================================
