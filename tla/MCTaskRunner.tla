----------------------------- MODULE MCTaskRunner -----------------------------
(* An instance of TaskRunner: p runs Python and n TypeScript; n1 carries   *)
(* native metadata and comes first.  p is a service; n drains the queue.   *)
(* There is no mission and no campaign.                                    *)
EXTENDS StoredWork

CONSTANTS t1, n1, p, n

MCMaxEmpty == [w \in Workers |-> IF w = n THEN 1 ELSE 0]
MCPriority == [t \in Tasks |-> IF t = n1 THEN 1 ELSE 0]

NoMission == [Runners |-> {}, Operators |-> {}, Subgoals |-> {}, MaxSteps |-> 1, MaxIterations |-> 1,
              Outcomes |-> {}, Verdicts |-> {}, IsCode |-> FALSE, Serial |-> TRUE,
              MaxAsks |-> 0, MaxCrashes |-> 0, MaxRestores |-> 0]
NoCampaign == [Missions |-> {}, Callers |-> {}, MayRemove |-> FALSE, MaxMoves |-> 0, MaxCalls |-> 0]

MCScopes == {NoMission}
MCCampaignScopes == {NoCampaign}

MCInit == Init /\ Campaign!Init /\ Queue!Init
MCNext == Queue!Next /\ UNCHANGED <<vars, scope, campaignVars>>

MCSpec == /\ MCInit /\ [][MCNext]_<<vars, scope, campaignVars, queueVars>>
          /\ Queue!Restarted /\ Queue!Running
=============================================================================
