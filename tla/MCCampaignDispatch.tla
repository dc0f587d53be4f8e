------------------------- MODULE MCCampaignDispatch -------------------------
(***************************************************************************)
(* Small instances of the dispatch loops; nothing is written to the file,  *)
(* and nobody builds.                                                      *)
(***************************************************************************)
EXTENDS CampaignService

AllRunnable == [j \in Jobs |-> "runnable"]
OneAttempt == [j \in Jobs |-> 1]

\* A drain of two jobs in groups of their own; nothing is assumed of the fleet.
Drain == [Kind |-> AllRunnable, GroupKey |-> [j \in Jobs |-> j], Cancelable |-> {}, Inherited |-> {},
          Serving |-> FALSE, MaxConcurrency |-> 2, MaxWaves |-> 2, MaxAttempts |-> OneAttempt, Fleet |-> FALSE,
          MaxInterrupts |-> 1]

\* The service with a batch of two jobs, one of them inherited and canceled by a user.
Serve == [Drain EXCEPT !.GroupKey = [j \in Jobs |-> "batch"], !.Cancelable = {"j1"}, !.Inherited = {"j1"},
                       !.Serving = TRUE, !.MaxInterrupts = 2]

\* A drain on a fleet that works, with an inherited job that is retried and one without budget.
Fleet == [Drain EXCEPT !.Kind = [j \in Jobs |-> IF j = "j2" THEN "exhausted" ELSE "runnable"],
                       !.Cancelable = {"j1"}, !.Inherited = {"j1"}, !.MaxWaves = 3,
                       !.MaxAttempts = [j \in Jobs |-> IF j = "j1" THEN 2 ELSE 1], !.Fleet = TRUE]

DispatchScopes == {Drain, Serve, Fleet}

NoBuilders == {[Builders |-> {}, Plans |-> {}, LegacyLogs |-> {<<>>}, MaxFaults |-> 0, MaxOther |-> 0]}

MCInit == Init /\ Store!Init /\ Runtime!Init
MCNext == Next /\ UNCHANGED <<storeVars, runtimeVars>>
MCSpec == MCInit /\ [][MCNext]_<<vars, scope, storeVars, runtimeVars>> /\ Fairness

=============================================================================
