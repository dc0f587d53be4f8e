---------------------------- MODULE MissionCampaign ----------------------------
(***************************************************************************)
(* A campaign over missions (the TypeScript CampaignManager): its row, the *)
(* missions in it with what they depend on, and the reconciliation of its  *)
(* status with theirs, which every read of the campaign performs.  CLI     *)
(* calls, API requests and tools are processes on one database, and every  *)
(* statement commits by itself.  Missions move as their own table allows.  *)
(***************************************************************************)
EXTENDS Integers, FiniteSets, MissionLifecycle

CONSTANTS Scopes,  \* what a behaviour is about: the fields below
          None

VARIABLES mission,    \* mission -> its status
          status,     \* the campaign's status
          depends,    \* mission -> missions it depends on, None when it is not in the campaign
          pc, want,   \* caller -> where it is; the status, or the mission and its dependencies, it is writing
          seen,       \* caller -> what its reconciliation has read
          moves, calls,
          scope       \* which of Scopes; it never changes

Missions == scope.Missions    \* missions of the store, numbered in the order the campaign lists them
Callers == scope.Callers      \* processes that use the manager
MayRemove == scope.MayRemove  \* callers remove missions

vars == <<mission, status, depends, pc, want, seen, moves, calls>>
campaign == <<status, depends>>

CampaignStatuses == {"active", "paused", "completed", "failed", "canceled"}

Entries == {m \in Missions : depends[m] # None}

Init ==
    /\ scope \in Scopes
    /\ mission = [m \in Missions |-> "active"]
    /\ status = "active" /\ depends = [m \in Missions |-> None]
    /\ pc = [p \in Callers |-> "off"]
    /\ want = [p \in Callers |-> None]
    /\ seen = [p \in Callers |-> None]
    /\ moves = 0 /\ calls = 0

(* A mission is paused, resumed, run or canceled.                          *)
MoveMission(m, s) ==
    /\ moves < scope.MaxMoves /\ moves' = moves + 1
    /\ s # mission[m] /\ can_transition_mission_status(mission[m], s)
    /\ mission' = [mission EXCEPT ![m] = s]
    /\ UNCHANGED <<campaign, pc, want, seen, calls>>

-----------------------------------------------------------------------------
Goto(p, l) == pc' = [pc EXCEPT ![p] = l]

Exit(p) ==
    /\ Goto(p, "off")
    /\ want' = [want EXCEPT ![p] = None]
    /\ seen' = [seen EXCEPT ![p] = None]

Call(p) == pc[p] = "off" /\ calls < scope.MaxCalls /\ calls' = calls + 1

(* get, list, progress or budgetUsage.                                     *)
Get(p) ==
    /\ p \in Callers /\ pc[p] = "off"
    /\ Goto(p, "reading")
    /\ UNCHANGED <<mission, campaign, want, seen, moves, calls>>

(* Mutant: a mission may depend on itself.                                 *)
AdditionUnchecked(p, m, ds) ==
    /\ Call(p)
    /\ IF m \notin Entries /\ ds \subseteq Entries \cup {m}
       THEN Goto(p, "inserting") /\ want' = [want EXCEPT ![p] = <<m, ds>>]
       ELSE UNCHANGED <<pc, want>>
    /\ UNCHANGED <<mission, campaign, seen, moves>>

(* addMission: validated, inserted, reconciled.  A mission that is linked  *)
(* or a dependency that is not raises.                                     *)
validateCampaignMissionAddition(p, m, ds) ==
    /\ Call(p)
    /\ IF m \notin Entries /\ m \notin ds /\ ds \subseteq Entries
       THEN Goto(p, "inserting") /\ want' = [want EXCEPT ![p] = <<m, ds>>]
       ELSE UNCHANGED <<pc, want>>
    /\ UNCHANGED <<mission, campaign, seen, moves>>

(* The primary key refuses a second row.                                   *)
Insert(p) ==
    /\ pc[p] = "inserting"
    /\ IF want[p][1] \in Entries
       THEN Exit(p) /\ UNCHANGED depends
       ELSE /\ depends' = [depends EXCEPT ![want[p][1]] = want[p][2]]
            /\ Goto(p, "reading") /\ UNCHANGED <<want, seen>>
    /\ UNCHANGED <<mission, status, moves, calls>>

removeMission(p, m) ==
    /\ MayRemove /\ Call(p)
    /\ depends' = [depends EXCEPT ![m] = None]
    /\ Goto(p, "reading")
    /\ UNCHANGED <<mission, status, want, seen, moves>>

assertLifecycleTransitionAllowed(current, next) ==
    CASE next = "paused" -> current = "active"
      [] next = "active" -> current = "paused"
      [] next = "canceled" -> current \in {"active", "paused"}

(* pause, resume, cancel: the stored status is read and checked ...        *)
SetLifecycle(p, s) ==
    /\ Call(p)
    /\ IF assertLifecycleTransitionAllowed(status, s)
       THEN Goto(p, "setting") /\ want' = [want EXCEPT ![p] = <<s>>]
       ELSE UNCHANGED <<pc, want>>
    /\ UNCHANGED <<mission, campaign, seen, moves>>

(* ... and the new one written.                                            *)
SetStatus(p) ==
    /\ pc[p] = "setting"
    /\ status' = want[p][1]
    /\ Exit(p)
    /\ UNCHANGED <<mission, depends, moves, calls>>

-----------------------------------------------------------------------------
missionCountsAsFailure == {"failed", "verifier_failed", "budget_exhausted"}

(* What the missions' statuses say about the campaign's; read: mission ->  *)
(* its status, for the missions in the campaign.                           *)
deriveReconciledCampaignStatus(current, read) ==
    CASE current = "canceled" -> current
      [] current # "canceled" /\ DOMAIN read # {} /\ \A m \in DOMAIN read : read[m] = "completed" -> "completed"
      [] current # "canceled" /\ \E m \in DOMAIN read : read[m] \in missionCountsAsFailure -> "failed"
      [] OTHER -> IF current = "paused" THEN "paused" ELSE "active"

(* reconcileCampaignRecord: the campaign's row is read, then its entries,  *)
(* then mission after mission, and the status is written when it differs.  *)
ReadCampaign(p) ==
    /\ pc[p] = "reading"
    /\ seen' = [seen EXCEPT ![p] = [status |-> status, entries |-> {}, read |-> <<>>]]
    /\ Goto(p, "listing")
    /\ UNCHANGED <<mission, campaign, want, moves, calls>>

ListEntries(p) ==
    /\ pc[p] = "listing"
    /\ seen' = [seen EXCEPT ![p].entries = Entries]
    /\ Goto(p, "collecting")
    /\ UNCHANGED <<mission, campaign, want, moves, calls>>

ReadMission(p, m) ==
    LET unread == seen[p].entries \ DOMAIN seen[p].read IN
    /\ pc[p] = "collecting" /\ m \in unread /\ \A x \in unread : m <= x
    /\ seen' = [seen EXCEPT ![p].read = [x \in DOMAIN seen[p].read \cup {m} |-> IF x = m THEN mission[m] ELSE seen[p].read[x]]]
    /\ UNCHANGED <<mission, campaign, pc, want, moves, calls>>

(* Mutant: only active campaigns are reconciled.                           *)
ReconcileActive(p) ==
    /\ pc[p] = "collecting" /\ DOMAIN seen[p].read = seen[p].entries
    /\ LET next == deriveReconciledCampaignStatus(seen[p].status, seen[p].read)
       IN status' = IF next # seen[p].status /\ seen[p].status = "active" THEN next ELSE status
    /\ Exit(p)
    /\ UNCHANGED <<mission, depends, moves, calls>>

Reconcile(p) ==
    /\ pc[p] = "collecting" /\ DOMAIN seen[p].read = seen[p].entries
    /\ LET next == deriveReconciledCampaignStatus(seen[p].status, seen[p].read)
       IN status' = IF next # seen[p].status THEN next ELSE status
    /\ Exit(p)
    /\ UNCHANGED <<mission, depends, moves, calls>>

Step(p) ==
    /\ p \in Callers
    /\ \/ Insert(p) \/ SetStatus(p)
       \/ ReadCampaign(p) \/ ListEntries(p) \/ (\E m \in Missions : ReadMission(p, m)) \/ Reconcile(p)

Next ==
    /\ \/ \E m \in Missions, s \in MissionStatuses : MoveMission(m, s)
       \/ \E p \in Callers : \/ Get(p) \/ Step(p)
                             \/ \E m \in Missions : \/ removeMission(p, m)
                                                    \/ \E ds \in SUBSET Missions : validateCampaignMissionAddition(p, m, ds)
                             \/ \E s \in {"paused", "active", "canceled"} : SetLifecycle(p, s)
    /\ scope' = scope

AllCallers == UNION {s.Callers : s \in Scopes}

(* Somebody looks at the campaign again and again, and calls return.       *)
Fairness == \A p \in AllCallers : WF_vars(Get(p)) /\ WF_vars(Step(p))

Spec == Init /\ [][Next]_<<vars, scope>> /\ Fairness

-----------------------------------------------------------------------------
TypeOK ==
    /\ mission \in [Missions -> MissionStatuses]
    /\ status \in CampaignStatuses
    /\ depends \in [Missions -> (SUBSET Missions) \cup {None}]

Derived == deriveReconciledCampaignStatus(status, [m \in Entries |-> mission[m]])

(* The status catches up with the missions: whatever two callers wrote     *)
(* over each other, once nothing changes a look corrects it for good.      *)
StatusCatchesUp == <>[](status = Derived)

(* The missions of a campaign can be run in some order: every group of     *)
(* them has one that waits for none of the others, also when missions are  *)
(* added by two callers at once.                                           *)
CanBeOrdered == ~MayRemove => \A S \in (SUBSET Entries) \ {{}} : \E m \in S : depends[m] \cap S = {}

(* Whoever is added depends on nobody who is missing at that moment, while *)
(* missions are only added.  (One that is removed between the check and    *)
(* the insert leaves a dependency on nobody.)                              *)
AddedDependsOnMembers ==
    [][~MayRemove => \A m \in Missions : depends[m] = None /\ depends'[m] # None => depends'[m] \subseteq Entries]_vars

(* The campaign can be worked off.                                         *)
CampaignInv == TypeOK /\ CanBeOrdered

(* The campaign follows its missions: in whom it adds, and in its status.  *)
CampaignFollows == AddedDependsOnMembers /\ StatusCatchesUp

=============================================================================
