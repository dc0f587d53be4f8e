----------------------------- MODULE EpochRegistry -----------------------------
(***************************************************************************)
(* The evaluator epochs of one scenario: which judge is trusted.  Runs     *)
(* observe the epoch that scored them and then write their score, marked   *)
(* as quarantined unless the epoch was active; promotions make another     *)
(* epoch the active one and clear the marks of its scores.                 *)
(*                                                                         *)
(* A record is a file of its own, written atomically; operations on        *)
(* several of them hold the scenario's lock, which dies with its holder.   *)
(* The scores are rows of a database, outside the lock.  The registry      *)
(* never holds two active epochs (OneActive), so the self-healing of       *)
(* _active_for_locked has nothing to do.                                   *)
(***************************************************************************)
EXTENDS Naturals, FiniteSets

CONSTANTS Scopes,  \* what a behaviour is about: the fields below
          None

VARIABLES records,   \* epoch -> None (no file), candidate, active, disabled
          decided,   \* epoch -> the decision stamped on its record
          lock,      \* the promoter that holds the scenario lock
          pc, loc,   \* promoter -> where it is, its call
          seen,      \* run -> what it observed: None, or its epoch and mark
          rows,      \* run -> its score: None, or its epoch and mark
          reviewed,  \* history: the first epoch and the ones promoted with authority
          calls, crashes, faults,
          scope      \* which of Scopes; it never changes

Epochs == scope.Epochs        \* epoch ids
Runs == scope.Runs            \* runs, each with one score
Promoters == scope.Promoters  \* processes that call promote_evaluator_epoch
Decisions == scope.Decisions  \* what a reviewer may say: approved, rejected, None
RequiresApproval == scope.RequiresApproval  \* policy.requires_approval: no full autonomy
MaxCalls == scope.MaxCalls
MaxCrashes == scope.MaxCrashes
MaxFaults == scope.MaxFaults

registry == <<records, decided>>
vars == <<registry, lock, pc, loc, seen, rows, reviewed, calls, crashes, faults>>

Reports == {None} \cup [epoch : Epochs, passes : BOOLEAN]
(* A reviewer's word needs no report, and without autonomy none is read    *)
(* but for the metadata.                                                   *)
ReportsFor(decision) == IF decision # None \/ RequiresApproval THEN {None} ELSE Reports

Calls == [epoch : Epochs, decision : Decisions, report : Reports, prior : SUBSET Runs, outcome : {None, "activated",
          "pending_review", "rejected", "blocked", "noop"}]

Init ==
    /\ scope \in Scopes
    /\ records = [e \in Epochs |-> None] /\ decided = [e \in Epochs |-> None]
    /\ lock = None
    /\ pc = [p \in Promoters |-> "idle"] /\ loc = [p \in Promoters |-> None]
    /\ seen = [r \in Runs |-> None] /\ rows = [r \in Runs |-> None]
    /\ reviewed = {} /\ calls = 0 /\ crashes = 0 /\ faults = 0

Known == {e \in Epochs : records[e] # None}
Actives == {e \in Epochs : records[e] = "active"}

-----------------------------------------------------------------------------
(* A run was scored under epoch e.  A scenario without an active epoch     *)
(* makes it the active one; another unknown epoch becomes a candidate.     *)
observe_id(r, e) ==
    /\ seen[r] = None /\ lock = None
    /\ records' = [records EXCEPT ![e] = IF @ # None THEN @ ELSE IF Actives = {} THEN "active" ELSE "candidate"]
    /\ seen' = [seen EXCEPT ![r] = [epoch |-> e, mark |-> records'[e] # "active"]]
    /\ reviewed' = reviewed \cup (IF Known = {} THEN {e} ELSE {})
    /\ UNCHANGED <<decided, lock, pc, loc, rows, calls, crashes, faults>>

(* The registry cannot be read or written: the score is quarantined.       *)
ObserveFails(r, e) ==
    /\ seen[r] = None /\ faults < MaxFaults
    /\ seen' = [seen EXCEPT ![r] = [epoch |-> e, mark |-> TRUE]]
    /\ faults' = faults + 1
    /\ UNCHANGED <<registry, lock, pc, loc, rows, reviewed, calls, crashes>>

(* The score of the run is written, with the mark it observed.             *)
upsert_generation(r) ==
    /\ seen[r] # None /\ rows[r] = None
    /\ rows' = [rows EXCEPT ![r] = seen[r]]
    /\ UNCHANGED <<registry, lock, pc, loc, seen, reviewed, calls, crashes, faults>>

-----------------------------------------------------------------------------
(* promote_evaluator_epoch, for a reviewer or for the autonomous path.     *)
Goto(p, l) == pc' = [pc EXCEPT ![p] = l]
Return(p, outcome) == Goto(p, "idle") /\ loc' = [loc EXCEPT ![p].outcome = outcome]

ScoredUnder(e) == {r \in Runs : rows[r] # None /\ rows[r].epoch = e}

Call(p, e, decision, report) ==
    /\ pc[p] = "idle" /\ calls < MaxCalls
    /\ loc' = [loc EXCEPT ![p] = [epoch |-> e, decision |-> decision, report |-> report,
                                  prior |-> ScoredUnder(e), outcome |-> None]]
    /\ Goto(p, "load") /\ calls' = calls + 1
    /\ UNCHANGED <<registry, lock, seen, rows, reviewed, crashes, faults>>

(* The candidate is read without the lock.  If it is active already, an    *)
(* earlier promotion may have died before its clear: clear again.          *)
Load(p) ==
    /\ pc[p] = "load"
    /\ LET state == records[loc[p].epoch] IN
       IF state = None THEN Return(p, "noop")
       ELSE Goto(p, IF state = "active" THEN "clear" ELSE "decide") /\ UNCHANGED loc
    /\ UNCHANGED <<registry, lock, seen, rows, reviewed, calls, crashes, faults>>

(* The report is evidence only if it is of this epoch.                     *)
calibration_passes(c) == c.report # None /\ c.report.epoch = c.epoch /\ c.report.passes

(* active_for is read under the lock, for the metadata, and the call is    *)
(* decided.                                                                *)
DecideCall(p) ==
    /\ pc[p] = "decide" /\ lock = None
    /\ LET c == loc[p] IN
       IF c.decision = "approved" THEN Goto(p, "promote") /\ UNCHANGED loc
       ELSE IF c.decision = "rejected" \/ RequiresApproval THEN Goto(p, "stamp") /\ UNCHANGED loc
       ELSE IF calibration_passes(c) THEN Goto(p, "promote") /\ UNCHANGED loc
       ELSE Return(p, "blocked")
    /\ UNCHANGED <<registry, lock, seen, rows, reviewed, calls, crashes, faults>>

(* _activate_locked: the incumbent is written first, then the target.      *)
Demote(p) ==
    /\ pc[p] = "promote" /\ lock = None
    /\ records' = [e \in Epochs |-> IF e \in Actives \ {loc[p].epoch} THEN "disabled" ELSE records[e]]
    /\ lock' = p /\ Goto(p, "activate")
    /\ UNCHANGED <<decided, loc, seen, rows, reviewed, calls, crashes, faults>>

Activate(p) ==
    /\ pc[p] = "activate"
    /\ LET c == loc[p] IN
       /\ records' = [records EXCEPT ![c.epoch] = "active"]
       /\ decided' = [decided EXCEPT ![c.epoch] = c.decision]
       /\ reviewed' = reviewed \cup
            (IF c.decision = "approved" \/ (~RequiresApproval /\ c.report = [epoch |-> c.epoch, passes |-> TRUE])
             THEN {c.epoch} ELSE {})
    /\ lock' = None /\ Goto(p, "clear")
    /\ UNCHANGED <<loc, seen, rows, calls, crashes, faults>>

(* clear_quarantine_for_epoch                                              *)
Clear(p) ==
    /\ pc[p] = "clear"
    /\ rows' = [r \in Runs |-> IF r \in ScoredUnder(loc[p].epoch) THEN [rows[r] EXCEPT !.mark = FALSE] ELSE rows[r]]
    /\ Return(p, "activated")
    /\ UNCHANGED <<registry, lock, seen, reviewed, calls, crashes, faults>>

(* Mutant: the record is written as it was when the call loaded it.        *)
StampPutsBack(p) ==
    /\ pc[p] = "stamp" /\ lock = None
    /\ decided' = [decided EXCEPT ![loc[p].epoch] = loc[p].decision]
    /\ records' = [records EXCEPT ![loc[p].epoch] = "candidate"]
    /\ Return(p, IF loc[p].decision = "rejected" THEN "rejected" ELSE "pending_review")
    /\ UNCHANGED <<lock, seen, rows, reviewed, calls, crashes, faults>>

(* stamp_promotion: the decision is written on the record as it now is.    *)
Stamp(p) ==
    /\ pc[p] = "stamp" /\ lock = None
    /\ decided' = [decided EXCEPT ![loc[p].epoch] = loc[p].decision]
    /\ Return(p, IF loc[p].decision = "rejected" THEN "rejected" ELSE "pending_review")
    /\ UNCHANGED <<records, lock, seen, rows, reviewed, calls, crashes, faults>>

(* Mutant: the lock outlives its holder.                                   *)
CrashKeepsLock(p) ==
    /\ pc[p] \notin {"idle", "crashed"} /\ crashes < MaxCrashes
    /\ Goto(p, "crashed") /\ crashes' = crashes + 1
    /\ UNCHANGED <<registry, lock, loc, seen, rows, reviewed, calls, faults>>

(* A promoter dies; the lock goes with it.  It may be called again.        *)
Crash(p) ==
    /\ pc[p] \notin {"idle", "crashed"} /\ crashes < MaxCrashes
    /\ lock' = (IF lock = p THEN None ELSE lock)
    /\ Goto(p, "crashed") /\ crashes' = crashes + 1
    /\ UNCHANGED <<registry, loc, seen, rows, reviewed, calls, faults>>

CallAgain(p) ==
    /\ pc[p] = "crashed"
    /\ loc' = [loc EXCEPT ![p].prior = ScoredUnder(loc[p].epoch)]
    /\ Goto(p, "load")
    /\ UNCHANGED <<registry, lock, seen, rows, reviewed, calls, crashes, faults>>

-----------------------------------------------------------------------------
Step(p) == Load(p) \/ DecideCall(p) \/ Demote(p) \/ Activate(p) \/ Clear(p) \/ Stamp(p) \/ CallAgain(p)

Next ==
    /\ \/ \E r \in Runs, e \in Epochs : observe_id(r, e) \/ ObserveFails(r, e)
       \/ \E r \in Runs : upsert_generation(r)
       \/ \E p \in Promoters :
            \/ \E e \in Epochs, d \in Decisions : \E c \in ReportsFor(d) : Call(p, e, d, c)
            \/ Step(p)
            \/ Crash(p)
    /\ scope' = scope

(* A promotion that started goes on, and one that died is called again.    *)
GoesOn(p) == p \in Promoters /\ Step(p)

Fairness == \A p \in UNION {s.Promoters : s \in Scopes} : WF_vars(GoesOn(p))

Spec == Init /\ [][Next]_<<vars, scope>> /\ Fairness

-----------------------------------------------------------------------------
(* Every variable has its type.                                            *)
TypeOK ==
    /\ records \in [Epochs -> {None, "candidate", "active", "disabled"}]
    /\ decided \in [Epochs -> Decisions \cup {None}]
    /\ lock \in Promoters \cup {None}
    /\ pc \in [Promoters -> {"idle", "load", "decide", "promote", "activate", "clear", "stamp", "crashed"}]
    /\ loc \in [Promoters -> Calls \cup {None}]
    /\ seen \in [Runs -> {None} \cup [epoch : Epochs, mark : BOOLEAN]]
    /\ rows \in [Runs -> {None} \cup [epoch : Epochs, mark : BOOLEAN]]
    /\ reviewed \subseteq Epochs

(* A scenario never has two active epochs, also for those who read the     *)
(* records without the lock, and where no promoter died it has one         *)
(* whenever the lock is free (_activate_locked).                           *)
OneActive ==
    /\ Cardinality(Actives) <= 1
    /\ (lock = None /\ Known # {} /\ crashes = 0) => Actives # {}

(* A score without a mark was given by an epoch that was the first of the  *)
(* scenario or was promoted by a reviewer or on its own calibration,       *)
(* whatever failed on the way and in whatever order runs and promotions    *)
(* came (observe_epoch_quarantined, promote_evaluator_epoch), unless a     *)
(* promoter died: the next epoch that is observed is then active.          *)
TrustedWasReviewed == crashes = 0 => \A r \in Runs : rows[r] # None /\ ~rows[r].mark => rows[r].epoch \in reviewed

(* Who is told that an epoch is activated has none of the scores left in   *)
(* quarantine that were there when the call was made, also where an        *)
(* earlier call died between activating and clearing.                      *)
PriorScoresCleared ==
    \A p \in Promoters : loc[p] # None /\ loc[p].outcome = "activated" => \A r \in loc[p].prior : ~rows[r].mark

(* A scenario that has epochs has an active one in the end, also where a   *)
(* promotion died between writing the incumbent and the target.            *)
ActiveInTheEnd == <>[](Known # {} => Cardinality(Actives) = 1)

(* A scenario has one authority for its scores, and only reviewed ones.    *)
EpochInv == TypeOK /\ OneActive /\ TrustedWasReviewed /\ PriorScoresCleared

=============================================================================
