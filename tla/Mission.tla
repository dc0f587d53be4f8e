------------------------------- MODULE Mission --------------------------------
(***************************************************************************)
(* A mission in the SQLite mission store: `mission run` processes, which   *)
(* step, verify and write a checkpoint, and the operator's pause, resume   *)
(* and cancel, each a process of its own on the shared database.  Every    *)
(* statement commits by itself; a status change reads the status, checks   *)
(* the transition table and then writes, two statements, and nothing holds *)
(* the row in between.                                                     *)
(*                                                                         *)
(* What a step does is its outcome; the subgoal-stepping executor also     *)
(* closes a subgoal.  Subgoals are numbered by priority.                   *)
(***************************************************************************)
EXTENDS Integers, Sequences, FiniteSets, MissionLifecycle

CONSTANTS Scopes,  \* what a behaviour is about: the fields below
          None

ASSUME MissionAssumption ==
    /\ None \notin MissionStatuses
    /\ \A s \in Scopes :
         /\ IsFiniteSet(s.Runners) /\ IsFiniteSet(s.Operators)
         /\ s.Subgoals \subseteq Nat /\ IsFiniteSet(s.Subgoals)
         /\ s.MaxSteps \in Nat \ {0} /\ s.MaxIterations \in Nat \ {0}
         /\ s.Outcomes \subseteq {"completed", "failed", "blocked"} /\ s.Verdicts \subseteq Results
         /\ {s.IsCode, s.Serial} \subseteq BOOLEAN

VARIABLES status,      \* of the mission's row; None while there is no row
          steps,       \* statuses of its steps, in order
          subgoals,    \* subgoal -> its status
          passed,      \* a passing verification is on record
          latest,      \* result of the latest verification
          checkpoint,  \* the newest checkpoint file
          pc, iter,    \* process -> where it is; rounds of its loop
          want,        \* process -> the status it is setting
          outcome,     \* process -> outcome of its step, then of its verifier
          mine,        \* process -> the subgoal it picked, then its step
          shot,        \* process -> the checkpoint it is collecting
          asks, crashes, restores,
          scope        \* which of Scopes; it never changes

Runners == scope.Runners               \* processes of `mission run`
Operators == scope.Operators           \* processes of pause, resume, cancel
Subgoals == scope.Subgoals             \* 1 .. n
MaxSteps == scope.MaxSteps             \* the mission's budget
MaxIterations == scope.MaxIterations   \* of one run
Outcomes == scope.Outcomes             \* what an executor can return
Verdicts == scope.Verdicts             \* what a registered verifier can yield; {} when there is none
IsCode == scope.IsCode                 \* missionType is code

tables == <<status, steps, subgoals, passed, latest>>
local == <<iter, want, outcome, mine, shot>>
bounds == <<asks, crashes, restores>>
vars == <<tables, checkpoint, pc, local, bounds>>

Procs == Runners \cup Operators

Open == {"pending", "active"}

Fresh == [s \in Subgoals |-> "pending"]

Init ==
    /\ scope \in Scopes
    /\ status = "active" /\ steps = <<>> /\ subgoals = Fresh
    /\ passed = FALSE /\ latest = None /\ checkpoint = None
    /\ pc = [p \in Procs |-> "off"]
    /\ iter = [p \in Procs |-> 0]
    /\ want = [p \in Procs |-> None]
    /\ outcome = [p \in Procs |-> None]
    /\ mine = [p \in Procs |-> None]
    /\ shot = [p \in Procs |-> None]
    /\ asks = 0 /\ crashes = 0 /\ restores = 0

Goto(p, l) == pc' = [pc EXCEPT ![p] = l]

(* The process is gone, and what it had in hand with it.                   *)
Exit(p) ==
    /\ Goto(p, "off")
    /\ iter' = [iter EXCEPT ![p] = 0]
    /\ want' = [want EXCEPT ![p] = None]
    /\ outcome' = [outcome EXCEPT ![p] = None]
    /\ mine' = [mine EXCEPT ![p] = None]
    /\ shot' = [shot EXCEPT ![p] = None]

Set(p, s) ==
    /\ want' = [want EXCEPT ![p] = s]
    /\ Goto(p, "setting")

-----------------------------------------------------------------------------
(* run_mission_loop begins: the mission must exist.                        *)
Launch(p) ==
    /\ p \in Runners /\ pc[p] = "off" /\ status # None
    /\ Goto(p, "round")
    /\ UNCHANGED <<tables, checkpoint, local, bounds>>

(* pause, resume or cancel.                                                *)
Ask(p, s) ==
    /\ p \in Operators /\ pc[p] = "off" /\ status # None
    /\ asks < scope.MaxAsks /\ asks' = asks + 1
    /\ Set(p, s)
    /\ UNCHANGED <<tables, checkpoint, iter, outcome, mine, shot, crashes, restores>>

Crash(p) ==
    /\ pc[p] # "off" /\ crashes < scope.MaxCrashes
    /\ crashes' = crashes + 1
    /\ Exit(p)
    /\ UNCHANGED <<tables, checkpoint, asks, restores>>

-----------------------------------------------------------------------------
(* _transition_mission_status: the status is read and the transition       *)
(* checked; a transition that is not allowed raises, and ends the process. *)
ReadStatus(p) ==
    /\ pc[p] = "setting"
    /\ IF can_transition_mission_status(status, want[p])
       THEN Goto(p, "writing") /\ UNCHANGED local
       ELSE Exit(p)
    /\ UNCHANGED <<tables, checkpoint, bounds>>

(* ... and then written.  A run goes on to its checkpoint.                 *)
WriteStatus(p) ==
    /\ pc[p] = "writing"
    /\ status' = want[p]
    /\ IF p \in Operators THEN Exit(p) ELSE Goto(p, "saving") /\ UNCHANGED local
    /\ UNCHANGED <<steps, subgoals, passed, latest, checkpoint, bounds>>

-----------------------------------------------------------------------------
(* A round of run_until_done: enough of them, or no longer active, and the *)
(* loop is over.  A code mission that is still active then, its last       *)
(* verification failing, has failed.                                       *)
Round(p) ==
    /\ pc[p] = "round"
    /\ IF iter[p] = MaxIterations /\ status = "active" /\ IsCode /\ latest \in {"failed", "threw"}
       THEN Set(p, "failed") /\ UNCHANGED <<iter, outcome, mine, shot>>
       ELSE /\ Goto(p, IF iter[p] = MaxIterations \/ status # "active" THEN "saving" ELSE "stepping")
            /\ UNCHANGED local
    /\ UNCHANGED <<tables, checkpoint, bounds>>

(* run_step reads the status again.                                        *)
StartStep(p) ==
    /\ pc[p] = "stepping"
    /\ Goto(p, IF status = "active" THEN "budgeting" ELSE "saving")
    /\ UNCHANGED <<tables, checkpoint, local, bounds>>

(* get_budget_usage.                                                       *)
exhausted == Len(steps) >= MaxSteps

(* Mutant: the run ends without a word about the budget.                   *)
CheckBudgetQuietly(p) ==
    /\ pc[p] \in {"budgeting", "rebudgeting"}
    /\ Goto(p, IF exhausted THEN "saving" ELSE IF pc[p] = "budgeting" THEN "executing" ELSE "verifying")
    /\ UNCHANGED <<tables, checkpoint, local, bounds>>

CheckBudget(p) ==
    /\ pc[p] \in {"budgeting", "rebudgeting"}
    /\ IF exhausted
       THEN Set(p, "budget_exhausted")
       ELSE Goto(p, IF pc[p] = "budgeting" THEN "executing" ELSE "verifying") /\ UNCHANGED want
    /\ UNCHANGED <<tables, checkpoint, iter, outcome, mine, shot, bounds>>

(* The executor: it picks the first open subgoal, if it gets to that.  An  *)
(* executor that raises is one whose step failed.                          *)
Execute(p, o) ==
    /\ pc[p] = "executing"
    /\ outcome' = [outcome EXCEPT ![p] = o]
    /\ LET open == {s \in Subgoals : subgoals[s] \in Open} IN
       IF o = "completed" /\ open # {}
       THEN /\ mine' = [mine EXCEPT ![p] = CHOOSE s \in open : \A u \in open : s <= u]
            /\ Goto(p, "closing")
       ELSE Goto(p, "advancing") /\ UNCHANGED mine
    /\ UNCHANGED <<tables, checkpoint, iter, want, shot, bounds>>

CloseSubgoal(p) ==
    /\ pc[p] = "closing"
    /\ subgoals' = [subgoals EXCEPT ![mine[p]] = "completed"]
    /\ Goto(p, "advancing")
    /\ UNCHANGED <<status, steps, passed, latest, checkpoint, local, bounds>>

(* The step is recorded as completed ...                                   *)
advance(p) ==
    /\ pc[p] = "advancing"
    /\ steps' = Append(steps, "completed")
    /\ mine' = [mine EXCEPT ![p] = Len(steps) + 1]
    /\ Goto(p, IF outcome[p] = "completed" THEN "rebudgeting" ELSE "marking")
    /\ UNCHANGED <<status, subgoals, passed, latest, checkpoint, iter, want, outcome, shot, bounds>>

(* ... and then marked when it was not.  A failed step goes to the         *)
(* verifier, a blocked one blocks the mission.                             *)
MarkStep(p) ==
    /\ pc[p] = "marking"
    /\ steps' = [steps EXCEPT ![mine[p]] = outcome[p]]
    /\ IF outcome[p] = "blocked" THEN Set(p, "blocked") ELSE Goto(p, "verifying") /\ UNCHANGED want
    /\ UNCHANGED <<status, subgoals, passed, latest, checkpoint, iter, outcome, mine, shot, bounds>>

-----------------------------------------------------------------------------
(* build_fallback_verifier: passes when there are subgoals and all of them *)
(* are closed.                                                             *)
FallbackVerdict ==
    IF Subgoals # {} /\ \A s \in Subgoals : subgoals[s] \in {"completed", "skipped"} THEN "passed" ELSE "failed"

(* MissionManager.verify: the verifier runs.                               *)
Verify(p, r) ==
    /\ pc[p] = "verifying"
    /\ r \in (IF Verdicts = {} THEN {FallbackVerdict} ELSE Verdicts)
    /\ outcome' = [outcome EXCEPT ![p] = r]
    /\ Goto(p, IF r = "passed" THEN "validating" ELSE "recording")
    /\ UNCHANGED <<tables, checkpoint, iter, want, mine, shot, bounds>>

(* A pass must be a transition the table allows, or nothing is recorded    *)
(* and the run raises.                                                     *)
Validate(p) ==
    /\ pc[p] = "validating"
    /\ IF can_transition_mission_status(status, "completed")
       THEN Goto(p, "recording") /\ UNCHANGED local
       ELSE Exit(p)
    /\ UNCHANGED <<tables, checkpoint, bounds>>

record_verification(p) ==
    /\ pc[p] = "recording"
    /\ latest' = outcome[p]
    /\ passed' = (passed \/ outcome[p] = "passed")
    /\ CASE outcome[p] = "passed" -> Goto(p, "completing") /\ UNCHANGED <<want, iter>>
         [] outcome[p] = "threw" -> Set(p, "verifier_failed") /\ UNCHANGED iter
         [] outcome[p] = "failed" -> Goto(p, "round") /\ iter' = [iter EXCEPT ![p] = @ + 1] /\ UNCHANGED want
    /\ UNCHANGED <<status, steps, subgoals, checkpoint, outcome, mine, shot, bounds>>

Complete(p) ==
    /\ pc[p] = "completing"
    /\ status' = "completed"
    /\ Goto(p, "saving")
    /\ UNCHANGED <<steps, subgoals, passed, latest, checkpoint, local, bounds>>

-----------------------------------------------------------------------------
(* Mutant: the verifications are read first, the mission's row last.       *)
PartsBackwards == <<"verifications", "subgoals", "steps", "status">>

(* save_checkpoint reads the tables one after the other, the mission's row *)
(* first, the verifications last, and writes the file.                     *)
Parts == <<"status", "steps", "subgoals", "verifications">>

ReadPart(s, part) ==
    CASE part = "status" -> [s EXCEPT !.status = status]
      [] part = "steps" -> [s EXCEPT !.steps = steps]
      [] part = "subgoals" -> [s EXCEPT !.subgoals = subgoals]
      [] part = "verifications" -> [s EXCEPT !.passed = passed, !.latest = latest]

NewShot == [read |-> 0, status |-> None, steps |-> <<>>, subgoals |-> Fresh, passed |-> FALSE, latest |-> None]

Save(p) ==
    /\ pc[p] = "saving"
    /\ LET sofar == IF shot[p] = None THEN NewShot ELSE shot[p]
           next == [ReadPart(sofar, Parts[sofar.read + 1]) EXCEPT !.read = @ + 1]
       IN IF next.read < Len(Parts)
          THEN /\ shot' = [shot EXCEPT ![p] = next]
               /\ UNCHANGED <<checkpoint, pc, iter, want, outcome, mine>>
          ELSE checkpoint' = next /\ Exit(p)
    /\ UNCHANGED <<tables, bounds>>

(* The database is gone ...                                                *)
LoseDatabase ==
    /\ restores < scope.MaxRestores /\ restores' = restores + 1
    /\ status # None /\ checkpoint # None /\ \A p \in Procs : pc[p] = "off"
    /\ status' = None /\ steps' = <<>> /\ subgoals' = Fresh
    /\ passed' = FALSE /\ latest' = None
    /\ UNCHANGED <<checkpoint, pc, local, asks, crashes>>

(* ... and load_checkpoint puts the rows of the newest checkpoint into a   *)
(* new one, in one transaction.                                            *)
load_checkpoint ==
    /\ status = None
    /\ status' = checkpoint.status /\ steps' = checkpoint.steps /\ subgoals' = checkpoint.subgoals
    /\ passed' = checkpoint.passed /\ latest' = checkpoint.latest
    /\ UNCHANGED <<checkpoint, pc, local, bounds>>

-----------------------------------------------------------------------------
Step(p) ==
    /\ p \in Procs
    /\ \/ ReadStatus(p) \/ WriteStatus(p)
       \/ Round(p) \/ StartStep(p) \/ CheckBudget(p)
       \/ (\E o \in Outcomes : Execute(p, o)) \/ CloseSubgoal(p) \/ advance(p) \/ MarkStep(p)
       \/ (\E r \in Results : Verify(p, r)) \/ Validate(p) \/ record_verification(p) \/ Complete(p)
       \/ Save(p)

(* Nobody starts while somebody else is at work.                           *)
OneAtATime == Cardinality({p \in Procs : pc'[p] # "off"}) <= 1

Next ==
    /\ \/ LoseDatabase \/ load_checkpoint
       \/ \E p \in Procs : \/ Launch(p) \/ Step(p) \/ Crash(p)
                           \/ \E s \in {"paused", "active", "canceled"} : Ask(p, s)
    /\ scope.Serial => OneAtATime
    /\ scope' = scope

AllProcs == UNION {s.Runners \cup s.Operators : s \in Scopes}

(* Somebody runs the mission again and again, and runs end.                *)
Fairness == \A p \in AllProcs : WF_vars(Launch(p)) /\ WF_vars(Step(p))

Spec == Init /\ [][Next]_<<vars, scope>> /\ Fairness

-----------------------------------------------------------------------------
TypeOK ==
    /\ status \in MissionStatuses \cup {None}
    /\ steps \in Seq({"completed", "failed", "blocked"})
    /\ subgoals \in [Subgoals -> {"pending", "active", "completed", "failed", "skipped"}]
    /\ passed \in BOOLEAN /\ latest \in Results \cup {None}
    /\ \A p \in Procs : iter[p] \in 0..MaxIterations /\ want[p] \in MissionStatuses \cup {None}

(* A completed mission has a passing verification on record, whatever      *)
(* raced, crashed or was restored from a checkpoint that was collected     *)
(* while others wrote.                                                     *)
CompletedIsVerified == status = "completed" => passed

(* Each runner beyond the first can overrun the budget by one step, no     *)
(* more, resumed or not.                                                   *)
StepsWithinBudget == Len(steps) <= MaxSteps + Cardinality(Runners) - 1

(* A closed subgoal has the completed step that closed it; a crash loses   *)
(* one such step at most, and a checkpoint collected while nobody writes   *)
(* none.                                                                   *)
SubgoalsAreAccounted ==
    scope.Serial =>
    Cardinality({s \in Subgoals : subgoals[s] = "completed"})
        <= Cardinality({i \in DOMAIN steps : steps[i] = "completed"}) + crashes
             + Cardinality({p \in Runners : pc[p] = "advancing"})

(* A mission that is run again and again does not stay active.             *)
MissionSettles == Runners # {} /\ status = "active" ~> status # "active"

(* Completed is final: through crashes, restores and requests when one     *)
(* process runs at a time.  (When two do it is not: a request that read    *)
(* the status before a run completed the mission writes over it.)          *)
CompletedIsFinal == [][scope.Serial /\ status = "completed" => status' \in {"completed", None}]_vars

(* A mission's status, steps and subgoals account for each other.          *)
MissionInv == TypeOK /\ CompletedIsVerified /\ StepsWithinBudget /\ SubgoalsAreAccounted

(* A mission that is run leaves active, and a completed one stays so.      *)
MissionEnds == MissionSettles /\ CompletedIsFinal

=============================================================================
