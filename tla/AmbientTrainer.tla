---------------------------- MODULE AmbientTrainer ----------------------------
(***************************************************************************)
(* The ambient trainer for one charter target: the train, evaluate and     *)
(* promote stages over the model registry, the serving manifest and the    *)
(* usage ledger.  The resident daemon holds a lock and runs the stages in  *)
(* turn; `autoctx ambient once` runs a single stage without the lock, at   *)
(* any time.  The registry is one file per record and every stage works    *)
(* on records it listed earlier, so a write puts back what was read.       *)
(*                                                                         *)
(* A record is named by the dataset size it was trained on; its file is    *)
(* named by a hash, so the order records are listed in is a parameter.  A  *)
(* process reads the charter when it starts; charters are numbered, and an *)
(* edit moves to the next one.  A judge's score and the drift canary's     *)
(* verdict are choices; the eval suite exists and the serving manifest is  *)
(* configured.                                                             *)
(***************************************************************************)
EXTENDS Integers, FiniteSets

CONSTANTS Scopes,         \* what a behaviour is about: the fields below
          Records,        \* 1 .. n, the dataset sizes worth training on
          Place,          \* record -> its place in a listing
          Backend,        \* record -> backend that trains it
          AnchorModel,    \* charter -> the anchor's model
          Rubric,         \* charter -> the anchor's rubric
          Autonomy,       \* charter -> "propose", "train" or "full"
          Daemon,         \* the resident process
          Scores,         \* what judging can yield
          Threshold,      \* breaker_threshold
          None

ASSUME TrainerAssumption ==
    /\ Records \subseteq Nat /\ IsFiniteSet(Records) /\ \A r \in Records : Backend[r] # None
    /\ Place \in [Records -> Nat] /\ (\A r, s \in Records : Place[r] = Place[s] => r = s)
    /\ Scores \subseteq Nat /\ Threshold \in Nat \ {0} /\ None \notin Nat
    /\ \A s \in Scopes : /\ 1 \in s.Charters /\ s.Charters \subseteq Nat
                         /\ s.Hours \subseteq 0..s.Requested /\ s.Requested \in Nat /\ s.Budget \in Nat

VARIABLES registry,   \* record -> what its file says, None when there is none
          manifest,   \* backend of the target's serving entry
          used,       \* hours in the usage ledger's window
          charter,    \* the charter file
          count,      \* records in the dataset
          pc, held,   \* process -> where it is, the charter it was built with
          snap, todo, cur, drift, erred,  \* process -> what its stage has in hand
          failures,   \* process -> stage -> consecutive failures (the breaker)
          last,       \* history: the record activated last
          crashes, errors, once,
          scope       \* which of Scopes; it never changes

Charters == scope.Charters    \* 1 .. k
OneShots == scope.OneShots    \* processes of `ambient once`
Hours == scope.Hours          \* what training can take
Requested == scope.Requested  \* hours the budget gate asks for
Budget == scope.Budget        \* gpu_hours_per_window

files == <<registry, manifest, used>>
world == <<charter, count>>
hand == <<snap, todo, cur, drift, erred>>
bounds == <<crashes, errors, once>>
vars == <<files, world, pc, held, hand, failures, last, bounds>>

Procs == {Daemon} \cup OneShots
Stages == {"train", "evaluate", "promote"}

(* What identifies an evaluation: the anchor's model and its rubric.       *)
Fingerprint(c) == <<AnchorModel[c], Rubric[c]>>

Candidate == [state |-> "candidate", eval |-> None, previous |-> None]

Is(reg, r, state) == reg[r] # None /\ reg[r].state = state

First(rs) == CHOOSE r \in rs : \A s \in rs : Place[r] <= Place[s]

Actives(reg) == {r \in Records : Is(reg, r, "active")}

Init ==
    /\ scope \in Scopes
    /\ registry = [r \in Records |-> None]
    /\ manifest = None /\ used = 0
    /\ charter = 1 /\ count = 0
    /\ pc = [p \in Procs |-> "off"]
    /\ held = [p \in Procs |-> 1]
    /\ snap = [p \in Procs |-> None]
    /\ todo = [p \in Procs |-> {}]
    /\ cur = [p \in Procs |-> None]
    /\ drift = [p \in Procs |-> FALSE]
    /\ erred = [p \in Procs |-> FALSE]
    /\ failures = [p \in Procs |-> [s \in Stages |-> 0]]
    /\ last = None
    /\ crashes = 0 /\ errors = 0 /\ once = 0

-----------------------------------------------------------------------------
Following == [s \in Stages |-> CASE s = "train" -> "evaluate" [] s = "evaluate" -> "promote"
                                 [] s = "promote" -> "sleeping"]

Forget(p) ==
    /\ snap' = [snap EXCEPT ![p] = None]
    /\ todo' = [todo EXCEPT ![p] = {}]
    /\ cur' = [cur EXCEPT ![p] = None]
    /\ drift' = [drift EXCEPT ![p] = FALSE]
    /\ erred' = [erred EXCEPT ![p] = FALSE]

Goto(p, l) == pc' = [pc EXCEPT ![p] = l]

(* The stage returned: the breaker counts, the daemon goes to the next one *)
(* and a one-shot exits.                                                   *)
Return(p, stage, failed) ==
    /\ Forget(p)
    /\ IF p = Daemon
       THEN /\ Goto(p, Following[stage])
            /\ failures' = [failures EXCEPT ![p][stage] = IF failed THEN @ + 1 ELSE 0]
       ELSE /\ Goto(p, "off")
            /\ UNCHANGED failures

Paused(p, stage) == failures[p][stage] >= Threshold

(* A cycle passes over a paused stage.                                     *)
PassOver(p) ==
    /\ pc[p] \in Stages /\ Paused(p, pc[p])
    /\ Goto(p, Following[pc[p]])
    /\ UNCHANGED <<files, world, held, hand, failures, last, bounds>>

Runs(p, stage) == pc[p] = stage /\ ~Paused(p, stage)

(* Something raised, within the bound.                                     *)
Raised == errors < scope.MaxErrors /\ errors' = errors + 1

-----------------------------------------------------------------------------
(* A process is built from the charter of the moment.                      *)
Launch(p, stage) ==
    /\ pc[p] = "off"
    /\ IF p = Daemon THEN stage = "train" /\ UNCHANGED once
                     ELSE once < scope.MaxOnce /\ once' = once + 1
    /\ held' = [held EXCEPT ![p] = charter]
    /\ failures' = [failures EXCEPT ![p] = [s \in Stages |-> 0]]
    /\ Goto(p, stage)
    /\ UNCHANGED <<files, world, hand, last, crashes, errors>>

(* A cycle is over: the daemon sleeps and begins another, or was asked for *)
(* no more.                                                                *)
Cycle(p) ==
    /\ pc[p] = "sleeping"
    /\ Goto(p, "train")
    /\ UNCHANGED <<files, world, held, hand, failures, last, bounds>>

Stop ==
    /\ pc[Daemon] = "sleeping"
    /\ Goto(Daemon, "off")
    /\ UNCHANGED <<files, world, held, hand, failures, last, bounds>>

Crash(p) ==
    /\ pc[p] # "off" /\ crashes < scope.MaxCrashes
    /\ crashes' = crashes + 1
    /\ Goto(p, "off") /\ Forget(p)
    /\ UNCHANGED <<files, world, held, failures, last, errors, once>>

(* The operator edits the charter; curation adds to the dataset; recorded  *)
(* hours leave the budget window.                                          *)
EditCharter ==
    /\ charter + 1 \in Charters
    /\ charter' = charter + 1
    /\ UNCHANGED <<files, count, pc, held, hand, failures, last, bounds>>

Grow ==
    /\ count + 1 \in Records
    /\ count' = count + 1
    /\ UNCHANGED <<files, charter, pc, held, hand, failures, last, bounds>>

WindowSlides ==
    /\ \E rest \in 0..(used - 1) : used' = rest
    /\ UNCHANGED <<registry, manifest, world, pc, held, hand, failures, last, bounds>>

-----------------------------------------------------------------------------
budget_allows == used + Requested <= Budget

(* _train_target up to the training run: enough new data, a charter that   *)
(* lets it train, hours left.                                              *)
StartTraining(p) ==
    /\ Runs(p, "train")
    /\ IF count \in Records /\ registry[count] = None /\ Autonomy[held[p]] # "propose" /\ budget_allows
       THEN /\ cur' = [cur EXCEPT ![p] = count]
            /\ Goto(p, "training")
            /\ UNCHANGED <<snap, todo, drift, erred, failures>>
       ELSE Return(p, "train", FALSE)
    /\ UNCHANGED <<files, world, held, last, bounds>>

TrainingFails(p) ==
    /\ pc[p] = "training" /\ Raised
    /\ Return(p, "train", TRUE)
    /\ UNCHANGED <<files, world, held, last, crashes, once>>

(* The hours go to the ledger, then publish_training_output looks for the  *)
(* record.                                                                 *)
EndTraining(p, hours) ==
    /\ pc[p] = "training"
    /\ used' = used + hours
    /\ snap' = [snap EXCEPT ![p] = registry]
    /\ Goto(p, "publishing")
    /\ UNCHANGED <<registry, manifest, world, held, todo, cur, drift, erred, failures, last, bounds>>

(* A record that was found is kept, whatever came out of this training.    *)
publish_candidate(p) ==
    /\ pc[p] = "publishing"
    /\ registry' = IF snap[p][cur[p]] = None THEN [registry EXCEPT ![cur[p]] = Candidate] ELSE registry
    /\ Return(p, "train", FALSE)
    /\ UNCHANGED <<manifest, used, world, held, last, bounds>>

-----------------------------------------------------------------------------
(* Candidates, and the incumbent too, whose evaluation is missing or was   *)
(* made under another fingerprint.                                         *)
StaleEval(c, reg) ==
    {r \in Records : /\ Is(reg, r, "candidate") \/ Is(reg, r, "active")
                     /\ reg[r].eval = None \/ reg[r].eval.fingerprint # Fingerprint(c)}

StartEvaluating(p, ok) ==
    /\ Runs(p, "evaluate")
    /\ snap' = [snap EXCEPT ![p] = registry]
    /\ todo' = [todo EXCEPT ![p] = StaleEval(held[p], registry)]
    /\ drift' = [drift EXCEPT ![p] = ok]
    /\ erred' = [erred EXCEPT ![p] = FALSE]
    /\ Goto(p, "evaluating")
    /\ UNCHANGED <<files, world, held, cur, failures, last, bounds>>

(* _evaluate_candidate: judged for as long as it takes, then the record as *)
(* it was listed is written with its evaluation.                           *)
EvaluateRecord(p, score) ==
    /\ pc[p] = "evaluating" /\ todo[p] # {}
    /\ LET r == First(todo[p])
           eval == [fingerprint |-> Fingerprint(held[p]), model |-> AnchorModel[held[p]],
                    score |-> score, drift_ok |-> drift[p]]
       IN /\ registry' = [registry EXCEPT ![r] = [snap[p][r] EXCEPT !.eval = eval]]
          /\ todo' = [todo EXCEPT ![p] = @ \ {r}]
    /\ UNCHANGED <<manifest, used, world, pc, held, snap, cur, drift, erred, failures, last, bounds>>

EvaluationFails(p) ==
    /\ pc[p] = "evaluating" /\ todo[p] # {} /\ Raised
    /\ todo' = [todo EXCEPT ![p] = @ \ {First(@)}]
    /\ erred' = [erred EXCEPT ![p] = TRUE]
    /\ UNCHANGED <<files, world, pc, held, snap, cur, drift, failures, last, crashes, once>>

EndEvaluating(p) ==
    /\ pc[p] = "evaluating" /\ todo[p] = {}
    /\ Return(p, "evaluate", erred[p])
    /\ UNCHANGED <<files, world, held, last, bounds>>

-----------------------------------------------------------------------------
(* Mutant: a candidate that was on its way before is passed over.          *)
PromotableUnmarked(reg, c) ==
    {r \in Records : /\ Is(reg, r, "candidate") /\ reg[r].eval # None /\ reg[r].previous = None
                     /\ reg[r].eval.drift_ok /\ reg[r].eval.model = AnchorModel[c]}

(* Clean candidates scored under the current anchor's model.               *)
Promotable(reg, c) ==
    {r \in Records : /\ Is(reg, r, "candidate") /\ reg[r].eval # None
                     /\ reg[r].eval.drift_ok /\ reg[r].eval.model = AnchorModel[c]}

(* The best of them, the first one when they tie.                          *)
Best(reg, rs) == CHOOSE r \in rs : \A s \in rs : \/ reg[s].eval.score < reg[r].eval.score
                                                 \/ reg[s].eval.score = reg[r].eval.score /\ Place[r] <= Place[s]

(* The first active record; None when the target is not served.            *)
Incumbent(reg) == IF Actives(reg) = {} THEN None ELSE First(Actives(reg))

_beats_incumbent(reg, r, i) ==
    i # None => /\ reg[i].eval # None /\ reg[i].eval.model = reg[r].eval.model
                /\ reg[r].eval.score > reg[i].eval.score

(* _promote_target up to its decision.                                     *)
StartPromoting(p) ==
    /\ Runs(p, "promote")
    /\ LET rs == Promotable(registry, held[p])
           r == Best(registry, rs)
       IN IF rs # {} /\ _beats_incumbent(registry, r, Incumbent(registry)) /\ Autonomy[held[p]] = "full"
          THEN /\ snap' = [snap EXCEPT ![p] = registry]
               /\ cur' = [cur EXCEPT ![p] = r]
               /\ Goto(p, "marking")
               /\ UNCHANGED <<todo, drift, erred, failures>>
          ELSE Return(p, "promote", FALSE)
    /\ UNCHANGED <<files, world, held, last, bounds>>

(* The probation marker names the incumbent.                               *)
MarkProbation(p) ==
    /\ pc[p] = "marking"
    /\ registry' = [registry EXCEPT ![cur[p]] = [snap[p][cur[p]] EXCEPT !.previous = Incumbent(snap[p])]]
    /\ Goto(p, "routing")
    /\ UNCHANGED <<manifest, used, world, held, hand, failures, last, bounds>>

(* Mutant: the serving entry is left for after the activation.             *)
RouteLater(p) ==
    /\ pc[p] = "routing"
    /\ Goto(p, "activating")
    /\ UNCHANGED <<files, world, held, hand, failures, last, bounds>>

write_serving_entry(p) ==
    /\ pc[p] = "routing"
    /\ manifest' = Backend[cur[p]]
    /\ Goto(p, "activating")
    /\ UNCHANGED <<registry, used, world, held, hand, failures, last, bounds>>

RoutingFails(p) ==
    /\ pc[p] = "routing" /\ Raised
    /\ Return(p, "promote", TRUE)
    /\ UNCHANGED <<files, world, held, last, crashes, once>>

(* The active records that hold the slot of r.                             *)
SlotHolders(reg, r) == {s \in Actives(reg) \ {r} : Backend[s] = Backend[r]}

(* ModelRegistry.activate: load, demote each holder of the slot, activate. *)
StartActivating(p) ==
    /\ pc[p] = "activating"
    /\ snap' = [snap EXCEPT ![p] = registry]
    /\ todo' = [todo EXCEPT ![p] = SlotHolders(registry, cur[p])]
    /\ Goto(p, "demoting")
    /\ UNCHANGED <<files, world, held, cur, drift, erred, failures, last, bounds>>

Demote(p) ==
    /\ pc[p] = "demoting" /\ todo[p] # {}
    /\ LET r == First(todo[p]) IN
       /\ registry' = [registry EXCEPT ![r] = [snap[p][r] EXCEPT !.state = "disabled"]]
       /\ todo' = [todo EXCEPT ![p] = @ \ {r}]
    /\ UNCHANGED <<manifest, used, world, pc, held, snap, cur, drift, erred, failures, last, bounds>>

Activate(p) ==
    /\ pc[p] = "demoting" /\ todo[p] = {}
    /\ registry' = [registry EXCEPT ![cur[p]] = [snap[p][cur[p]] EXCEPT !.state = "active"]]
    /\ last' = cur[p]
    /\ Return(p, "promote", FALSE)
    /\ UNCHANGED <<manifest, used, world, held, bounds>>

Step(p) ==
    \/ PassOver(p) \/ Cycle(p)
    \/ StartTraining(p) \/ (\E h \in Hours : EndTraining(p, h)) \/ publish_candidate(p)
    \/ (\E ok \in BOOLEAN : StartEvaluating(p, ok)) \/ (\E s \in Scores : EvaluateRecord(p, s)) \/ EndEvaluating(p)
    \/ StartPromoting(p) \/ MarkProbation(p) \/ write_serving_entry(p)
    \/ StartActivating(p) \/ Demote(p) \/ Activate(p)

Next ==
    /\ \/ EditCharter \/ Grow \/ WindowSlides \/ Stop
       \/ \E p \in Procs : \/ \E s \in Stages : Launch(p, s)
                           \/ Step(p) \/ Crash(p)
                           \/ TrainingFails(p) \/ EvaluationFails(p) \/ RoutingFails(p)
    /\ scope' = scope

(* The daemon is kept running and its stages return.                       *)
Fairness == WF_vars(Launch(Daemon, "train")) /\ WF_vars(Step(Daemon))

Spec == Init /\ [][Next]_<<vars, scope>> /\ Fairness

-----------------------------------------------------------------------------
Evals == [fingerprint : {Fingerprint(c) : c \in Charters}, model : {AnchorModel[c] : c \in Charters},
          score : Scores, drift_ok : BOOLEAN]

Entries == [state : {"candidate", "active", "disabled"}, eval : Evals \cup {None}, previous : Records \cup {None}]

TypeOK ==
    /\ \A r \in Records : registry[r] = None \/ registry[r] \in Entries
    /\ manifest \in {Backend[r] : r \in Records} \cup {None}
    /\ used \in Nat /\ charter \in Charters /\ count \in Records \cup {0}
    /\ \A p \in Procs : cur[p] \in Records \cup {None} /\ todo[p] \subseteq Records
    /\ last \in Records \cup {None}

(* One record at most is live in a slot, at every step of an activation    *)
(* and after a crash in the middle of one, while the daemon works alone.   *)
OneLive == OneShots = {} => \A r, s \in Actives(registry) : Backend[r] = Backend[s] => r = s

(* Whoever is live can be found: the serving entry was written first, also *)
(* when one-shot stages put back records they read before.                 *)
ActiveIsRouted == Actives(registry) # {} => manifest # None

(* A record that becomes active is clean, and it beats the incumbent its   *)
(* probation marker names under one anchor model: several writes, crashes, *)
(* restarts and charter edits after the comparison was made.               *)
PromotionImproves ==
    [][OneShots = {} => \A r \in Records : ~Is(registry, r, "active") /\ Is(registry', r, "active") =>
         /\ registry[r].eval.drift_ok
         /\ registry[r].previous # None =>
               LET i == registry[registry[r].previous].eval
               IN i.model = registry[r].eval.model /\ i.score < registry[r].eval.score]_vars

(* The recorded hours stay within the window's budget, through crashes and *)
(* failed trainings, while the daemon works alone.                         *)
WithinBudget == OneShots = {} => used <= Budget

(* Once the target was served, it is served again whatever crashed, unless *)
(* failures have opened a breaker or one-shot stages interfere.            *)
ServedAgain ==
    OneShots = {} /\ scope.MaxErrors < Threshold /\ last # None ~> Actives(registry) # {}

(* The registry, the manifest and the ledger agree at every step.          *)
TrainerInv == TypeOK /\ OneLive /\ ActiveIsRouted /\ WithinBudget

(* Serving only improves, and is restored after a crash.                   *)
ServingHolds == PromotionImproves /\ ServedAgain

=============================================================================
