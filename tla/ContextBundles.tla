--------------------------- MODULE ContextBundles ---------------------------
(***************************************************************************)
(* Promotion of context bundles (autocontext.context_bundles).             *)
(*                                                                         *)
(* A generation proposes a candidate bundle against the bundle that is     *)
(* being served, a coordinator evaluates it on matched candidate/incumbent *)
(* pairs, and a candidate that is confirmed and authorized replaces the    *)
(* served bundle by one write of the active pointer.  Everything is on     *)
(* disk: the pointer, a record, the matched evidence, a stale marker and a *)
(* negative-result ledger for every candidate (store lock), and the        *)
(* campaign's risk and fixture reservations (campaign lock).  A step here  *)
(* is one critical section of one of the two locks; between two steps of a *)
(* coordinator, coordinators of other runs, or of the same run retried,    *)
(* operators' rollbacks and evaluator-epoch rollovers may do anything.     *)
(*                                                                         *)
(* A coordinator that crashes, raises, is cancelled, or is held by the     *)
(* auditor leaves what it wrote; the generation is retried by resuming its *)
(* pending candidate.  Operations that write several files can stop        *)
(* between two writes.                                                     *)
(***************************************************************************)
EXTENDS Naturals, Sequences, FiniteSets

CONSTANTS Scopes,           \* what a behaviour is about: the fields below
          Base,             \* the bootstrap baseline
          Parent,           \* Parent[c]: incumbent digest in c's manifest
          Epoch, Content,   \* evaluator epoch and components of a bundle
          MinScreen, MinConfirmation, MinHeldout,
          MinBlocks,        \* independent blocks before held-out pairs
          None

ASSUME ScopesAssumption ==
    \A s \in Scopes :
        /\ s.Candidates \subseteq s.Bundles /\ Base \in s.Bundles \ s.Candidates
        /\ \A c \in s.Candidates : Parent[c] # c /\ Parent[c] \in s.Bundles /\ Epoch[c] = Epoch[Parent[c]]
        /\ s.Outcomes \subseteq {"win", "loss", "invalid"} /\ s.GateOutcomes \subseteq BOOLEAN
        /\ IsFiniteSet(DOMAIN s.Lane) /\ DOMAIN s.Lane \subseteq Nat

(* None is no bundle, no outcome and no entry of a ledger.                 *)
ASSUME NoneAssumption ==
    /\ None \notin {"win", "loss", "invalid"}
    /\ \A s \in Scopes :
          LET whys == s.Bundles \cup {None, "gate", "comparison"} \cup [DOMAIN s.Lane -> s.Outcomes \cup {None}]
          IN /\ None \notin s.Bundles
             /\ None \notin [kind : {"rejected", "inconclusive", "stale", "blocked"}, why : whys]
             /\ None \notin [status : {"reserved", "authorized", "blocked", "rejected", "inconclusive"},
                             reason : whys, seen : whys]

VARIABLES ptr,       \* active.json: bundle, rollback target, promotion id?
          record,    \* record.json of every bundle: lifecycle and comparison
          trials,    \* matched_trials.json of every candidate
          marker,    \* stale_terminalization.json: observed active bundle
          neg,       \* negative_result.json
          spent,     \* risk reservations in allocation order
          risk,      \* status of a candidate's risk reservation
          planned,   \* candidates with a durable fixture plan
          co,        \* the coordinators
          faults, rollbacks, rollovers,
          scope      \* which of Scopes; it never changes

Procs == scope.Procs            \* coordinators
Bundles == scope.Bundles        \* bundle digests
Candidates == scope.Candidates  \* the bundles proposed by generations
Fixtures == scope.Fixtures      \* Fixtures[c]: fixture digests of c's plan
Lane == scope.Lane              \* Lane[u]: lane of evaluation unit u
Outcomes == scope.Outcomes      \* what a pair can show
GateOutcomes == scope.GateOutcomes          \* verdicts of the campaign's evidence gate
MaxConfirmation == scope.MaxConfirmation
MaxFaults == scope.MaxFaults    \* bound on crashes, errors, holds, failed writes
MaxRollbacks == scope.MaxRollbacks          \* bound on operator rollbacks
MaxRollovers == scope.MaxRollovers          \* bound on evaluator-epoch changes

Units == DOMAIN Lane

store == <<ptr, record, trials, marker, neg>>
campaign == <<spent, risk, planned>>
budgets == <<faults, rollbacks, rollovers>>
vars == <<store, campaign, co, budgets>>

Pending == {"proposed", "screened", "confirmed"}

Lifecycles == Pending \cup {"absent", "rejected", "active", "superseded"}

NoTrials == [u \in Units |-> None]

Idle == [pc |-> "idle", cand |-> None, cmp |-> None, life |-> "absent",
         todo |-> {}, unit |-> 0, after |-> "none"]

-----------------------------------------------------------------------------
(* Comparison (comparison.py): a deterministic ladder over the evidence.   *)
(* Scores are abstracted to the sign of a pair's effect, and the           *)
(* confidence interval to where unanimous or mixed signs put it.           *)

Rows(t, lane) == {u \in Units : Lane[u] = lane /\ t[u] # None}

Count(t, lane, o) == Cardinality({u \in Rows(t, lane) : t[u] = o})

PositiveEffect(t, lane) == Count(t, lane, "win") > Count(t, lane, "loss")

Above(t) == Count(t, "confirmation", "loss") = 0

Below(t) == Count(t, "confirmation", "win") = 0

evaluate_matched_trials(t) ==
    LET pairs(lane) == Cardinality(Rows(t, lane))
        valid(lane) == Count(t, lane, "invalid") = 0
    IN IF pairs("screen") < MinScreen THEN "needs_screen"
       ELSE IF ~valid("screen") \/ ~PositiveEffect(t, "screen") THEN "rejected"
       ELSE IF pairs("confirmation") < MinConfirmation THEN "needs_confirmation"
       ELSE IF ~valid("confirmation") \/ Below(t) THEN "rejected"
       ELSE IF ~Above(t)
            THEN IF pairs("confirmation") >= MaxConfirmation THEN "inconclusive" ELSE "needs_confirmation"
       ELSE IF pairs("heldout") < MinHeldout THEN "needs_heldout"
       ELSE IF ~valid("heldout") \/ ~PositiveEffect(t, "heldout") THEN "rejected"
       ELSE "confirmed"

(* Held-out pairs wait for the campaign's stricter, block-wise interval,   *)
(* or for the last confirmation pair the policy allows.                    *)
confirmation_blocks_ready(t) ==
    LET rows == Cardinality(Rows(t, "confirmation"))
    IN rows >= MaxConfirmation \/ (rows >= MinBlocks /\ Above(t))

(* May unit u run when the last comparison was cmp?                        *)
Eligible(u, cmp, t) ==
    CASE Lane[u] = "screen" -> cmp \in {None, "needs_screen"}
      [] Lane[u] = "confirmation" ->
           \/ cmp = "needs_confirmation"
           \/ cmp = "needs_heldout" /\ ~confirmation_blocks_ready(t)
      [] Lane[u] = "heldout" ->
           cmp = "needs_heldout" /\ confirmation_blocks_ready(t)

-----------------------------------------------------------------------------
(* The store's critical sections.                                          *)

LifecycleAfter(decision, life) ==
    CASE decision = "confirmed" -> "confirmed"
      [] decision = "rejected" -> "rejected"
      [] decision \in {"needs_confirmation", "needs_heldout", "inconclusive"}
           -> "screened"
      [] OTHER -> life

CanRecord(c, new) ==
    /\ record[c].life \in {"proposed", "screened"}
    /\ \A u \in Units : new[u] # None => trials[c][u] \in {None, new[u]}

Merged(c, new) == [u \in Units |-> IF new[u] = None THEN trials[c][u] ELSE new[u]]

(* record_matched_trials: the evidence envelope is replaced first, the     *)
(* record second; a fault can leave the first write alone.                 *)
record_matched_trials(c, new, whole) ==
    LET t == Merged(c, new)
        d == evaluate_matched_trials(t)
    IN /\ trials' = [trials EXCEPT ![c] = t]
       /\ record' = IF whole
                      THEN [record EXCEPT ![c] =
                              [life |-> LifecycleAfter(d, record[c].life),
                               seen |-> t]]
                      ELSE record
       /\ UNCHANGED <<ptr, marker, neg>>

SetLifecycles(bundles, lives, n) ==
    record' = [b \in Bundles |->
                 IF \E i \in 1..n : bundles[i] = b
                   THEN [record[b] EXCEPT !.life =
                           lives[CHOOSE i \in 1..n : bundles[i] = b]]
                   ELSE record[b]]

(* Mutant: the stale marker is not read again.                             *)
CanPromoteMarked(c) ==
    /\ record[c].life = "confirmed"
    /\ ptr.bundle = Parent[c]
    /\ trials[c] = record[c].seen
    /\ evaluate_matched_trials(trials[c]) = "confirmed"

CanPromote(c) ==
    /\ record[c].life = "confirmed"
    /\ marker[c] = None
    /\ ptr.bundle = Parent[c]
    /\ trials[c] = record[c].seen
    /\ evaluate_matched_trials(trials[c]) = "confirmed"

(* promote: the pointer is the commit; the two lifecycle mirrors follow,   *)
(* best effort (n of them are written).  Called again while c is served,   *)
(* it only writes the mirrors.                                             *)
promote(c, n) ==
    /\ SetLifecycles(<<c, Parent[c]>>, <<"active", "superseded">>, n)
    /\ ptr' = IF ptr.bundle = c THEN ptr
              ELSE [bundle |-> c, target |-> Parent[c], promoted |-> TRUE]
    /\ UNCHANGED <<trials, marker, neg>>

(* begin_stale_confirmed_candidate_terminalization writes a marker when    *)
(* the confirmed candidate's parent is no longer served.                   *)
IsStale(c) ==
    /\ record[c].life = "confirmed"
    /\ ptr.bundle \notin {Parent[c], c}

(* record_negative_result: the ledger is immutable.                        *)
CanExplain(c, artifact) == neg[c] \in {None, artifact}

-----------------------------------------------------------------------------
(* A coordinator's steps.                                                  *)

Goto(p, pc) == co' = [co EXCEPT ![p].pc = pc]

(* Return, or raise ContextBundleEvaluationDeferred: either way the        *)
(* coordinator is gone and the store says what is left to do.              *)
Leave(p) == co' = [co EXCEPT ![p] = Idle]

Fault == faults < MaxFaults /\ faults' = faults + 1

Start(p, c) == co' = [co EXCEPT ![p] = [Idle EXCEPT !.pc = "recover", !.cand = c]]

(* A generation proposes c while its parent is served.  A digest that is   *)
(* already recorded for this generation keeps its record.                  *)
propose(p, c) ==
    /\ co[p].pc = "idle"
    /\ ptr.bundle = Parent[c]
    /\ record' = IF record[c].life = "absent"
                   THEN [record EXCEPT ![c].life = "proposed"] ELSE record
    /\ Start(p, c)
    /\ UNCHANGED <<ptr, trials, marker, neg, campaign, budgets>>

(* A retried generation resumes its pending candidate.                     *)
resume_pending_context_candidate(p, c) ==
    /\ co[p].pc = "idle"
    /\ record[c].life \in Pending
    /\ Start(p, c)
    /\ UNCHANGED <<store, campaign, budgets>>

(* recover_stale_confirmed_candidate: a confirmed candidate whose parent   *)
(* is gone, or that is marked already, goes straight to terminalization.   *)
recover_stale_confirmed_candidate(p) ==
    LET c == co[p].cand
    IN /\ co[p].pc = "recover"
       /\ IF record[c].life = "confirmed" /\ (marker[c] # None \/ IsStale(c))
            THEN co' = [co EXCEPT ![p].pc = "begin", ![p].after = "reserve"]
            ELSE Goto(p, "reserve")
       /\ UNCHANGED <<store, campaign, budgets>>

(* Mutant: a resumed candidate spends again.                               *)
ReserveAgain(p) ==
    LET c == co[p].cand
    IN /\ co[p].pc = "reserve"
       /\ spent' = Append(spent, c)
       /\ risk' = [risk EXCEPT ![c] = IF @ = None
                                        THEN [status |-> "reserved", reason |-> None,
                                              seen |-> None] ELSE @]
       /\ Goto(p, "fixtures")
       /\ UNCHANGED <<store, planned, budgets>>

(* reserve_confirmation_policy: the next alpha of the campaign, once.      *)
reserve_confirmation_policy(p) ==
    LET c == co[p].cand
    IN /\ co[p].pc = "reserve"
       /\ IF risk[c] = None
            THEN /\ spent' = Append(spent, c)
                 /\ risk' = [risk EXCEPT ![c] = [status |-> "reserved",
                                                 reason |-> None, seen |-> None]]
            ELSE UNCHANGED <<spent, risk>>
       /\ Goto(p, "fixtures")
       /\ UNCHANGED <<store, planned, budgets>>

Occupied(c) == \E d \in planned \ {c} : Fixtures[d] \cap Fixtures[c] # {}

(* reserve_fixture_plan: fixtures any earlier candidate planned are        *)
(* refused, whatever became of that candidate.                             *)
reserve_fixture_plan(p) ==
    LET c == co[p].cand
    IN /\ co[p].pc = "fixtures"
       /\ IF c \notin planned /\ Occupied(c)
            THEN Leave(p) /\ UNCHANGED planned
            ELSE Goto(p, "load") /\ planned' = planned \cup {c}
       /\ UNCHANGED <<store, spent, risk, budgets>>

(* The evidence and the record as this pass finds them.                    *)
LoadEvidence(p) ==
    LET c == co[p].cand
    IN /\ co[p].pc = "load"
       /\ co' = [co EXCEPT ![p].pc = IF trials[c] = NoTrials THEN "unit" ELSE "replay",
                           ![p].life = record[c].life,
                           ![p].todo = {u \in Units : trials[c][u] = None}]
       /\ UNCHANGED <<store, campaign, budgets>>

(* Where a coordinator goes with a comparison.                             *)
Follow(p, cmp) ==
    co' = [co EXCEPT ![p].cmp = cmp,
                     ![p].pc = CASE cmp \in {"rejected", "inconclusive"} -> "explain"
                                 [] cmp = "confirmed" /\ co[p].life = "active" -> "promote"
                                 [] cmp = "confirmed" /\ co[p].life # "active" -> "begin"
                                 [] OTHER -> "unit",
                     ![p].after = IF cmp = "confirmed" THEN "audit" ELSE @]

(* Mutant: a record that the crash left behind is not repaired.            *)
ReplayWithoutRepair(p) ==
    LET c == co[p].cand
    IN /\ co[p].pc = "replay"
       /\ IF record[c].seen \in {NoTrials, trials[c]} \/ co[p].life = "screened"
            THEN Follow(p, evaluate_matched_trials(trials[c])) ELSE Leave(p)
       /\ UNCHANGED <<store, campaign, budgets>>

(* Evidence of an earlier pass: replayed when the record looked terminal,  *)
(* otherwise merged again, which repairs a record the crash left behind.   *)
ReplayEvidence(p) ==
    LET c == co[p].cand
        terminal == co[p].life \in {"confirmed", "rejected", "active"}
        cmp == evaluate_matched_trials(trials[c])
    IN /\ co[p].pc = "replay"
       /\ IF terminal
            THEN /\ IF record[c].seen \in {NoTrials, trials[c]}
                      THEN Follow(p, cmp) ELSE Leave(p)
                 /\ UNCHANGED store
            ELSE IF CanRecord(c, NoTrials)
                   THEN /\ Follow(p, cmp)
                        /\ record_matched_trials(c, NoTrials, TRUE)
                   ELSE Leave(p) /\ UNCHANGED store
       /\ UNCHANGED <<campaign, budgets>>

(* The next unit of the pass, in lane order; a pass never goes back.       *)
ChooseUnit(p) ==
    LET c == co[p].cand
        ready == {u \in co[p].todo : Eligible(u, co[p].cmp, trials[c])}
        next == CHOOSE u \in ready : \A v \in ready : u <= v
    IN /\ co[p].pc = "unit"
       /\ IF ready = {}
            THEN Leave(p)
            ELSE co' = [co EXCEPT ![p].pc = "evaluate", ![p].unit = next,
                                  ![p].todo = {u \in @ : u > next}]
       /\ UNCHANGED <<store, campaign, budgets>>

(* The pair has been evaluated, with outcome o; it is recorded unless the  *)
(* candidate was decided, or the pair recorded differently, meanwhile.     *)
RecordPair(p, o, whole) ==
    LET c == co[p].cand
        new == [NoTrials EXCEPT ![co[p].unit] = o]
    IN /\ co[p].pc = "evaluate"
       /\ IF CanRecord(c, new)
            THEN /\ record_matched_trials(c, new, whole)
                 /\ IF whole THEN Follow(p, evaluate_matched_trials(Merged(c, new)))
                             ELSE Leave(p)
            ELSE Leave(p) /\ UNCHANGED store
       /\ IF whole THEN UNCHANGED faults ELSE Fault
       /\ UNCHANGED <<campaign, rollbacks, rollovers>>

(* _terminal_result: the ledger, then the reservation, then (for an        *)
(* inconclusive candidate) the record.                                     *)
PersistNegativeResult(p) ==
    LET c == co[p].cand
        artifact == [kind |-> co[p].cmp, why |-> trials[c]]
    IN /\ co[p].pc = "explain"
       /\ IF CanExplain(c, artifact)
            THEN neg' = [neg EXCEPT ![c] = artifact] /\ Goto(p, "decide")
            ELSE UNCHANGED neg /\ Leave(p)
       /\ UNCHANGED <<ptr, record, trials, marker, campaign, budgets>>

record_terminal_decision(p) ==
    LET c == co[p].cand
        cmp == co[p].cmp
        same == risk[c].status = cmp /\ risk[c].reason = "comparison"
    IN /\ co[p].pc = "decide"
       /\ risk' = IF risk[c].status = "reserved"
                    THEN [risk EXCEPT ![c] = [status |-> cmp, reason |-> "comparison",
                                              seen |-> None]]
                    ELSE risk
       /\ IF cmp = "inconclusive" /\ (risk[c].status = "reserved" \/ same)
            THEN Goto(p, "reject") ELSE Leave(p)
       /\ UNCHANGED <<store, spent, planned, budgets>>

(* reject, called for an inconclusive candidate that is still screened and *)
(* for a blocked one that is still confirmed.                              *)
RejectCandidate(p) ==
    LET c == co[p].cand
        from == IF co[p].cmp = "inconclusive" THEN "screened" ELSE "confirmed"
    IN /\ co[p].pc = "reject"
       /\ record' = IF record[c].life = from
                      THEN [record EXCEPT ![c].life = "rejected"] ELSE record
       /\ Leave(p)
       /\ UNCHANGED <<ptr, trials, marker, neg, campaign, budgets>>

(* Terminalization of a stale candidate, first section: an existing marker *)
(* is binding; a rejected candidate is left to its caller; any other       *)
(* lifecycle is an error.                                                  *)
BeginStale(p) ==
    LET c == co[p].cand
    IN /\ co[p].pc = "begin"
       /\ IF marker[c] # None \/ IsStale(c)
            THEN /\ marker' = [marker EXCEPT ![c] = IF @ = None THEN ptr.bundle ELSE @]
                 /\ Goto(p, "stale_risk")
            ELSE /\ IF record[c].life \in {"confirmed", "rejected"}
                      THEN Goto(p, co[p].after) ELSE Leave(p)
                 /\ UNCHANGED marker
       /\ UNCHANGED <<ptr, record, trials, neg, campaign, budgets>>

(* reject_stale_risk_reservation: an authorization stands as history; a    *)
(* reservation that ended in any other way is an error.                    *)
reject_stale_risk_reservation(p) ==
    LET c == co[p].cand
        stale == [status |-> "rejected", reason |-> marker[c], seen |-> trials[c]]
    IN /\ co[p].pc = "stale_risk"
       /\ risk' = IF risk[c].status = "reserved" THEN [risk EXCEPT ![c] = stale] ELSE risk
       /\ IF risk[c].status \in {"reserved", "authorized"} \/ risk[c] = stale
            THEN Goto(p, "stale_explain") ELSE Leave(p)
       /\ UNCHANGED <<store, spent, planned, budgets>>

ExplainStale(p) ==
    LET c == co[p].cand
        artifact == [kind |-> "stale", why |-> marker[c]]
    IN /\ co[p].pc = "stale_explain"
       /\ IF CanExplain(c, artifact)
            THEN neg' = [neg EXCEPT ![c] = artifact] /\ Goto(p, "stale_finalize")
            ELSE UNCHANGED neg /\ Leave(p)
       /\ UNCHANGED <<ptr, record, trials, marker, campaign, budgets>>

(* finalize_stale_confirmed_candidate_terminalization.                     *)
FinalizeStale(p) ==
    LET c == co[p].cand
    IN /\ co[p].pc = "stale_finalize"
       /\ record' = IF record[c].life = "confirmed"
                      THEN [record EXCEPT ![c].life = "rejected"] ELSE record
       /\ Leave(p)
       /\ UNCHANGED <<ptr, trials, marker, neg, campaign, budgets>>

(* The pre-promotion audit lets the candidate pass; a hold is a Stop.      *)
AuditPasses(p) ==
    /\ co[p].pc = "audit"
    /\ Goto(p, "authorize")
    /\ UNCHANGED <<store, campaign, budgets>>

(* Mutant: a verdict that was taken counts as granted.                     *)
GrantedOnRetry(c, verdict) ==
    IF risk[c].status = "reserved" THEN verdict ELSE TRUE

Granted(c, verdict) ==
    IF risk[c].status = "reserved" THEN verdict ELSE risk[c].status = "authorized"

(* authorize_promotion: the verdict of the block-wise evidence gate is     *)
(* taken once; later calls with the same evidence repeat it.               *)
authorize_promotion(p, verdict) ==
    LET c == co[p].cand
        fresh == risk[c].status = "reserved"
    IN /\ co[p].pc = "authorize"
       /\ risk' = IF fresh
                    THEN [risk EXCEPT ![c] =
                            [status |-> IF verdict THEN "authorized" ELSE "blocked",
                             reason |-> "gate", seen |-> trials[c]]]
                    ELSE risk
       /\ IF ~fresh /\ risk[c].seen # trials[c]
            THEN Leave(p)
            ELSE IF Granted(c, verdict)
                   THEN co' = [co EXCEPT ![p].pc = "begin", ![p].after = "promote"]
                   ELSE Goto(p, "blocked_explain")
       /\ UNCHANGED <<store, spent, planned, budgets>>

ExplainBlocked(p) ==
    LET c == co[p].cand
        artifact == [kind |-> "blocked", why |-> risk[c].reason]
    IN /\ co[p].pc = "blocked_explain"
       /\ IF CanExplain(c, artifact)
            THEN neg' = [neg EXCEPT ![c] = artifact] /\ Goto(p, "reject")
            ELSE UNCHANGED neg /\ Leave(p)
       /\ UNCHANGED <<ptr, record, trials, marker, campaign, budgets>>

(* The serving commit.  While c is served the call only repairs mirrors,   *)
(* provided the pointer still names its promotion.                         *)
PromoteCandidate(p, n) ==
    LET c == co[p].cand
    IN /\ co[p].pc = "promote"
       /\ IF (ptr.bundle = c /\ ptr.promoted) \/ (ptr.bundle # c /\ CanPromote(c))
            THEN promote(c, n) ELSE UNCHANGED store
       /\ IF n = 2 THEN UNCHANGED faults ELSE Fault
       /\ Leave(p)
       /\ UNCHANGED <<campaign, rollbacks, rollovers>>

(* A coordinator crashes, is cancelled, reaches its deadline, meets an     *)
(* evaluator error, or is held by the auditor.                             *)
Stop(p) ==
    /\ co[p].pc # "idle"
    /\ Fault
    /\ Leave(p)
    /\ UNCHANGED <<store, campaign, rollbacks, rollovers>>

(* rollback: the pointer first, then the mirrors of both bundles.          *)
rollback(n) ==
    /\ rollbacks < MaxRollbacks
    /\ ptr.target # None
    /\ ptr' = [bundle |-> ptr.target, target |-> ptr.bundle, promoted |-> FALSE]
    /\ SetLifecycles(<<ptr.bundle, ptr.target>>, <<"superseded", "active">>, n)
    /\ rollbacks' = rollbacks + 1
    /\ IF n = 2 THEN UNCHANGED faults ELSE Fault
    /\ UNCHANGED <<trials, marker, neg, campaign, co, rollovers>>

(* rollover_evaluator_epoch: the served components under a new epoch, as a *)
(* baseline without parent, evidence or rollback target.                   *)
rollover_evaluator_epoch(b, n) ==
    /\ rollovers < MaxRollovers
    /\ b \in Bundles \ Candidates
    /\ Content[b] = Content[ptr.bundle]
    /\ Epoch[b] # Epoch[ptr.bundle]
    /\ ptr' = [bundle |-> b, target |-> None, promoted |-> FALSE]
    /\ record' = [x \in Bundles |->
                    IF x = b /\ (record[b].life = "absent" \/ n >= 1)
                      THEN [record[b] EXCEPT !.life = "active"]
                    ELSE IF x = ptr.bundle /\ n >= 2
                      THEN [record[x] EXCEPT !.life = "superseded"]
                    ELSE record[x]]
    /\ rollovers' = rollovers + 1
    /\ IF n = 2 THEN UNCHANGED faults ELSE Fault
    /\ UNCHANGED <<trials, marker, neg, campaign, co, rollbacks>>

-----------------------------------------------------------------------------
(* bootstrap has adopted the live context as the first baseline.           *)
Init ==
    /\ scope \in Scopes
    /\ ptr = [bundle |-> Base, target |-> None, promoted |-> FALSE]
    /\ record = [b \in Bundles |->
                   [life |-> IF b = Base THEN "active" ELSE "absent", seen |-> NoTrials]]
    /\ trials = [c \in Candidates |-> NoTrials]
    /\ marker = [c \in Candidates |-> None]
    /\ neg = [c \in Candidates |-> None]
    /\ spent = <<>>
    /\ risk = [c \in Candidates |-> None]
    /\ planned = {}
    /\ co = [p \in Procs |-> Idle]
    /\ faults = 0
    /\ rollbacks = 0
    /\ rollovers = 0

Advance(p) ==
    \/ recover_stale_confirmed_candidate(p)
    \/ reserve_confirmation_policy(p)
    \/ reserve_fixture_plan(p)
    \/ LoadEvidence(p)
    \/ ReplayEvidence(p)
    \/ ChooseUnit(p)
    \/ \E o \in Outcomes : RecordPair(p, o, TRUE)
    \/ PersistNegativeResult(p)
    \/ record_terminal_decision(p)
    \/ RejectCandidate(p)
    \/ BeginStale(p)
    \/ reject_stale_risk_reservation(p)
    \/ ExplainStale(p)
    \/ FinalizeStale(p)
    \/ AuditPasses(p)
    \/ \E v \in GateOutcomes : authorize_promotion(p, v)
    \/ ExplainBlocked(p)
    \/ PromoteCandidate(p, 2)

Interrupt(p) ==
    \/ Stop(p)
    \/ \E o \in Outcomes : RecordPair(p, o, FALSE)
    \/ \E n \in 0..1 : PromoteCandidate(p, n)

Next ==
    /\ \/ \E p \in Procs, c \in Candidates : propose(p, c)
       \/ \E p \in Procs, c \in Candidates : resume_pending_context_candidate(p, c)
       \/ \E p \in Procs : Advance(p) \/ Interrupt(p)
       \/ \E n \in 0..2 : rollback(n)
       \/ \E b \in Bundles, n \in 0..2 : rollover_evaluator_epoch(b, n)
    /\ scope' = scope

Spec == Init /\ [][Next]_<<vars, scope>>

(* A started coordinator keeps running, and the generation of a pending    *)
(* candidate is retried until the candidate is settled: a deferred         *)
(* generation cannot advance before.  The retry needs a free coordinator   *)
(* only because the model has few: whenever one is free again and again,   *)
(* the retry gets one (strong fairness), as its run starts its own.        *)
Retried(c) == c \in Candidates /\ \E p \in Procs : resume_pending_context_candidate(p, c)

RetriedSpec ==
    /\ Spec
    /\ \A p \in UNION {s.Procs : s \in Scopes} : WF_vars(p \in Procs /\ Advance(p))
    /\ \A c \in UNION {s.Candidates : s \in Scopes} : SF_vars(Retried(c))

-----------------------------------------------------------------------------
TypeOK ==
    /\ ptr \in [bundle : Bundles, target : Bundles \cup {None}, promoted : BOOLEAN]
    /\ \A b \in Bundles : record[b].life \in Lifecycles
    /\ trials \in [Candidates -> [Units -> Outcomes \cup {None}]]
    /\ marker \in [Candidates -> Bundles \cup {None}]
    /\ \A c \in Candidates : neg[c] = None \/ neg[c].kind \in
          {"rejected", "inconclusive", "stale", "blocked"}
    /\ \A c \in Candidates : risk[c] = None \/ risk[c].status \in
          {"reserved", "authorized", "blocked", "rejected", "inconclusive"}
    /\ planned \subseteq Candidates

(* A candidate is served only with a complete case: its evidence still     *)
(* evaluates to confirmed, and the campaign's gate, consulted in another   *)
(* critical section under another lock, has authorized exactly it.         *)
ServedIsEarned ==
    ptr.bundle \in Candidates =>
        /\ evaluate_matched_trials(trials[ptr.bundle]) = "confirmed"
        /\ risk[ptr.bundle] # None
        /\ risk[ptr.bundle].status = "authorized"
        /\ risk[ptr.bundle].seen = trials[ptr.bundle]

(* The store never says of a bundle that was promoted and is being served  *)
(* that it was rejected, although coordinators reject candidates from      *)
(* states they looked at before, and although the promotion's lifecycle    *)
(* mirrors may be missing.  Nor of one that a rollback restored, as long   *)
(* as the mirrors of one operation at most were lost: when both that of    *)
(* its promotion and that of its successor's are, it is still on record as *)
(* confirmed, is dismissed as stale, and remains the rollback target.      *)
ServedIsNotRejected ==
    ptr.promoted \/ faults < 2 =>
        /\ record[ptr.bundle].life # "rejected"
        /\ ptr.bundle \in Candidates => neg[ptr.bundle] = None

(* Candidates of one campaign are evaluated on disjoint fixtures: a later  *)
(* candidate never sees a fixture whose outcome earlier ones revealed.     *)
FixturesFresh ==
    \A c, d \in Candidates :
        c # d /\ trials[c] # NoTrials /\ trials[d] # NoTrials
            => Fixtures[c] \cap Fixtures[d] = {}

(* However often and by whomever a candidate is resumed, it spends one     *)
(* share of the campaign's alpha.                                          *)
AlphaSpentOnce ==
    /\ \A i, j \in DOMAIN spent : i # j => spent[i] # spent[j]
    /\ \A c \in Candidates :
          (\E i \in DOMAIN spent : spent[i] = c) <=> risk[c] # None

Promotes(c) == ptr.bundle # c /\ ptr'.bundle = c /\ ptr'.promoted

(* A candidate with a stale marker or a negative result is out for good,   *)
(* even when a rollback makes its parent the served bundle again and a     *)
(* coordinator that passed every check before is about to promote it.      *)
DismissedStaysOut ==
    [][\A c \in Candidates :
         marker[c] # None \/ neg[c] # None => ~Promotes(c)]_vars

(* A bundle that was served and superseded comes back by a rollback only,  *)
(* never by the promotion some coordinator still has in hand.              *)
SupersededIsOnlyRestored ==
    [][\A c \in Candidates : record[c].life = "superseded" =>
         /\ ~Promotes(c)
         /\ record'[c].life \in {"superseded", "active"}]_vars

(* Recorded pairs are never changed, and once a candidate is decided its   *)
(* evidence is complete: the pair a second coordinator still had under     *)
(* evaluation is refused.                                                  *)
EvidenceIsKept ==
    [][\A c \in Candidates :
         /\ \A u \in Units : trials[c][u] # None => trials'[c][u] = trials[c][u]
         /\ record[c].life \in {"confirmed", "rejected", "active", "superseded"}
               => trials'[c] = trials[c]]_vars

Unsettled(c) == c \in Candidates /\ record[c].life \in Pending

(* Every pending candidate is settled: promoted or rejected.               *)
PendingSettles ==
    \A c \in UNION {s.Candidates : s \in Scopes} : Unsettled(c) ~> ~Unsettled(c)

(* What is served: it has earned it, and nothing in the store denies it.   *)
BundleInv == TypeOK /\ ServedIsEarned /\ ServedIsNotRejected

(* A campaign's statistical resources are used once.                       *)
SpentOnce == FixturesFresh /\ AlphaSpentOnce

(* Decisions stand: neither evidence nor what followed from it is undone.  *)
DecisionsStand == DismissedStaysOut /\ SupersededIsOnlyRestored /\ EvidenceIsKept

=============================================================================
