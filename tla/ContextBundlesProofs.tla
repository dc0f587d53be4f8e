------------------------ MODULE ContextBundlesProofs ------------------------
(***************************************************************************)
(* Proofs about ContextBundles, for any bundles, candidates, coordinators, *)
(* evaluation units, policies and numbers of faults, rollbacks and epochs. *)
(*                                                                         *)
(* The inductive invariant has a part about the store and the campaign,    *)
(* candidate by candidate, and a part about what a coordinator may rely on *)
(* at each of its points.  The second survives the steps of the others     *)
(* because nothing is ever taken back: a decided candidate stays decided   *)
(* and keeps its evidence, an authorization stands, a loss stays a loss, a *)
(* marker stays (Progress).                                                *)
(***************************************************************************)
EXTENDS ContextBundles, FiniteSetTheorems, WellFoundedInduction, TLAPS

Evidence == [Units -> Outcomes \cup {None}]
Comparisons == {"needs_screen", "needs_confirmation", "needs_heldout", "rejected", "inconclusive", "confirmed"}
Whys == Bundles \cup {None, "gate", "comparison"} \cup Evidence
RiskEntries == [status : {"reserved", "authorized", "blocked", "rejected", "inconclusive"}, reason : Whys, seen : Whys]
NegEntries == [kind : {"rejected", "inconclusive", "stale", "blocked"}, why : Whys]

Points == {"idle", "recover", "reserve", "fixtures", "load", "replay", "unit", "evaluate", "explain", "decide",
           "reject", "begin", "stale_risk", "stale_explain", "stale_finalize", "audit", "authorize",
           "blocked_explain", "promote"}

Coordinators == [pc : Points, cand : Candidates \cup {None}, cmp : Comparisons \cup {None}, life : Lifecycles,
                 todo : SUBSET Units, unit : Units \cup {0}, after : {"none", "reserve", "audit", "promote"}]

StoreTypes ==
    /\ scope \in Scopes
    /\ ptr \in [bundle : Bundles, target : Bundles \cup {None}, promoted : BOOLEAN]
    /\ record \in [Bundles -> [life : Lifecycles, seen : Evidence]]
    /\ trials \in [Candidates -> Evidence]
    /\ marker \in [Candidates -> Bundles \cup {None}]
    /\ neg \in [Candidates -> NegEntries \cup {None}]
    /\ spent \in Seq(Candidates)
    /\ risk \in [Candidates -> RiskEntries \cup {None}]
    /\ planned \subseteq Candidates
    /\ faults \in Nat

-----------------------------------------------------------------------------
Life(c) == record[c].life
Decided(c) == Life(c) \in {"confirmed", "rejected", "active", "superseded"}
WasServed(c) == Life(c) \in {"active", "superseded"}
Authorized(c) == risk[c] # None /\ risk[c].status = "authorized"
Refused(c) == risk[c] # None /\ risk[c].status \notin {"reserved", "authorized"}
Confirms(c) == evaluate_matched_trials(trials[c]) = "confirmed"
Doomed(c) == ~Above(trials[c]) \/ (Decided(c) /\ ~Confirms(c))

FixturesHeld ==
    /\ \A c, d \in planned : c # d => Fixtures[c] \cap Fixtures[d] = {}
    /\ \A c \in Candidates : trials[c] # NoTrials => c \in planned

RiskHeld == \A c \in Candidates : Life(c) \notin {"absent", "proposed"} => risk[c] # None

AuthorizedIsDecided == \A c \in Candidates : Authorized(c) => Decided(c) /\ risk[c].seen = trials[c]

NegativeHasReason == \A c \in Candidates : neg[c] # None => marker[c] # None \/ Doomed(c) \/ Refused(c)

(* The served bundle and the rollback target have earned it, and a denial  *)
(* of either needs two faults.                                             *)
Pointed(c) == c \in Candidates /\ c \in {ptr.bundle, ptr.target}

PointerEarned ==
    /\ \A c \in Candidates : Pointed(c) => Authorized(c) /\ Confirms(c)
    /\ ptr.promoted => ptr.bundle \in Candidates /\ ptr.target = Parent[ptr.bundle]
    /\ ptr.bundle # ptr.target

PointerUndenied ==
    /\ \A c \in Candidates : Pointed(c) =>
          /\ marker[c] # None => faults >= 2 /\ ~(c = ptr.bundle /\ ptr.promoted)
          /\ Life(c) = "rejected" => marker[c] # None
    /\ ptr.bundle \in Candidates /\ ~WasServed(ptr.bundle) => faults >= 1 /\ (ptr.promoted \/ faults >= 2)
    /\ ptr.target \in Candidates /\ ~WasServed(ptr.target) => faults >= 2
    /\ \A b \in Bundles \ Candidates : Life(b) \in {"absent", "active", "superseded"}

StoreOK == /\ StoreTypes /\ AlphaSpentOnce /\ FixturesHeld /\ RiskHeld /\ AuthorizedIsDecided
           /\ NegativeHasReason /\ PointerEarned /\ PointerUndenied

-----------------------------------------------------------------------------
(* What coordinator k, at its point, relies on.                            *)
Knows(k) ==
    /\ k \in Coordinators
    /\ k.pc # "idle" =>
        /\ k.cand \in Candidates
        /\ k.life = "active" => WasServed(k.cand)
        /\ k.life \in {"confirmed", "rejected", "active"} => Decided(k.cand)
    /\ k.pc = "evaluate" => k.unit \in Units
    /\ k.pc = "begin" => k.after # "none"
    /\ k.pc \in {"load", "replay", "unit", "evaluate"} => k.cand \in planned
    /\ k.pc \notin {"idle", "recover", "reserve"} => risk[k.cand] # None
    /\ k.pc \in {"audit", "authorize"} => Decided(k.cand)
    /\ k.pc = "promote" \/ (k.pc = "begin" /\ k.after = "promote") => Authorized(k.cand) \/ WasServed(k.cand)
    /\ k.pc \in {"explain", "decide"} => k.cmp \in {"rejected", "inconclusive"}
    /\ k.pc = "explain" => Doomed(k.cand)
    /\ k.pc = "blocked_explain" => Refused(k.cand)
    /\ k.pc = "reject" => k.cmp = "inconclusive" \/ Refused(k.cand)
    /\ k.pc \in {"stale_risk", "stale_explain", "stale_finalize"} => marker[k.cand] # None

CoordinatorsOK == co \in [Procs -> Coordinators] /\ \A p \in Procs : Knows(co[p])

Inv == StoreOK /\ CoordinatorsOK

(* Nothing is taken back.                                                  *)
Progress ==
    /\ \A c \in Candidates :
        /\ Decided(c) => Decided(c)' /\ trials'[c] = trials[c]
        /\ WasServed(c) => WasServed(c)'
        /\ risk[c] # None => risk'[c] # None
        /\ risk[c] # None /\ risk[c].status # "reserved" => risk'[c] = risk[c]
        /\ ~Above(trials[c]) => ~Above(trials'[c])
        /\ \A u \in Units : trials[c][u] # None => trials'[c][u] = trials[c][u]
        /\ marker[c] # None => marker'[c] = marker[c]
    /\ planned \subseteq planned'

-----------------------------------------------------------------------------
-----------------------------------------------------------------------------
(* A set of numbers that is not empty has a smallest element.              *)
LEMMA SmallestOfSet ==
    ASSUME NEW S \in SUBSET Nat, S # {}
    PROVE  \E u \in S : \A v \in S : u <= v
<1> DEFINE R == OpToRel(<, Nat)
<1>1. IsWellFoundedOn(R, Nat)
  BY NatLessThanWellFounded
<1>2. \A x, y \in Nat : <<y, x>> \in R <=> y < x
  BY DEF OpToRel
<1> HIDE DEF R
<1>3. PICK u \in S : \A v \in S : <<v, u>> \notin R
  BY <1>1, WFMin
<1>4. u \in Nat /\ \A v \in S : v \in Nat /\ ~(v < u)
  BY <1>2, <1>3
<1>5. \A v \in S : u <= v
  BY <1>4
<1> QED BY <1>5

(* The scope of a behaviour never changes, and what is read of it neither. *)
LEMMA ScopeStays ==
    ASSUME scope' = scope
    PROVE  /\ Candidates' = Candidates /\ Bundles' = Bundles /\ Procs' = Procs /\ Units' = Units
           /\ Outcomes' = Outcomes /\ Fixtures' = Fixtures /\ NoTrials' = NoTrials /\ Evidence' = Evidence
           /\ RiskEntries' = RiskEntries /\ NegEntries' = NegEntries /\ Coordinators' = Coordinators
BY DEF Candidates, Bundles, Procs, Units, Outcomes, Fixtures, Lane, NoTrials, Evidence, RiskEntries,
       NegEntries, Whys, Coordinators

LEMMA EvaluateStays ==
    ASSUME scope' = scope, NEW t
    PROVE  evaluate_matched_trials(t)' = evaluate_matched_trials(t) /\ Above(t)' = Above(t)
BY DEF evaluate_matched_trials, Above, Below, Count, Rows, PositiveEffect, Units, Lane, MaxConfirmation

LEMMA ScopeFacts ==
    ASSUME scope \in Scopes
    PROVE  /\ Candidates \subseteq Bundles /\ Base \in Bundles \ Candidates
           /\ \A c \in Candidates : Parent[c] # c /\ Parent[c] \in Bundles
           /\ None \notin Bundles /\ None \notin Outcomes /\ None \notin RiskEntries /\ None \notin NegEntries
           /\ IsFiniteSet(Units) /\ Units \subseteq Nat /\ GateOutcomes \subseteq BOOLEAN
BY ScopesAssumption, NoneAssumption
   DEF Candidates, Bundles, Outcomes, RiskEntries, NegEntries, Whys, Evidence, Units, Lane, GateOutcomes

(* The ladder of comparison.py: what it can say, and what its last two     *)
(* verdicts say of the confirmation pairs.                                 *)
LEMMA ComparisonSays ==
    ASSUME NEW t
    PROVE  /\ evaluate_matched_trials(t) \in Comparisons
           /\ evaluate_matched_trials(t) = "confirmed" => Above(t)
           /\ evaluate_matched_trials(t) = "inconclusive" => ~Above(t)
BY DEF evaluate_matched_trials, Comparisons

(* A confirmation pair that was lost stays lost when pairs are added.      *)
LEMMA LossStays ==
    ASSUME scope \in Scopes, NEW t, NEW u, \A x \in Units : t[x] # None => u[x] = t[x], ~Above(t)
    PROVE  ~Above(u)
<1> DEFINE Lost(e) == {x \in Rows(e, "confirmation") : e[x] = "loss"}
<1>1. \A e : Lost(e) \subseteq Units /\ IsFiniteSet(Lost(e))
  BY ScopeFacts, FS_Subset DEF Rows
<1>2. \A e : Above(e) <=> Lost(e) = {}
  BY <1>1, FS_EmptySet DEF Above, Count
<1>3. PICK x \in Units : x \in Lost(t)
  BY <1>1, <1>2
<1>4. x \in Lost(u)
  BY <1>3 DEF Rows
<1> QED BY <1>2, <1>4

LEMMA NoTrialsType == NoTrials \in Evidence
BY DEF NoTrials, Evidence

(* A coordinator's knowledge survives the steps of the others.             *)
LEMMA OthersKnow ==
    ASSUME scope' = scope, Progress, NEW k, Knows(k)
    PROVE  Knows(k)'
<1>1. CASE k.pc = "idle"
  BY <1>1, ScopeStays DEF Knows
<1>2. CASE k.pc # "idle"
  <2> DEFINE c == k.cand
  <2>1. c \in Candidates
    BY <1>2 DEF Knows
  <2>2. /\ Decided(c) => Decided(c)' /\ trials'[c] = trials[c]
        /\ WasServed(c) => WasServed(c)'
        /\ risk[c] # None => risk'[c] # None
        /\ Authorized(c) => Authorized(c)'
        /\ Refused(c) => Refused(c)'
        /\ marker[c] # None => marker'[c] # None
        /\ ~Above(trials[c]) => ~Above(trials'[c])
        /\ c \in planned => c \in planned'
    BY <2>1 DEF Progress, Authorized, Refused
  <2>3. Doomed(c) => Doomed(c)'
    BY <2>2, EvaluateStays DEF Doomed, Confirms
  <2> HIDE DEF c
  <2>4. k \in Coordinators' /\ c \in Candidates' /\ (k.unit \in Units => k.unit \in Units')
    BY <2>1, ScopeStays DEF Knows
  <2> QED BY <1>2, <2>2, <2>3, <2>4 DEF Knows, c
<1> QED BY <1>1, <1>2

LEMMA AtPoint ==
    ASSUME NEW k \in Coordinators, NEW v \in Points
    PROVE  LET m == [k EXCEPT !.pc = v]
           IN /\ m \in Coordinators /\ m.pc = v /\ m.cand = k.cand /\ m.cmp = k.cmp /\ m.life = k.life
              /\ m.todo = k.todo /\ m.unit = k.unit /\ m.after = k.after
BY DEF Coordinators

LEMMA AtPointCmp ==
    ASSUME NEW k \in Coordinators, NEW v \in Points, NEW a \in {"none", "reserve", "audit", "promote"},
           NEW d \in Comparisons
    PROVE  LET m == [k EXCEPT !.cmp = d, !.pc = v, !.after = a]
           IN /\ m \in Coordinators /\ m.pc = v /\ m.cand = k.cand /\ m.cmp = d /\ m.life = k.life
              /\ m.todo = k.todo /\ m.unit = k.unit /\ m.after = a
BY DEF Coordinators

LEMMA IdleType == Idle \in Coordinators /\ Idle.pc = "idle"
BY DEF Idle, Coordinators, Points, Lifecycles, Pending

-----------------------------------------------------------------------------
(* Steps that touch neither the store nor the campaign.                    *)
LEMMA QuietStore ==
    ASSUME StoreOK, scope' = scope, UNCHANGED <<store, campaign>>, faults' \in Nat, faults' >= faults
    PROVE  StoreOK' /\ Progress
<1> USE DEF store, campaign
<1>1. StoreTypes' /\ AlphaSpentOnce' /\ FixturesHeld' /\ RiskHeld'
  BY ScopeStays DEF StoreOK, StoreTypes, AlphaSpentOnce, FixturesHeld, RiskHeld, Life
<1>2. AuthorizedIsDecided' /\ NegativeHasReason' /\ PointerEarned'
  BY ScopeStays, EvaluateStays DEF StoreOK, AuthorizedIsDecided, NegativeHasReason, PointerEarned, Pointed, Life, Decided,
     Authorized, Refused, Doomed, Confirms
<1>3. PointerUndenied'
  BY ScopeStays DEF StoreOK, StoreTypes, PointerUndenied, Pointed, Life, WasServed
<1>4. Progress
  BY ScopeStays DEF Progress, Decided, WasServed, Life
<1> QED BY <1>1, <1>2, <1>3, <1>4 DEF StoreOK

LEMMA MoveOn ==
    ASSUME CoordinatorsOK, scope' = scope, Progress, NEW p \in Procs, NEW k, co' = [co EXCEPT ![p] = k], Knows(k)'
    PROVE  CoordinatorsOK'
<1>1. k \in Coordinators
  BY ScopeStays DEF Knows
<1>2. co' \in [Procs' -> Coordinators'] /\ \A q \in Procs' : co'[q] = IF q = p THEN k ELSE co[q]
  BY <1>1, ScopeStays DEF CoordinatorsOK
<1>3. \A q \in Procs : Knows(co[q])'
  BY <1>2, OthersKnow DEF CoordinatorsOK
<1> QED BY <1>2, <1>3 DEF CoordinatorsOK

LEMMA IdleKnows == Knows(Idle)
BY IdleType DEF Knows

LEMMA LeaveOK ==
    ASSUME CoordinatorsOK, scope' = scope, Progress, NEW p \in Procs, Leave(p)
    PROVE  CoordinatorsOK'
<1>1. Idle' = Idle
  BY ScopeStays DEF Idle
<1>2. Knows(Idle)'
  BY IdleKnows, <1>1, PTL
<1>3. co' = [co EXCEPT ![p] = Idle]
  BY DEF Leave
<1> HIDE DEF Idle
<1> QED BY <1>1, <1>2, <1>3, MoveOn
-----------------------------------------------------------------------------
LEMMA QuietStep ==
    ASSUME Inv, scope' = scope, UNCHANGED <<store, campaign>>, faults' \in Nat, faults' >= faults,
           NEW p \in Procs, NEW k, co' = [co EXCEPT ![p] = k], Knows(k)'
    PROVE  Inv' /\ Progress
BY QuietStore, MoveOn DEF Inv

LEMMA Unmoved ==
    ASSUME Inv, scope' = scope, UNCHANGED <<store, campaign>>, NEW k
    PROVE  Knows(k)' <=> Knows(k)
BY ScopeStays, EvaluateStays
   DEF Knows, store, campaign, WasServed, Decided, Life, Authorized, Refused, Doomed, Confirms

LEMMA StartKnows ==
    ASSUME Inv, NEW c \in Candidates
    PROVE  Knows([Idle EXCEPT !.pc = "recover", !.cand = c])
<1> DEFINE k == [Idle EXCEPT !.pc = "recover", !.cand = c]
<1>1. k \in Coordinators /\ k.pc = "recover" /\ k.cand = c /\ k.life = "absent"
  BY DEF Idle, Coordinators, Points, Lifecycles, Pending
<1> HIDE DEF k
<1>2. Knows(k)
  BY <1>1 DEF Knows
<1> QED BY <1>2 DEF k

LEMMA ResumeStep ==
    ASSUME Inv, scope' = scope, NEW p \in Procs, NEW c \in Candidates, resume_pending_context_candidate(p, c)
    PROVE  Inv' /\ Progress
<1> DEFINE k == [Idle EXCEPT !.pc = "recover", !.cand = c]
<1>1. /\ UNCHANGED <<store, campaign>> /\ faults' = faults
      /\ co' = [co EXCEPT ![p] = k]
  BY DEF resume_pending_context_candidate, Start, budgets
<1>2. Knows(k)'
  BY <1>1, StartKnows, Unmoved
<1>3. faults' \in Nat /\ faults' >= faults
  BY <1>1 DEF Inv, StoreOK, StoreTypes
<1> HIDE DEF k
<1> QED BY <1>1, <1>2, <1>3, QuietStep

LEMMA RecoverStep ==
    ASSUME Inv, scope' = scope, NEW p \in Procs, recover_stale_confirmed_candidate(p)
    PROVE  Inv' /\ Progress
<1> DEFINE c == co[p].cand
           stale == Life(c) = "confirmed" /\ (marker[c] # None \/ IsStale(c))
           k == IF stale THEN [co[p] EXCEPT !.pc = "begin", !.after = "reserve"] ELSE [co[p] EXCEPT !.pc = "reserve"]
<1>1. /\ UNCHANGED <<store, campaign>> /\ faults' = faults /\ co[p].pc = "recover"
      /\ co' = [co EXCEPT ![p] = k]
  BY DEF recover_stale_confirmed_candidate, Goto, budgets, Life
<1>2. Knows(co[p]) /\ co[p] \in Coordinators /\ c \in Candidates
  BY <1>1 DEF Inv, CoordinatorsOK, Knows
<1>3. stale => risk[c] # None
  BY <1>2 DEF Inv, StoreOK, RiskHeld
<1> HIDE DEF stale
<1>5. /\ k \in Coordinators /\ k.cand = c /\ k.life = co[p].life
      /\ k.pc \in {"begin", "reserve"} /\ (k.pc = "begin" => stale /\ k.after = "reserve")
  <2>1. CASE stale
    BY <1>2, <2>1 DEF Coordinators, Points
  <2>2. CASE ~stale
    BY <1>2, <2>2 DEF Coordinators, Points
  <2> QED BY <2>1, <2>2
<1> HIDE DEF k
<1>6. Knows(k)
  BY <1>1, <1>2, <1>3, <1>5 DEF Knows
<1>7. faults' \in Nat /\ faults' >= faults
  BY <1>1 DEF Inv, StoreOK, StoreTypes
<1> QED BY <1>1, <1>6, <1>7, QuietStep, Unmoved

LEMMA LoadStep ==
    ASSUME Inv, scope' = scope, NEW p \in Procs, LoadEvidence(p)
    PROVE  Inv' /\ Progress
<1> DEFINE c == co[p].cand
           T == {u \in Units : trials[c][u] = None}
           v == IF trials[c] = NoTrials THEN "unit" ELSE "replay"
           k == [co[p] EXCEPT !.pc = v, !.life = record[c].life, !.todo = T]
<1>1. /\ UNCHANGED <<store, campaign>> /\ faults' = faults /\ co[p].pc = "load"
      /\ co' = [co EXCEPT ![p] = k]
  BY DEF LoadEvidence, budgets
<1>2. Knows(co[p]) /\ co[p] \in Coordinators /\ c \in Candidates /\ c \in Bundles /\ record[c].life \in Lifecycles
  BY <1>1, ScopeFacts DEF Inv, CoordinatorsOK, Knows, StoreOK, StoreTypes
<1>3. T \in SUBSET Units /\ v \in {"unit", "replay"}
  OBVIOUS
<1> HIDE DEF T, v
<1>5. k \in Coordinators /\ k.cand = c /\ k.life = record[c].life /\ k.pc = v
  BY <1>2, <1>3 DEF Coordinators, Points
<1> HIDE DEF k
<1>6. Knows(k)
  BY <1>1, <1>2, <1>3, <1>5 DEF Knows, WasServed, Decided, Life
<1>7. faults' \in Nat /\ faults' >= faults
  BY <1>1 DEF Inv, StoreOK, StoreTypes
<1> QED BY <1>1, <1>6, <1>7, QuietStep, Unmoved

LEMMA ChooseStep ==
    ASSUME Inv, scope' = scope, NEW p \in Procs, ChooseUnit(p)
    PROVE  Inv' /\ Progress
<1> DEFINE ready == {u \in co[p].todo : Eligible(u, co[p].cmp, trials[co[p].cand])}
           next == CHOOSE u \in ready : \A v \in ready : u <= v
           T == {u \in co[p].todo : u > next}
           k == [co[p] EXCEPT !.pc = "evaluate", !.unit = next, !.todo = T]
<1>1. /\ UNCHANGED <<store, campaign>> /\ faults' = faults /\ co[p].pc = "unit"
  BY DEF ChooseUnit, budgets
<1>2. Knows(co[p]) /\ co[p] \in Coordinators
  BY <1>1 DEF Inv, CoordinatorsOK, Knows
<1>7. faults' \in Nat /\ faults' >= faults
  BY <1>1 DEF Inv, StoreOK, StoreTypes
<1>3. CASE ready = {}
  <2>1. Leave(p)
    BY <1>3 DEF ChooseUnit
  <2> QED BY <1>1, <1>7, <2>1, LeaveOK, QuietStore DEF Inv
<1>4. CASE ready # {}
  <2>1. co' = [co EXCEPT ![p] = k]
    BY <1>4 DEF ChooseUnit
  <2>2. ready \subseteq Nat /\ ready \subseteq Units /\ T \in SUBSET Units
    BY <1>2, ScopeFacts DEF Coordinators, Inv, StoreOK, StoreTypes
  <2>3. next \in Units
    <3>1. \E u \in ready : \A v \in ready : u <= v
      BY <1>4, <2>2, SmallestOfSet
    <3> HIDE DEF ready
    <3> QED BY <2>2, <3>1
  <2> HIDE DEF T, next
  <2>4. k \in Coordinators /\ k.cand = co[p].cand /\ k.life = co[p].life /\ k.pc = "evaluate" /\ k.unit = next
    BY <1>2, <2>2, <2>3 DEF Coordinators, Points
  <2> HIDE DEF k
  <2>5. Knows(k)
    BY <1>1, <1>2, <2>3, <2>4 DEF Knows
  <2> QED BY <1>1, <1>7, <2>1, <2>5, QuietStep, Unmoved
<1> QED BY <1>3, <1>4

LEMMA AuditStep ==
    ASSUME Inv, scope' = scope, NEW p \in Procs, AuditPasses(p)
    PROVE  Inv' /\ Progress
<1> DEFINE k == [co[p] EXCEPT !.pc = "authorize"]
<1>1. /\ UNCHANGED <<store, campaign>> /\ faults' = faults /\ co[p].pc = "audit"
      /\ co' = [co EXCEPT ![p] = k]
  BY DEF AuditPasses, Goto, budgets
<1>2. Knows(co[p]) /\ co[p] \in Coordinators
  BY <1>1 DEF Inv, CoordinatorsOK, Knows
<1>3. k \in Coordinators /\ k.cand = co[p].cand /\ k.life = co[p].life /\ k.pc = "authorize"
  BY <1>2, AtPoint DEF Points
<1> HIDE DEF k
<1>4. Knows(k)
  BY <1>1, <1>2, <1>3 DEF Knows
<1>5. faults' \in Nat /\ faults' >= faults
  BY <1>1 DEF Inv, StoreOK, StoreTypes
<1> QED BY <1>1, <1>4, <1>5, QuietStep, Unmoved

LEMMA StopStep ==
    ASSUME Inv, scope' = scope, NEW p \in Procs, Stop(p)
    PROVE  Inv' /\ Progress
<1>1. UNCHANGED <<store, campaign>> /\ faults' = faults + 1 /\ Leave(p)
  BY DEF Stop, Fault
<1>2. faults' \in Nat /\ faults' >= faults
  BY <1>1 DEF Inv, StoreOK, StoreTypes
<1> QED BY <1>1, <1>2, QuietStore, LeaveOK DEF Inv

-----------------------------------------------------------------------------
(* How a coordinator moves on.                                             *)
LEMMA GotoOK ==
    ASSUME CoordinatorsOK, scope' = scope, Progress, NEW p \in Procs, co[p].pc # "idle",
           NEW c, c = co[p].cand, NEW v \in Points \ {"idle", "evaluate", "begin"}, Goto(p, v),
           v \in {"load", "replay", "unit"} => c \in planned',
           v \notin {"recover", "reserve"} => risk'[c] # None,
           v \in {"audit", "authorize"} => Decided(c)',
           v = "promote" => Authorized(c)' \/ WasServed(c)',
           v \in {"explain", "decide"} => co[p].cmp \in {"rejected", "inconclusive"},
           v = "explain" => Doomed(c)',
           v = "blocked_explain" => Refused(c)',
           v = "reject" => co[p].cmp = "inconclusive" \/ Refused(c)',
           v \in {"stale_risk", "stale_explain", "stale_finalize"} => marker'[c] # None
    PROVE  CoordinatorsOK'
<1>1. PICK k : k = [co[p] EXCEPT !.pc = v]
  OBVIOUS
<1>2. co' = [co EXCEPT ![p] = k]
  BY <1>1 DEF Goto
<1>3. PICK m : m = co[p]
  OBVIOUS
<1>4. Knows(m) /\ m \in Coordinators
  BY <1>3 DEF CoordinatorsOK
<1>5. Knows(m)'
  BY <1>4, OthersKnow
<1>6. k \in Coordinators /\ k.pc = v /\ k.cand = c /\ k.cmp = m.cmp /\ k.life = m.life
  BY <1>1, <1>3, <1>4, AtPoint
<1>7. Knows(k)'
  BY <1>3, <1>5, <1>6, ScopeStays DEF Knows
<1> QED BY <1>2, <1>7, MoveOn

LEMMA BeginAfterOK ==
    ASSUME CoordinatorsOK, scope' = scope, Progress, NEW p \in Procs, co[p].pc # "idle",
           NEW c, c = co[p].cand, NEW a \in {"reserve", "promote"},
           co' = [co EXCEPT ![p].pc = "begin", ![p].after = a],
           risk'[c] # None, a = "promote" => Authorized(c)'
    PROVE  CoordinatorsOK'
<1>1. PICK k : k = [co[p] EXCEPT !.pc = "begin", !.after = a]
  OBVIOUS
<1>2. co' = [co EXCEPT ![p] = k]
  BY <1>1
<1>3. PICK m : m = co[p]
  OBVIOUS
<1>4. Knows(m) /\ m \in Coordinators
  BY <1>3 DEF CoordinatorsOK
<1>5. Knows(m)'
  BY <1>4, OthersKnow
<1>6. k \in Coordinators /\ k.pc = "begin" /\ k.cand = c /\ k.cmp = m.cmp /\ k.life = m.life /\ k.after = a
  BY <1>1, <1>3, <1>4 DEF Coordinators, Points
<1>7. Knows(k)'
  BY <1>3, <1>5, <1>6, ScopeStays DEF Knows
<1> QED BY <1>2, <1>7, MoveOn

LEMMA FollowOK ==
    ASSUME CoordinatorsOK, scope' = scope, Progress, NEW p \in Procs, co[p].pc # "idle",
           NEW c, c = co[p].cand, NEW d \in Comparisons, Follow(p, d),
           c \in planned', risk'[c] # None, d \in {"rejected", "inconclusive"} => Doomed(c)'
    PROVE  CoordinatorsOK'
<1>1. PICK m : m = co[p]
  OBVIOUS
<1>2. Knows(m) /\ m \in Coordinators
  BY <1>1 DEF CoordinatorsOK
<1>3. Knows(m)'
  BY <1>2, OthersKnow
<1>4. PICK v, a :
        /\ v = CASE d \in {"rejected", "inconclusive"} -> "explain"
                 [] d = "confirmed" /\ m.life = "active" -> "promote"
                 [] d = "confirmed" /\ m.life # "active" -> "begin"
                 [] OTHER -> "unit"
        /\ a = IF d = "confirmed" THEN "audit" ELSE m.after
  OBVIOUS
<1>5. co' = [co EXCEPT ![p] = [m EXCEPT !.cmp = d, !.pc = v, !.after = a]]
  BY <1>1, <1>4 DEF Follow
<1>6. /\ v \in {"explain", "promote", "begin", "unit"}
      /\ v = "explain" => d \in {"rejected", "inconclusive"}
      /\ v = "promote" => m.life = "active"
      /\ v = "begin" => a = "audit"
      /\ a \in {"none", "reserve", "audit", "promote"}
      /\ v \in Points
  BY <1>2, <1>4 DEF Coordinators, Points
<1>7. PICK k : k = [m EXCEPT !.cmp = d, !.pc = v, !.after = a]
  OBVIOUS
<1>8. k \in Coordinators /\ k.pc = v /\ k.cand = m.cand /\ k.cmp = d /\ k.life = m.life /\ k.after = a
  <2>1. m \in Coordinators /\ v \in Points /\ a \in {"none", "reserve", "audit", "promote"} /\ d \in Comparisons
    BY <1>2, <1>6
  <2> QED BY <1>7, <2>1 DEF Coordinators
<1>9. Knows(k)'
  BY <1>1, <1>3, <1>6, <1>8, ScopeStays DEF Knows
<1> QED BY <1>5, <1>7, <1>9, MoveOn

(* The coordinator that takes a step, and its candidate.                   *)
LEMMA Mover ==
    ASSUME Inv, NEW p \in Procs, co[p].pc # "idle"
    PROVE  /\ Knows(co[p]) /\ co[p] \in Coordinators /\ CoordinatorsOK
           /\ co[p].cand \in Candidates /\ co[p].cand \in Bundles /\ scope \in Scopes
           /\ co[p].pc \notin {"recover", "reserve"} => risk[co[p].cand] # None /\ risk[co[p].cand] \in RiskEntries
BY ScopeFacts DEF Inv, CoordinatorsOK, Knows, StoreOK, StoreTypes

-----------------------------------------------------------------------------
(* Steps of the campaign: reservations, verdicts and fixture plans.        *)
LEMMA RiskStep ==
    ASSUME StoreOK, scope' = scope, UNCHANGED <<store, planned, faults>>,
           risk' \in [Candidates -> RiskEntries \cup {None}], spent' \in Seq(Candidates), AlphaSpentOnce',
           \A d \in Candidates :
              /\ risk[d] # None => risk'[d] # None
              /\ risk[d] # None /\ risk[d].status # "reserved" => risk'[d] = risk[d]
              /\ Authorized(d)' => Decided(d) /\ risk'[d].seen = trials[d]
    PROVE  StoreOK' /\ Progress
<1> USE DEF store
<1>1. StoreTypes' /\ FixturesHeld' /\ RiskHeld'
  BY ScopeStays DEF StoreOK, StoreTypes, FixturesHeld, RiskHeld, Life
<1>2. AuthorizedIsDecided'
  BY ScopeStays DEF AuthorizedIsDecided, Decided, Life
<1>3. \A d \in Candidates : (Authorized(d) => Authorized(d)') /\ (Refused(d) => Refused(d)')
  BY DEF Authorized, Refused
<1>4. NegativeHasReason' /\ PointerEarned'
  BY <1>3, ScopeStays, EvaluateStays DEF StoreOK, NegativeHasReason, PointerEarned, Pointed, Life, Decided, Doomed, Confirms
<1>5. PointerUndenied'
  BY ScopeStays DEF StoreOK, PointerUndenied, Pointed, Life, WasServed
<1>6. Progress
  BY ScopeStays DEF Progress, Decided, WasServed, Life
<1> QED BY <1>1, <1>2, <1>4, <1>5, <1>6 DEF StoreOK

LEMMA ReserveStep ==
    ASSUME Inv, scope' = scope, NEW p \in Procs, reserve_confirmation_policy(p)
    PROVE  Inv' /\ Progress
<1>1. /\ UNCHANGED <<store, planned, faults>> /\ co[p].pc = "reserve" /\ Goto(p, "fixtures")
  BY DEF reserve_confirmation_policy, budgets
<1>2. PICK c \in Candidates : c = co[p].cand
  BY <1>1, Mover
<1>3. CoordinatorsOK /\ StoreOK /\ StoreTypes
  BY DEF Inv, StoreOK
<1>4. CASE risk[c] # None
  <2>1. UNCHANGED <<store, campaign>> /\ faults' = faults
    BY <1>1, <1>2, <1>4 DEF reserve_confirmation_policy, campaign
  <2>2. StoreOK' /\ Progress
    BY <1>3, <2>1, QuietStore DEF StoreTypes
  <2>3. risk'[c] # None
    BY <1>4, <2>1 DEF campaign
  <2> QED BY <1>1, <1>2, <1>3, <2>2, <2>3, GotoOK DEF Inv, Points
<1>5. CASE risk[c] = None
  <2> DEFINE entry == [status |-> "reserved", reason |-> None, seen |-> None]
  <2>1. spent' = Append(spent, c) /\ risk' = [risk EXCEPT ![c] = entry]
    BY <1>2, <1>5 DEF reserve_confirmation_policy
  <2>2. entry \in RiskEntries /\ entry # None /\ entry.status = "reserved"
    BY <1>3, ScopeFacts DEF RiskEntries, Whys, StoreTypes
  <2> HIDE DEF entry
  <2>3. risk' \in [Candidates -> RiskEntries \cup {None}] /\ spent' \in Seq(Candidates)
    BY <1>3, <2>1, <2>2 DEF StoreTypes
  <2>4. \A d \in Candidates : risk'[d] = IF d = c THEN entry ELSE risk[d]
    BY <1>3, <2>1 DEF StoreTypes
  <2>5. AlphaSpentOnce'
    <3>1. Len(spent) \in Nat /\ DOMAIN spent = 1 .. Len(spent) /\ DOMAIN spent' = 1 .. Len(spent) + 1
          /\ spent'[Len(spent) + 1] = c /\ \A i \in DOMAIN spent : spent'[i] = spent[i]
      BY <1>3, <2>1 DEF StoreTypes
    <3>2. \A i \in DOMAIN spent : spent[i] # c
      BY <1>3, <1>5 DEF StoreOK, AlphaSpentOnce
    <3>3. \A i, j \in DOMAIN spent' : i # j => spent'[i] # spent'[j]
      BY <1>3, <3>1, <3>2 DEF StoreOK, AlphaSpentOnce
    <3>4. ASSUME NEW d \in Candidates
          PROVE  (\E i \in DOMAIN spent' : spent'[i] = d) <=> risk'[d] # None
      <4>1. CASE d = c
        BY <2>2, <2>4, <3>1, <4>1
      <4>2. CASE d # c
        BY <1>3, <2>4, <3>1, <4>2 DEF StoreOK, AlphaSpentOnce
      <4> QED BY <4>1, <4>2
    <3> QED BY <3>3, <3>4, ScopeStays DEF AlphaSpentOnce
  <2>6. \A d \in Candidates : /\ risk[d] # None => risk'[d] # None
                              /\ risk[d] # None /\ risk[d].status # "reserved" => risk'[d] = risk[d]
                              /\ Authorized(d)' => Decided(d) /\ risk'[d].seen = trials[d]
    BY <1>3, <1>5, <2>2, <2>4 DEF Authorized, StoreOK, AuthorizedIsDecided
  <2>7. StoreOK' /\ Progress
    BY <1>1, <1>3, <2>3, <2>5, <2>6, RiskStep
  <2>8. risk'[c] # None
    BY <2>2, <2>4
  <2> QED BY <1>1, <1>2, <1>3, <2>7, <2>8, GotoOK DEF Inv, Points
<1> QED BY <1>4, <1>5

LEMMA FixtureStep ==
    ASSUME Inv, scope' = scope, NEW p \in Procs, reserve_fixture_plan(p)
    PROVE  Inv' /\ Progress
<1>1. /\ UNCHANGED <<store, spent, risk, faults>> /\ co[p].pc = "fixtures"
  BY DEF reserve_fixture_plan, budgets
<1>2. PICK c \in Candidates : c = co[p].cand
  BY <1>1, Mover
<1>3. CoordinatorsOK /\ StoreOK /\ StoreTypes /\ risk[c] # None
  BY <1>1, <1>2, Mover DEF Inv, StoreOK
<1>4. CASE c \notin planned /\ Occupied(c)
  <2>1. UNCHANGED <<store, campaign>> /\ faults' = faults /\ Leave(p)
    BY <1>1, <1>2, <1>4 DEF reserve_fixture_plan, campaign
  <2> QED BY <1>3, <2>1, QuietStore, LeaveOK DEF Inv, StoreTypes
<1>5. CASE ~(c \notin planned /\ Occupied(c))
  <2>1. Goto(p, "load") /\ planned' = planned \cup {c}
    BY <1>2, <1>5 DEF reserve_fixture_plan
  <2>2. FixturesHeld'
    <3>1. \A d \in planned : d # c => Fixtures[d] \cap Fixtures[c] = {}
      BY <1>3, <1>5 DEF Occupied, StoreOK, FixturesHeld
    <3> QED BY <1>1, <1>3, <2>1, <3>1, ScopeStays DEF StoreOK, FixturesHeld, store
  <2>3. StoreTypes' /\ AlphaSpentOnce' /\ RiskHeld'
    BY <1>1, <1>3, <2>1, ScopeStays DEF StoreOK, StoreTypes, AlphaSpentOnce, RiskHeld, Life, store
  <2>4. AuthorizedIsDecided' /\ NegativeHasReason' /\ PointerEarned'
    BY <1>1, <1>3, ScopeStays, EvaluateStays DEF StoreOK, AuthorizedIsDecided, NegativeHasReason, PointerEarned,
       Pointed, Life, Decided, Authorized, Refused, Doomed, Confirms, store
  <2>5. PointerUndenied'
    BY <1>1, <1>3, ScopeStays DEF StoreOK, PointerUndenied, Pointed, Life, WasServed, store
  <2>6. Progress
    BY <1>1, <2>1, ScopeStays DEF Progress, Decided, WasServed, Life, store
  <2>7. StoreOK'
    BY <2>2, <2>3, <2>4, <2>5 DEF StoreOK
  <2>8. risk'[c] # None /\ c \in planned'
    BY <1>1, <1>3, <2>1
  <2> QED BY <1>1, <1>2, <1>3, <2>1, <2>6, <2>7, <2>8, GotoOK DEF Inv, Points
<1> QED BY <1>4, <1>5

(* A reservation gets its verdict once.                                    *)
LEMMA VerdictStep ==
    ASSUME StoreOK, scope' = scope, UNCHANGED <<store, spent, planned, faults>>, NEW c \in Candidates, risk[c] # None,
           NEW e \in RiskEntries, e.status = "authorized" => Decided(c) /\ e.seen = trials[c],
           risk' = IF risk[c].status = "reserved" THEN [risk EXCEPT ![c] = e] ELSE risk
    PROVE  StoreOK' /\ Progress /\ risk'[c] # None /\ risk'[c] = IF risk[c].status = "reserved" THEN e ELSE risk[c]
<1>1. StoreTypes /\ AlphaSpentOnce /\ AuthorizedIsDecided /\ e # None
  BY ScopeFacts DEF StoreOK, StoreTypes
<1>2. \A d \in Candidates : risk'[d] = IF d = c /\ risk[c].status = "reserved" THEN e ELSE risk[d]
  BY <1>1 DEF StoreTypes
<1>3. risk' \in [Candidates -> RiskEntries \cup {None}] /\ spent' \in Seq(Candidates)
  BY <1>1 DEF StoreTypes
<1>4. \A d \in Candidates : risk'[d] # None <=> risk[d] # None
  BY <1>1, <1>2
<1>5. AlphaSpentOnce'
  BY <1>1, <1>4, ScopeStays DEF AlphaSpentOnce
<1>6. \A d \in Candidates : /\ risk[d] # None /\ risk[d].status # "reserved" => risk'[d] = risk[d]
                            /\ Authorized(d)' => Decided(d) /\ risk'[d].seen = trials[d]
  BY <1>1, <1>2 DEF Authorized, AuthorizedIsDecided
<1> QED BY <1>2, <1>3, <1>4, <1>5, <1>6, RiskStep

LEMMA DecideStep ==
    ASSUME Inv, scope' = scope, NEW p \in Procs, record_terminal_decision(p)
    PROVE  Inv' /\ Progress
<1>1. UNCHANGED <<store, spent, planned, faults>> /\ co[p].pc = "decide"
  BY DEF record_terminal_decision, budgets
<1>2. PICK c \in Candidates : c = co[p].cand
  BY <1>1, Mover
<1>3. CoordinatorsOK /\ StoreOK /\ StoreTypes /\ risk[c] # None /\ co[p].cmp \in {"rejected", "inconclusive"}
  BY <1>1, <1>2, Mover DEF Inv, StoreOK, Knows
<1>4. PICK e : e = [status |-> co[p].cmp, reason |-> "comparison", seen |-> None]
  OBVIOUS
<1>5. risk' = IF risk[c].status = "reserved" THEN [risk EXCEPT ![c] = e] ELSE risk
  BY <1>2, <1>4 DEF record_terminal_decision
<1>6. e \in RiskEntries /\ e.status # "authorized"
  BY <1>3, <1>4 DEF RiskEntries, Whys
<1>7. StoreOK' /\ Progress /\ risk'[c] # None
  BY <1>1, <1>3, <1>5, <1>6, VerdictStep
<1>8. (co[p].cmp = "inconclusive" /\ Goto(p, "reject")) \/ Leave(p)
  BY DEF record_terminal_decision
<1>9. CoordinatorsOK'
  BY <1>1, <1>2, <1>3, <1>7, <1>8, GotoOK, LeaveOK DEF Points
<1> QED BY <1>7, <1>9 DEF Inv

LEMMA StaleRiskStep ==
    ASSUME Inv, scope' = scope, NEW p \in Procs, reject_stale_risk_reservation(p)
    PROVE  Inv' /\ Progress
<1>1. UNCHANGED <<store, spent, planned, faults>> /\ co[p].pc = "stale_risk"
  BY DEF reject_stale_risk_reservation, budgets
<1>2. PICK c \in Candidates : c = co[p].cand
  BY <1>1, Mover
<1>3. CoordinatorsOK /\ StoreOK /\ StoreTypes /\ risk[c] # None /\ marker[c] # None
  BY <1>1, <1>2, Mover DEF Inv, StoreOK, Knows
<1>4. PICK e : e = [status |-> "rejected", reason |-> marker[c], seen |-> trials[c]]
  OBVIOUS
<1>5. risk' = IF risk[c].status = "reserved" THEN [risk EXCEPT ![c] = e] ELSE risk
  BY <1>2, <1>4 DEF reject_stale_risk_reservation
<1>6. e \in RiskEntries /\ e.status # "authorized"
  BY <1>3, <1>4 DEF RiskEntries, Whys, StoreTypes
<1>7. StoreOK' /\ Progress /\ risk'[c] # None /\ marker'[c] # None
  BY <1>1, <1>3, <1>5, <1>6, VerdictStep DEF store
<1>8. Goto(p, "stale_explain") \/ Leave(p)
  BY DEF reject_stale_risk_reservation
<1>9. CoordinatorsOK'
  BY <1>1, <1>2, <1>3, <1>7, <1>8, GotoOK, LeaveOK DEF Points
<1> QED BY <1>7, <1>9 DEF Inv

LEMMA AuthorizeStep ==
    ASSUME Inv, scope' = scope, NEW p \in Procs, NEW verdict \in GateOutcomes, authorize_promotion(p, verdict)
    PROVE  Inv' /\ Progress
<1>1. UNCHANGED <<store, spent, planned, faults>> /\ co[p].pc = "authorize"
  BY DEF authorize_promotion, budgets
<1>2. PICK c \in Candidates : c = co[p].cand
  BY <1>1, Mover
<1>3. CoordinatorsOK /\ StoreOK /\ StoreTypes /\ risk[c] # None /\ Decided(c)
  BY <1>1, <1>2, Mover DEF Inv, StoreOK, Knows
<1>4. PICK e : e = [status |-> IF verdict THEN "authorized" ELSE "blocked", reason |-> "gate", seen |-> trials[c]]
  OBVIOUS
<1>5. risk' = IF risk[c].status = "reserved" THEN [risk EXCEPT ![c] = e] ELSE risk
  BY <1>2, <1>4 DEF authorize_promotion
<1>6. e \in RiskEntries /\ e.status = (IF verdict THEN "authorized" ELSE "blocked") /\ e.seen = trials[c]
  BY <1>3, <1>4 DEF RiskEntries, Whys, StoreTypes
<1>7. StoreOK' /\ Progress /\ risk'[c] # None /\ risk'[c] = IF risk[c].status = "reserved" THEN e ELSE risk[c]
  BY <1>1, <1>3, <1>5, <1>6, VerdictStep
<1>8. CASE Leave(p)
  BY <1>3, <1>7, <1>8, LeaveOK DEF Inv
<1>9. CASE ~Leave(p)
  <2>1. IF Granted(c, verdict) THEN co' = [co EXCEPT ![p].pc = "begin", ![p].after = "promote"]
                               ELSE Goto(p, "blocked_explain")
    BY <1>2, <1>9 DEF authorize_promotion
  <2>2. Granted(c, verdict) => Authorized(c)'
    BY <1>6, <1>7 DEF Granted, Authorized
  <2>3. ~Granted(c, verdict) => Refused(c)'
    BY <1>6, <1>7 DEF Granted, Refused
  <2>4. CASE Granted(c, verdict)
    BY <1>1, <1>2, <1>3, <1>7, <2>1, <2>2, <2>4, BeginAfterOK DEF Inv
  <2>5. CASE ~Granted(c, verdict)
    BY <1>1, <1>2, <1>3, <1>7, <2>1, <2>3, <2>5, GotoOK DEF Inv, Points
  <2> QED BY <2>4, <2>5
<1> QED BY <1>8, <1>9

-----------------------------------------------------------------------------
(* Steps of the store that touch one candidate's lifecycle, ledger or      *)
(* marker.                                                                 *)
LEMMA LifeStep ==
    ASSUME StoreOK, scope' = scope, UNCHANGED <<ptr, trials, marker, neg, campaign, faults>>, NEW c \in Candidates,
           NEW v, record' = [record EXCEPT ![c].life = v],
           \/ Life(c) = "absent" /\ v = "proposed"
           \/ Life(c) \in {"screened", "confirmed"} /\ v = "rejected" /\ (Pointed(c) => marker[c] # None)
    PROVE  StoreOK' /\ Progress
<1>1. StoreTypes /\ c \in Bundles /\ v \in Lifecycles
  BY ScopeFacts DEF StoreOK, StoreTypes, Lifecycles, Pending
<1>2. /\ record' \in [Bundles -> [life : Lifecycles, seen : Evidence]]
      /\ \A b \in Bundles : Life(b)' = IF b = c THEN v ELSE Life(b)
  BY <1>1 DEF StoreTypes, Life
<1>3. Candidates \subseteq Bundles
  BY <1>1, ScopeFacts DEF StoreTypes
<1>4. \A d \in Candidates : /\ WasServed(d)' <=> WasServed(d)
                            /\ Decided(d) => Decided(d)'
                            /\ Authorized(d)' <=> Authorized(d)
                            /\ Refused(d)' <=> Refused(d)
                            /\ Confirms(d)' <=> Confirms(d)
                            /\ Pointed(d)' <=> Pointed(d)
  BY <1>2, <1>3, ScopeStays, EvaluateStays DEF WasServed, Decided, Authorized, Refused, Confirms, Pointed, campaign
<1>5. \A d \in Candidates : Doomed(d) => Doomed(d)'
  BY <1>4, EvaluateStays DEF Doomed
<1>6. StoreTypes' /\ AlphaSpentOnce' /\ FixturesHeld'
  BY <1>2, ScopeStays DEF StoreOK, StoreTypes, AlphaSpentOnce, FixturesHeld, campaign
<1>7. RiskHeld'
  BY <1>2, <1>3, ScopeStays DEF StoreOK, RiskHeld, campaign
<1>8. AuthorizedIsDecided'
  BY <1>4, ScopeStays DEF StoreOK, AuthorizedIsDecided, campaign
<1>9. NegativeHasReason'
  BY <1>4, <1>5, ScopeStays DEF StoreOK, NegativeHasReason
<1>10. PointerEarned'
  BY <1>4, ScopeStays DEF StoreOK, PointerEarned
<1>11. PointerUndenied'
  <2>1. ~Pointed(c) \/ v = "rejected"
    BY DEF StoreOK, PointerEarned, AuthorizedIsDecided, Decided
  <2> QED BY <1>2, <1>3, <1>4, <2>1, ScopeStays DEF StoreOK, PointerUndenied
<1>12. Progress
  BY <1>2, <1>4 DEF Progress, campaign
<1> QED BY <1>6, <1>7, <1>8, <1>9, <1>10, <1>11, <1>12 DEF StoreOK

LEMMA ProposeStep ==
    ASSUME Inv, scope' = scope, NEW p \in Procs, NEW c \in Candidates, propose(p, c)
    PROVE  Inv' /\ Progress
<1>1. /\ UNCHANGED <<ptr, trials, marker, neg, campaign, faults>> /\ Start(p, c)
      /\ record' = IF record[c].life = "absent" THEN [record EXCEPT ![c].life = "proposed"] ELSE record
  BY DEF propose, budgets
<1>2. StoreOK /\ CoordinatorsOK /\ faults \in Nat
  BY DEF Inv, StoreOK, StoreTypes
<1>3. StoreOK' /\ Progress
  <2>1. CASE record[c].life = "absent"
    BY <1>1, <1>2, <2>1, LifeStep DEF Life
  <2>2. CASE record[c].life # "absent"
    <3>1. UNCHANGED <<store, campaign>> /\ faults' = faults
      BY <1>1, <2>2 DEF store
    <3> QED BY <1>2, <3>1, QuietStore
  <2> QED BY <2>1, <2>2
<1>4. PICK k : k = [Idle EXCEPT !.pc = "recover", !.cand = c]
  OBVIOUS
<1>5. co' = [co EXCEPT ![p] = k]
  BY <1>1, <1>4 DEF Start
<1>6. Knows(k)'
  BY <1>3, <1>4, StartKnows, OthersKnow
<1> QED BY <1>2, <1>3, <1>5, <1>6, MoveOn DEF Inv

LEMMA RejectStep ==
    ASSUME Inv, scope' = scope, NEW p \in Procs, RejectCandidate(p)
    PROVE  Inv' /\ Progress
<1>1. UNCHANGED <<ptr, trials, marker, neg, campaign, faults>> /\ Leave(p) /\ co[p].pc = "reject"
  BY DEF RejectCandidate, budgets
<1>2. PICK c \in Candidates : c = co[p].cand
  BY <1>1, Mover
<1>3. StoreOK /\ CoordinatorsOK /\ faults \in Nat /\ (co[p].cmp = "inconclusive" \/ Refused(c))
  BY <1>1, <1>2, Mover DEF Inv, StoreOK, StoreTypes, Knows
<1>4. CASE record' = record
  <2>1. UNCHANGED <<store, campaign>> /\ faults' = faults
    BY <1>1, <1>4 DEF store
  <2> QED BY <1>1, <1>3, <2>1, QuietStore, LeaveOK DEF Inv
<1>5. CASE record' # record
  <2>1. /\ record' = [record EXCEPT ![c].life = "rejected"]
        /\ Life(c) = IF co[p].cmp = "inconclusive" THEN "screened" ELSE "confirmed"
    BY <1>2, <1>5 DEF RejectCandidate, Life
  <2>2. ~Pointed(c)
    BY <1>3, <2>1 DEF StoreOK, PointerEarned, AuthorizedIsDecided, Authorized, Refused, Decided
  <2>3. StoreOK' /\ Progress
    BY <1>1, <1>3, <2>1, <2>2, LifeStep
  <2> QED BY <1>1, <1>3, <2>3, LeaveOK DEF Inv
<1> QED BY <1>4, <1>5

LEMMA FinalizeStep ==
    ASSUME Inv, scope' = scope, NEW p \in Procs, FinalizeStale(p)
    PROVE  Inv' /\ Progress
<1>1. UNCHANGED <<ptr, trials, marker, neg, campaign, faults>> /\ Leave(p) /\ co[p].pc = "stale_finalize"
  BY DEF FinalizeStale, budgets
<1>2. PICK c \in Candidates : c = co[p].cand
  BY <1>1, Mover
<1>3. StoreOK /\ CoordinatorsOK /\ faults \in Nat /\ marker[c] # None
  BY <1>1, <1>2, Mover DEF Inv, StoreOK, StoreTypes, Knows
<1>4. CASE record' = record
  <2>1. UNCHANGED <<store, campaign>> /\ faults' = faults
    BY <1>1, <1>4 DEF store
  <2> QED BY <1>1, <1>3, <2>1, QuietStore, LeaveOK DEF Inv
<1>5. CASE record' # record
  <2>1. record' = [record EXCEPT ![c].life = "rejected"] /\ Life(c) = "confirmed"
    BY <1>2, <1>5 DEF FinalizeStale, Life
  <2>2. StoreOK' /\ Progress
    BY <1>1, <1>3, <2>1, LifeStep
  <2> QED BY <1>1, <1>3, <2>2, LeaveOK DEF Inv
<1> QED BY <1>4, <1>5

LEMMA NegStep ==
    ASSUME StoreOK, scope' = scope, UNCHANGED <<ptr, record, trials, marker, campaign, faults>>, NEW c \in Candidates,
           NEW a \in NegEntries, neg' = [neg EXCEPT ![c] = a], marker[c] # None \/ Doomed(c) \/ Refused(c)
    PROVE  StoreOK' /\ Progress
<1>1. neg' \in [Candidates -> NegEntries \cup {None}] /\ \A d \in Candidates : d # c => neg'[d] = neg[d]
  BY DEF StoreOK, StoreTypes
<1>2. StoreTypes' /\ AlphaSpentOnce' /\ FixturesHeld' /\ RiskHeld'
  BY <1>1, ScopeStays DEF StoreOK, StoreTypes, AlphaSpentOnce, FixturesHeld, RiskHeld, Life, campaign
<1>3. AuthorizedIsDecided' /\ PointerEarned'
  BY ScopeStays, EvaluateStays DEF StoreOK, AuthorizedIsDecided, PointerEarned, Pointed, Life, Decided, Authorized,
     Confirms, campaign
<1>4. NegativeHasReason'
  BY <1>1, ScopeStays, EvaluateStays DEF StoreOK, NegativeHasReason, Life, Decided, Refused, Doomed, Confirms, campaign
<1>5. PointerUndenied'
  BY ScopeStays DEF StoreOK, PointerUndenied, Pointed, Life, WasServed
<1>6. Progress
  BY ScopeStays DEF Progress, Decided, WasServed, Life, campaign
<1> QED BY <1>2, <1>3, <1>4, <1>5, <1>6 DEF StoreOK

LEMMA ExplainStep ==
    ASSUME Inv, scope' = scope, NEW p \in Procs, PersistNegativeResult(p)
    PROVE  Inv' /\ Progress
<1>1. UNCHANGED <<ptr, record, trials, marker, campaign, faults>> /\ co[p].pc = "explain"
  BY DEF PersistNegativeResult, budgets
<1>2. PICK c \in Candidates : c = co[p].cand
  BY <1>1, Mover
<1>3. /\ StoreOK /\ CoordinatorsOK /\ StoreTypes /\ Doomed(c) /\ risk[c] # None
      /\ co[p].cmp \in {"rejected", "inconclusive"}
  BY <1>1, <1>2, Mover DEF Inv, StoreOK, Knows
<1>4. PICK a : a = [kind |-> co[p].cmp, why |-> trials[c]]
  OBVIOUS
<1>5. a \in NegEntries
  BY <1>3, <1>4 DEF NegEntries, Whys, StoreTypes
<1>6. CASE CanExplain(c, a)
  <2>1. neg' = [neg EXCEPT ![c] = a] /\ Goto(p, "decide")
    BY <1>2, <1>4, <1>6 DEF PersistNegativeResult
  <2>2. StoreOK' /\ Progress /\ risk'[c] # None
    BY <1>1, <1>3, <1>5, <2>1, NegStep DEF campaign
  <2> QED BY <1>1, <1>2, <1>3, <2>1, <2>2, GotoOK DEF Inv, Points
<1>7. CASE ~CanExplain(c, a)
  <2>1. UNCHANGED <<store, campaign>> /\ faults' = faults /\ Leave(p)
    BY <1>1, <1>2, <1>4, <1>7 DEF PersistNegativeResult, store
  <2> QED BY <1>3, <2>1, QuietStore, LeaveOK DEF Inv, StoreTypes
<1> QED BY <1>6, <1>7

LEMMA ExplainStaleStep ==
    ASSUME Inv, scope' = scope, NEW p \in Procs, ExplainStale(p)
    PROVE  Inv' /\ Progress
<1>1. UNCHANGED <<ptr, record, trials, marker, campaign, faults>> /\ co[p].pc = "stale_explain"
  BY DEF ExplainStale, budgets
<1>2. PICK c \in Candidates : c = co[p].cand
  BY <1>1, Mover
<1>3. StoreOK /\ CoordinatorsOK /\ StoreTypes /\ marker[c] # None /\ risk[c] # None
  BY <1>1, <1>2, Mover DEF Inv, StoreOK, Knows
<1>4. PICK a : a = [kind |-> "stale", why |-> marker[c]]
  OBVIOUS
<1>5. a \in NegEntries
  BY <1>3, <1>4 DEF NegEntries, Whys, StoreTypes
<1>6. CASE CanExplain(c, a)
  <2>1. neg' = [neg EXCEPT ![c] = a] /\ Goto(p, "stale_finalize")
    BY <1>2, <1>4, <1>6 DEF ExplainStale
  <2>2. StoreOK' /\ Progress /\ risk'[c] # None /\ marker'[c] # None
    BY <1>1, <1>3, <1>5, <2>1, NegStep DEF campaign
  <2> QED BY <1>1, <1>2, <1>3, <2>1, <2>2, GotoOK DEF Inv, Points
<1>7. CASE ~CanExplain(c, a)
  <2>1. UNCHANGED <<store, campaign>> /\ faults' = faults /\ Leave(p)
    BY <1>1, <1>2, <1>4, <1>7 DEF ExplainStale, store
  <2> QED BY <1>3, <2>1, QuietStore, LeaveOK DEF Inv, StoreTypes
<1> QED BY <1>6, <1>7

LEMMA ExplainBlockedStep ==
    ASSUME Inv, scope' = scope, NEW p \in Procs, ExplainBlocked(p)
    PROVE  Inv' /\ Progress
<1>1. UNCHANGED <<ptr, record, trials, marker, campaign, faults>> /\ co[p].pc = "blocked_explain"
  BY DEF ExplainBlocked, budgets
<1>2. PICK c \in Candidates : c = co[p].cand
  BY <1>1, Mover
<1>3. StoreOK /\ CoordinatorsOK /\ StoreTypes /\ Refused(c) /\ risk[c] # None /\ risk[c] \in RiskEntries
  BY <1>1, <1>2, Mover DEF Inv, StoreOK, Knows
<1>4. PICK a : a = [kind |-> "blocked", why |-> risk[c].reason]
  OBVIOUS
<1>5. a \in NegEntries
  BY <1>3, <1>4 DEF NegEntries, RiskEntries
<1>6. CASE CanExplain(c, a)
  <2>1. neg' = [neg EXCEPT ![c] = a] /\ Goto(p, "reject")
    BY <1>2, <1>4, <1>6 DEF ExplainBlocked
  <2>2. StoreOK' /\ Progress /\ risk'[c] # None /\ Refused(c)'
    BY <1>1, <1>3, <1>5, <2>1, NegStep DEF campaign, Refused
  <2> QED BY <1>1, <1>2, <1>3, <2>1, <2>2, GotoOK DEF Inv, Points
<1>7. CASE ~CanExplain(c, a)
  <2>1. UNCHANGED <<store, campaign>> /\ faults' = faults /\ Leave(p)
    BY <1>1, <1>2, <1>4, <1>7 DEF ExplainBlocked, store
  <2> QED BY <1>3, <2>1, QuietStore, LeaveOK DEF Inv, StoreTypes
<1> QED BY <1>6, <1>7

(* A marker on the rollback target: its promotion and its successor's have *)
(* both lost their mirrors, or it would not be on record as confirmed.     *)
LEMMA MarkerStep ==
    ASSUME StoreOK, scope' = scope, UNCHANGED <<ptr, record, trials, neg, campaign, faults>>, NEW c \in Candidates,
           marker[c] = None, marker' = [marker EXCEPT ![c] = ptr.bundle], IsStale(c)
    PROVE  StoreOK' /\ Progress
<1>1. StoreTypes /\ ptr.bundle \in Bundles /\ ptr.bundle # None
  BY ScopeFacts DEF StoreOK, StoreTypes
<1>2. marker' \in [Candidates -> Bundles \cup {None}]
      /\ \A d \in Candidates : marker'[d] = IF d = c THEN ptr.bundle ELSE marker[d]
  BY <1>1 DEF StoreTypes
<1>3. StoreTypes' /\ AlphaSpentOnce' /\ FixturesHeld' /\ RiskHeld'
  BY <1>2, ScopeStays DEF StoreOK, StoreTypes, AlphaSpentOnce, FixturesHeld, RiskHeld, Life, campaign
<1>4. AuthorizedIsDecided' /\ PointerEarned'
  BY ScopeStays, EvaluateStays DEF StoreOK, AuthorizedIsDecided, PointerEarned, Pointed, Life, Decided, Authorized,
     Confirms, campaign
<1>5. NegativeHasReason'
  BY <1>1, <1>2, ScopeStays, EvaluateStays DEF StoreOK, NegativeHasReason, Life, Decided, Refused, Doomed, Confirms, campaign
<1>6. PointerUndenied'
  <2>1. Pointed(c) => faults >= 2 /\ c # ptr.bundle
    BY DEF IsStale, Pointed, StoreOK, PointerUndenied, WasServed, Life
  <2> QED BY <1>1, <1>2, <2>1, ScopeStays DEF StoreOK, PointerUndenied, Pointed, Life, WasServed
<1>7. Progress
  BY <1>2, ScopeStays DEF Progress, Decided, WasServed, Life, campaign
<1> QED BY <1>3, <1>4, <1>5, <1>6, <1>7 DEF StoreOK

LEMMA BeginStep ==
    ASSUME Inv, scope' = scope, NEW p \in Procs, BeginStale(p)
    PROVE  Inv' /\ Progress
<1>1. UNCHANGED <<ptr, record, trials, neg, campaign, faults>> /\ co[p].pc = "begin"
  BY DEF BeginStale, budgets
<1>2. PICK c \in Candidates : c = co[p].cand
  BY <1>1, Mover
<1>3. /\ StoreOK /\ CoordinatorsOK /\ StoreTypes /\ risk[c] # None
      /\ co[p].after \in {"reserve", "audit", "promote"}
      /\ co[p].after = "promote" => Authorized(c) \/ WasServed(c)
  BY <1>1, <1>2, Mover DEF Inv, StoreOK, Knows, Coordinators
<1>4. CASE marker[c] = None /\ IsStale(c)
  <2>1. marker' = [marker EXCEPT ![c] = ptr.bundle] /\ Goto(p, "stale_risk")
    BY <1>2, <1>4 DEF BeginStale
  <2>2. StoreOK' /\ Progress /\ risk'[c] # None
    BY <1>1, <1>3, <1>4, <2>1, MarkerStep DEF campaign
  <2>3. marker'[c] # None
    BY <1>3, <2>1, ScopeFacts DEF StoreTypes
  <2> QED BY <1>1, <1>2, <1>3, <2>1, <2>2, <2>3, GotoOK DEF Inv, Points
<1>5. CASE ~(marker[c] = None /\ IsStale(c))
  <2>1. marker' = marker
    BY <1>2, <1>3, <1>5 DEF BeginStale, StoreTypes
  <2>2. UNCHANGED <<store, campaign>> /\ faults' = faults /\ risk'[c] # None
    BY <1>1, <1>3, <2>1 DEF store, campaign
  <2>3. StoreOK' /\ Progress
    BY <1>3, <2>2, QuietStore DEF StoreTypes
  <2>4. CASE marker[c] # None
    <3>1. Goto(p, "stale_risk") /\ marker'[c] # None
      BY <1>2, <2>1, <2>4 DEF BeginStale
    <3> QED BY <1>1, <1>2, <1>3, <2>2, <2>3, <3>1, GotoOK DEF Inv, Points
  <2>5. CASE marker[c] = None /\ Life(c) \in {"confirmed", "rejected"}
    <3>1. PICK v : v = co[p].after
      OBVIOUS
    <3>2. Goto(p, v)
      BY <1>2, <1>5, <2>5, <3>1 DEF BeginStale, Life
    <3>3. Decided(c)'
      BY <2>2, <2>5 DEF store, Decided, Life
    <3>4. v = "promote" => Authorized(c)' \/ WasServed(c)'
      BY <1>3, <2>2, <3>1 DEF store, campaign, Authorized, WasServed, Life
    <3>5. v \in {"reserve", "audit", "promote"}
      BY <1>3, <3>1
    <3>6. v \in Points \ {"idle", "evaluate", "begin"}
      BY <3>5 DEF Points
    <3> QED BY <1>1, <1>2, <1>3, <2>2, <2>3, <3>2, <3>3, <3>4, <3>5, <3>6, GotoOK DEF Inv
  <2>6. CASE marker[c] = None /\ Life(c) \notin {"confirmed", "rejected"}
    <3>1. Leave(p)
      BY <1>2, <1>5, <2>6 DEF BeginStale, Life
    <3> QED BY <1>3, <2>3, <3>1, LeaveOK DEF Inv
  <2> QED BY <2>4, <2>5, <2>6
<1> QED BY <1>4, <1>5

-----------------------------------------------------------------------------
(* Steps that record evidence.                                             *)
LEMMA MergedExtends ==
    ASSUME NEW c, NEW new \in Evidence, trials[c] \in Evidence, CanRecord(c, new)
    PROVE  /\ Merged(c, new) \in Evidence
           /\ \A x \in Units : trials[c][x] # None => Merged(c, new)[x] = trials[c][x]
BY DEF Merged, CanRecord, Evidence

LEMMA MergedNothing ==
    ASSUME NEW c, trials[c] \in Evidence
    PROVE  Merged(c, NoTrials) = trials[c]
BY DEF Merged, NoTrials, Evidence

LEMMA LifeAfter ==
    ASSUME NEW d \in Comparisons, NEW l \in {"proposed", "screened"}
    PROVE  /\ LifecycleAfter(d, l) \in {"proposed", "screened", "confirmed", "rejected"}
           /\ d = "rejected" => LifecycleAfter(d, l) = "rejected"
BY DEF LifecycleAfter, Comparisons

LEMMA RecordStep ==
    ASSUME StoreOK, scope' = scope, UNCHANGED campaign, faults' \in Nat, faults' >= faults, NEW c \in Candidates,
           c \in planned, risk[c] # None, NEW new \in Evidence, NEW whole \in BOOLEAN, CanRecord(c, new),
           record_matched_trials(c, new, whole)
    PROVE  /\ StoreOK' /\ Progress
           /\ whole /\ evaluate_matched_trials(Merged(c, new)) \in {"rejected", "inconclusive"} => Doomed(c)'
<1>1. PICK t : t = Merged(c, new)
  OBVIOUS
<1>2. PICK d : d = evaluate_matched_trials(t)
  OBVIOUS
<1>3. /\ UNCHANGED <<ptr, marker, neg>> /\ trials' = [trials EXCEPT ![c] = t]
      /\ record' = IF whole THEN [record EXCEPT ![c] = [life |-> LifecycleAfter(d, Life(c)), seen |-> t]] ELSE record
  BY <1>1, <1>2 DEF record_matched_trials, Life
<1>4. StoreTypes /\ scope \in Scopes /\ c \in Bundles /\ Candidates \subseteq Bundles
  BY ScopeFacts DEF StoreOK, StoreTypes
<1>5. t \in Evidence /\ \A x \in Units : trials[c][x] # None => t[x] = trials[c][x]
  BY <1>1, <1>4, MergedExtends DEF StoreTypes
<1>6. d \in Comparisons /\ Life(c) \in {"proposed", "screened"}
  BY <1>2, ComparisonSays DEF CanRecord, Life
<1>7. PICK l : l = IF whole THEN LifecycleAfter(d, Life(c)) ELSE Life(c)
  OBVIOUS
<1>8. l \in {"proposed", "screened", "confirmed", "rejected"} /\ (whole /\ d = "rejected" => l = "rejected")
  BY <1>6, <1>7, LifeAfter
<1>9. /\ record' \in [Bundles -> [life : Lifecycles, seen : Evidence]]
      /\ \A b \in Bundles : Life(b)' = IF b = c THEN l ELSE Life(b)
  BY <1>3, <1>4, <1>5, <1>7, <1>8 DEF StoreTypes, Life, Lifecycles, Pending
<1>10. trials' \in [Candidates -> Evidence] /\ \A e \in Candidates : trials'[e] = IF e = c THEN t ELSE trials[e]
  BY <1>3, <1>4, <1>5 DEF StoreTypes
<1>11. ~Above(trials[c]) => ~Above(t)
  BY <1>4, <1>5, LossStays
<1>12. ~Authorized(c) /\ ~Pointed(c) /\ ~Decided(c)
  BY <1>6 DEF StoreOK, AuthorizedIsDecided, PointerEarned, Decided
<1>13. \A e \in Candidates : /\ Authorized(e)' <=> Authorized(e)
                             /\ Refused(e)' <=> Refused(e)
                             /\ Pointed(e)' <=> Pointed(e)
                             /\ WasServed(e)' <=> WasServed(e)
                             /\ e # c => (Decided(e)' <=> Decided(e)) /\ (Confirms(e)' <=> Confirms(e))
  BY <1>3, <1>4, <1>6, <1>8, <1>9, <1>10, ScopeStays, EvaluateStays
     DEF Authorized, Refused, Pointed, WasServed, Decided, Confirms, campaign
<1>14. \A e \in Candidates : Doomed(e) => Doomed(e)'
  BY <1>10, <1>11, <1>12, <1>13, EvaluateStays DEF Doomed
<1>15. StoreTypes' /\ AlphaSpentOnce' /\ FixturesHeld'
  BY <1>3, <1>9, <1>10, ScopeStays DEF StoreOK, StoreTypes, AlphaSpentOnce, FixturesHeld, campaign
<1>16. RiskHeld'
  BY <1>4, <1>9, ScopeStays DEF StoreOK, RiskHeld, campaign
<1>17. AuthorizedIsDecided'
  BY <1>10, <1>12, <1>13, ScopeStays DEF StoreOK, AuthorizedIsDecided, campaign
<1>18. NegativeHasReason'
  BY <1>3, <1>13, <1>14, ScopeStays DEF StoreOK, NegativeHasReason
<1>19. PointerEarned'
  BY <1>3, <1>12, <1>13, ScopeStays DEF StoreOK, PointerEarned
<1>20. PointerUndenied'
  <2>1. ptr.bundle # c /\ ptr.target # c
    BY <1>12 DEF Pointed
  <2>2. \A e \in Candidates : Pointed(e)' => Pointed(e) /\ Life(e)' = Life(e) /\ marker'[e] = marker[e]
    BY <1>3, <1>4, <1>9, <1>12, <1>13
  <2>3. \A b \in Bundles \ Candidates : Life(b)' = Life(b)
    BY <1>9
  <2>4. faults \in Nat /\ PointerUndenied
    BY DEF StoreOK, StoreTypes
  <2> QED BY <1>3, <1>13, <2>1, <2>2, <2>3, <2>4, ScopeStays DEF PointerUndenied
<1>21. Progress
  BY <1>3, <1>5, <1>10, <1>11, <1>12, <1>13 DEF Progress, campaign
<1>22. whole /\ d \in {"rejected", "inconclusive"} => Doomed(c)'
  <2>1. d = "inconclusive" => ~Above(trials'[c])
    BY <1>2, <1>10, ComparisonSays
  <2>2. whole /\ d = "rejected" => Decided(c)' /\ ~Confirms(c)'
    BY <1>2, <1>4, <1>8, <1>9, <1>10, EvaluateStays DEF Decided, Confirms
  <2> QED BY <2>1, <2>2, EvaluateStays DEF Doomed
<1> QED BY <1>1, <1>2, <1>15, <1>16, <1>17, <1>18, <1>19, <1>20, <1>21, <1>22 DEF StoreOK

LEMMA ReplayStep ==
    ASSUME Inv, scope' = scope, NEW p \in Procs, ReplayEvidence(p)
    PROVE  Inv' /\ Progress
<1>1. UNCHANGED <<campaign, faults>> /\ co[p].pc = "replay"
  BY DEF ReplayEvidence, budgets
<1>2. PICK c \in Candidates : c = co[p].cand
  BY <1>1, Mover
<1>3. /\ StoreOK /\ CoordinatorsOK /\ StoreTypes /\ risk[c] # None /\ c \in planned
      /\ co[p].life \in {"confirmed", "rejected", "active"} => Decided(c)
  BY <1>1, <1>2, Mover DEF Inv, StoreOK, Knows
<1>4. PICK d : d = evaluate_matched_trials(trials[c])
  OBVIOUS
<1>5. d \in Comparisons /\ faults' \in Nat /\ faults' >= faults /\ c \in planned' /\ risk'[c] # None
  BY <1>1, <1>3, <1>4, ComparisonSays DEF StoreTypes, campaign
<1>6. CASE co[p].life \in {"confirmed", "rejected", "active"}
  <2>1. UNCHANGED <<store, campaign>> /\ (Follow(p, d) \/ Leave(p))
    BY <1>1, <1>2, <1>4, <1>6 DEF ReplayEvidence
  <2>2. StoreOK' /\ Progress
    BY <1>3, <1>5, <2>1, QuietStore
  <2>3. d \in {"rejected", "inconclusive"} => Doomed(c)
    BY <1>3, <1>4, <1>6, ComparisonSays DEF Doomed, Confirms
  <2>4. d \in {"rejected", "inconclusive"} => Doomed(c)'
    BY <2>1, <2>3, EvaluateStays DEF Doomed, Confirms, Decided, Life, store
  <2> QED BY <1>1, <1>2, <1>3, <1>5, <2>1, <2>2, <2>4, FollowOK, LeaveOK DEF Inv
<1>7. CASE co[p].life \notin {"confirmed", "rejected", "active"} /\ CanRecord(c, NoTrials)
  <2>1. Follow(p, d) /\ record_matched_trials(c, NoTrials, TRUE)
    BY <1>1, <1>2, <1>4, <1>7 DEF ReplayEvidence
  <2>2. Merged(c, NoTrials) = trials[c]
    BY <1>3, MergedNothing DEF StoreTypes
  <2>3. StoreOK' /\ Progress /\ (d \in {"rejected", "inconclusive"} => Doomed(c)')
    BY <1>1, <1>3, <1>4, <1>5, <1>7, <2>1, <2>2, NoTrialsType, RecordStep
  <2> QED BY <1>1, <1>2, <1>3, <1>5, <2>1, <2>3, FollowOK DEF Inv
<1>8. CASE co[p].life \notin {"confirmed", "rejected", "active"} /\ ~CanRecord(c, NoTrials)
  <2>1. UNCHANGED <<store, campaign>> /\ Leave(p)
    BY <1>1, <1>2, <1>8 DEF ReplayEvidence
  <2> QED BY <1>3, <1>5, <2>1, QuietStore, LeaveOK DEF Inv
<1> QED BY <1>6, <1>7, <1>8

LEMMA PairStep ==
    ASSUME Inv, scope' = scope, NEW p \in Procs, NEW o \in Outcomes, NEW whole \in BOOLEAN, RecordPair(p, o, whole)
    PROVE  Inv' /\ Progress
<1>1. UNCHANGED campaign /\ co[p].pc = "evaluate" /\ (faults' = faults \/ faults' = faults + 1)
  BY DEF RecordPair, Fault
<1>2. PICK c \in Candidates : c = co[p].cand
  BY <1>1, Mover
<1>3. /\ StoreOK /\ CoordinatorsOK /\ StoreTypes /\ risk[c] # None /\ c \in planned /\ co[p].unit \in Units
  BY <1>1, <1>2, Mover DEF Inv, StoreOK, Knows
<1>4. PICK new : new = [NoTrials EXCEPT ![co[p].unit] = o]
  OBVIOUS
<1>5. new \in Evidence
  BY <1>3, <1>4 DEF NoTrials, Evidence
<1>6. PICK d : d = evaluate_matched_trials(Merged(c, new))
  OBVIOUS
<1>7. d \in Comparisons /\ faults' \in Nat /\ faults' >= faults /\ c \in planned' /\ risk'[c] # None
  BY <1>1, <1>3, <1>6, ComparisonSays DEF StoreTypes, campaign
<1>8. CASE CanRecord(c, new)
  <2>1. record_matched_trials(c, new, whole) /\ IF whole THEN Follow(p, d) ELSE Leave(p)
    BY <1>2, <1>4, <1>6, <1>8 DEF RecordPair
  <2>2. StoreOK' /\ Progress /\ (whole /\ d \in {"rejected", "inconclusive"} => Doomed(c)')
    BY <1>1, <1>3, <1>5, <1>6, <1>7, <1>8, <2>1, RecordStep
  <2> QED BY <1>1, <1>2, <1>3, <1>7, <2>1, <2>2, FollowOK, LeaveOK DEF Inv
<1>9. CASE ~CanRecord(c, new)
  <2>1. UNCHANGED <<store, campaign>> /\ Leave(p)
    BY <1>1, <1>2, <1>4, <1>9 DEF RecordPair
  <2> QED BY <1>3, <1>7, <2>1, QuietStore, LeaveOK DEF Inv
<1> QED BY <1>8, <1>9

-----------------------------------------------------------------------------
(* Steps that move the active pointer, or repair its mirrors.              *)
LEMMA MirrorsWritten ==
    ASSUME StoreTypes, NEW x \in Bundles, NEW y \in Bundles, x # y, NEW v \in Lifecycles, NEW w \in Lifecycles,
           NEW n \in 0 .. 2, SetLifecycles(<<x, y>>, <<v, w>>, n)
    PROVE  /\ record' \in [Bundles -> [life : Lifecycles, seen : Evidence]]
           /\ \A b \in Bundles : Life(b)' = IF b = x /\ n >= 1 THEN v ELSE IF b = y /\ n >= 2 THEN w ELSE Life(b)
<1> DEFINE hit(b) == \E i \in 1 .. n : <<x, y>>[i] = b
           new(b) == <<v, w>>[CHOOSE i \in 1 .. n : <<x, y>>[i] = b]
<1>1. record' = [b \in Bundles |-> IF hit(b) THEN [record[b] EXCEPT !.life = new(b)] ELSE record[b]]
  BY DEF SetLifecycles
<1>2. ASSUME NEW b \in Bundles, b = x, n >= 1
      PROVE  hit(b) /\ new(b) = v
  <2>1. 1 \in 1 .. n /\ \A i \in 1 .. n : <<x, y>>[i] = b => i = 1
    BY <1>2
  <2>2. (CHOOSE i \in 1 .. n : <<x, y>>[i] = b) = 1
    BY <1>2, <2>1
  <2> QED BY <1>2, <2>1, <2>2
<1>3. ASSUME NEW b \in Bundles, b = y, n >= 2
      PROVE  hit(b) /\ new(b) = w
  <2>1. 2 \in 1 .. n /\ \A i \in 1 .. n : <<x, y>>[i] = b => i = 2
    BY <1>3
  <2>2. (CHOOSE i \in 1 .. n : <<x, y>>[i] = b) = 2
    BY <1>3, <2>1
  <2> QED BY <1>3, <2>1, <2>2
<1>4. ASSUME NEW b \in Bundles, ~(b = x /\ n >= 1), ~(b = y /\ n >= 2)
      PROVE  ~hit(b)
  BY <1>4
<1> HIDE DEF hit, new
<1>5. \A b \in Bundles : record'[b] = IF b = x /\ n >= 1 THEN [record[b] EXCEPT !.life = v]
                                      ELSE IF b = y /\ n >= 2 THEN [record[b] EXCEPT !.life = w] ELSE record[b]
  BY <1>1, <1>2, <1>3, <1>4
<1>6. \A b \in Bundles : record'[b] \in [life : Lifecycles, seen : Evidence]
  BY <1>5 DEF StoreTypes
<1>7. record' \in [Bundles -> [life : Lifecycles, seen : Evidence]]
  BY <1>1, <1>6
<1>8. \A b \in Bundles : Life(b)' = IF b = x /\ n >= 1 THEN v ELSE IF b = y /\ n >= 2 THEN w ELSE Life(b)
  BY <1>5 DEF StoreTypes, Life
<1> QED BY <1>7, <1>8

LEMMA ServeStep ==
    ASSUME StoreOK, scope' = scope, UNCHANGED <<trials, marker, neg, campaign>>, faults' \in Nat,
           ptr' \in [bundle : Bundles, target : Bundles \cup {None}, promoted : BOOLEAN],
           record' \in [Bundles -> [life : Lifecycles, seen : Evidence]],
           \A b \in Bundles : Life(b)' = Life(b) \/ (WasServed(b)' /\ (b \in Candidates => Authorized(b))),
           PointerEarned', PointerUndenied'
    PROVE  StoreOK' /\ Progress
<1>1. Candidates \subseteq Bundles
  BY ScopeFacts DEF StoreOK, StoreTypes
<1>2. \A d \in Candidates : /\ WasServed(d) => WasServed(d)'
                            /\ Decided(d) => Decided(d)'
                            /\ Authorized(d)' <=> Authorized(d)
                            /\ Refused(d)' <=> Refused(d)
                            /\ Confirms(d)' <=> Confirms(d)
  BY <1>1, EvaluateStays DEF WasServed, Decided, Authorized, Refused, Confirms, campaign
<1>3. \A d \in Candidates : Doomed(d) => Doomed(d)'
  BY <1>2, EvaluateStays DEF Doomed
<1>4. StoreTypes' /\ AlphaSpentOnce' /\ FixturesHeld'
  BY ScopeStays DEF StoreOK, StoreTypes, AlphaSpentOnce, FixturesHeld, campaign
<1>5. RiskHeld'
  BY <1>1, ScopeStays DEF StoreOK, RiskHeld, Authorized, campaign
<1>6. AuthorizedIsDecided'
  BY <1>2, ScopeStays DEF StoreOK, AuthorizedIsDecided, campaign
<1>7. NegativeHasReason'
  BY <1>2, <1>3, ScopeStays DEF StoreOK, NegativeHasReason
<1>8. Progress
  BY <1>2 DEF Progress, campaign
<1> QED BY <1>4, <1>5, <1>6, <1>7, <1>8 DEF StoreOK

LEMMA NobodyMoves ==
    ASSUME CoordinatorsOK, scope' = scope, Progress, co' = co
    PROVE  CoordinatorsOK'
BY ScopeStays, OthersKnow DEF CoordinatorsOK

LEMMA PromoteStep ==
    ASSUME Inv, scope' = scope, NEW p \in Procs, NEW n \in 0 .. 2, PromoteCandidate(p, n)
    PROVE  Inv' /\ Progress
<1>1. UNCHANGED campaign /\ Leave(p) /\ co[p].pc = "promote" /\ faults' = IF n = 2 THEN faults ELSE faults + 1
  BY DEF PromoteCandidate, Fault
<1>2. PICK c \in Candidates : c = co[p].cand
  BY <1>1, Mover
<1>3. StoreOK /\ CoordinatorsOK /\ StoreTypes /\ scope \in Scopes /\ (Authorized(c) \/ WasServed(c))
  BY <1>1, <1>2, Mover DEF Inv, StoreOK, Knows
<1>4. PICK q : q = Parent[c]
  OBVIOUS
<1>5. c \in Bundles /\ q \in Bundles /\ q # c /\ Candidates \subseteq Bundles /\ None \notin Bundles
  BY <1>3, <1>4, ScopeFacts
<1>6. faults \in Nat /\ faults' \in Nat /\ faults' >= faults
  BY <1>1, <1>3 DEF StoreTypes
<1> DEFINE again == ptr.bundle = c /\ ptr.promoted
           first == ptr.bundle # c /\ CanPromote(c)
<1>7. CASE ~again /\ ~first
  <2>1. UNCHANGED <<store, campaign>>
    BY <1>1, <1>2, <1>7 DEF PromoteCandidate
  <2> QED BY <1>1, <1>3, <1>6, <2>1, QuietStore, LeaveOK DEF Inv
<1>8. CASE again \/ first
  <2>1. promote(c, n)
    BY <1>2, <1>8 DEF PromoteCandidate
  <2>2. /\ UNCHANGED <<trials, marker, neg>>
        /\ ptr' = IF ptr.bundle = c THEN ptr ELSE [bundle |-> c, target |-> q, promoted |-> TRUE]
        /\ SetLifecycles(<<c, q>>, <<"active", "superseded">>, n)
    BY <1>4, <2>1 DEF promote
  <2>3. /\ record' \in [Bundles -> [life : Lifecycles, seen : Evidence]]
        /\ \A b \in Bundles : Life(b)' = IF b = c /\ n >= 1 THEN "active"
                                         ELSE IF b = q /\ n >= 2 THEN "superseded" ELSE Life(b)
    <3>1. "active" \in Lifecycles /\ "superseded" \in Lifecycles
      BY DEF Lifecycles
    <3> QED BY <1>3, <1>5, <2>2, <3>1, MirrorsWritten
  <2>4. ptr'.bundle = c /\ ptr'.target = q /\ ptr'.promoted
        /\ ptr' \in [bundle : Bundles, target : Bundles \cup {None}, promoted : BOOLEAN]
    BY <1>3, <1>4, <1>5, <1>8, <2>2 DEF StoreOK, PointerEarned, StoreTypes
  <2>5. Authorized(c) /\ Confirms(c) /\ (q \in Candidates => Authorized(q) /\ Confirms(q) /\ Pointed(q))
    BY <1>3, <1>4, <1>8 DEF StoreOK, PointerEarned, Pointed, CanPromote, WasServed, Life, Confirms
  <2>6. PointerEarned'
    <3>1. \A d \in Candidates : (Authorized(d)' <=> Authorized(d)) /\ (Confirms(d)' <=> Confirms(d))
      BY <1>1, <2>2, EvaluateStays DEF Authorized, Confirms, campaign
    <3> QED BY <1>4, <1>5, <2>4, <2>5, <3>1, ScopeStays DEF PointerEarned, Pointed
  <2>7. \A b \in Bundles : WasServed(b)' <=> WasServed(b) \/ (b = c /\ n >= 1) \/ (b = q /\ n >= 2)
    BY <1>5, <2>3 DEF WasServed
  <2>8. marker[c] = None /\ Life(c) # "rejected"
    BY <1>3, <1>8 DEF StoreOK, PointerUndenied, Pointed, CanPromote, Life
  <2>9. q \in Candidates => /\ marker[q] # None => faults >= 2
                            /\ Life(q) = "rejected" => marker[q] # None
    BY <1>3, <2>5 DEF StoreOK, PointerUndenied
  <2>10. ~WasServed(c)' => faults' >= 1
    BY <1>1, <1>5, <1>6, <2>7
  <2>11. q \in Candidates /\ ~WasServed(q)' => faults' >= 2
    <3>1. CASE again
      BY <1>3, <1>4, <1>5, <1>6, <2>7, <3>1 DEF StoreOK, PointerUndenied, PointerEarned
    <3>2. CASE first
      BY <1>1, <1>3, <1>4, <1>5, <1>6, <2>7, <3>2 DEF StoreOK, PointerUndenied, CanPromote
    <3> QED BY <1>8, <3>1, <3>2
  <2>12. \A d \in Candidates : Life(d)' = "rejected" => Life(d) = "rejected"
    BY <1>5, <2>3
  <2>13. \A b \in Bundles \ Candidates : Life(b)' \in {"absent", "active", "superseded"}
    BY <1>3, <2>3 DEF StoreOK, PointerUndenied
  <2>14. PointerUndenied'
    BY <1>5, <1>6, <2>2, <2>4, <2>8, <2>9, <2>10, <2>11, <2>12, <2>13, ScopeStays DEF PointerUndenied, Pointed
  <2>15. \A b \in Bundles : Life(b)' = Life(b) \/ (WasServed(b)' /\ (b \in Candidates => Authorized(b)))
    BY <1>5, <2>3, <2>5, <2>7
  <2>16. StoreOK' /\ Progress
    BY <1>1, <1>3, <1>6, <2>2, <2>3, <2>4, <2>6, <2>14, <2>15, ServeStep
  <2> QED BY <1>1, <1>3, <2>16, LeaveOK DEF Inv
<1> QED BY <1>7, <1>8

LEMMA RollbackStep ==
    ASSUME Inv, scope' = scope, NEW n \in 0 .. 2, rollback(n)
    PROVE  Inv' /\ Progress
<1>1. PICK x, y : x = ptr.bundle /\ y = ptr.target
  OBVIOUS
<1>2. /\ UNCHANGED <<trials, marker, neg, campaign, co>> /\ faults' = IF n = 2 THEN faults ELSE faults + 1
      /\ ptr' = [bundle |-> y, target |-> x, promoted |-> FALSE] /\ y # None
      /\ SetLifecycles(<<x, y>>, <<"superseded", "active">>, n)
  BY <1>1 DEF rollback, Fault
<1>3. StoreOK /\ StoreTypes /\ scope \in Scopes
  BY DEF Inv, StoreOK, StoreTypes
<1>4. x \in Bundles /\ y \in Bundles /\ x # y /\ Candidates \subseteq Bundles
  BY <1>1, <1>2, <1>3, ScopeFacts DEF StoreTypes, StoreOK, PointerEarned
<1>5. faults \in Nat /\ faults' \in Nat /\ faults' >= faults
  BY <1>2, <1>3 DEF StoreTypes
<1>6. /\ record' \in [Bundles -> [life : Lifecycles, seen : Evidence]]
      /\ \A b \in Bundles : Life(b)' = IF b = x /\ n >= 1 THEN "superseded"
                                       ELSE IF b = y /\ n >= 2 THEN "active" ELSE Life(b)
  <2>1. "active" \in Lifecycles /\ "superseded" \in Lifecycles
    BY DEF Lifecycles
  <2> QED BY <1>2, <1>3, <1>4, <2>1, MirrorsWritten
<1>7. /\ ptr' \in [bundle : Bundles, target : Bundles \cup {None}, promoted : BOOLEAN]
      /\ ptr'.bundle = y /\ ptr'.target = x /\ ~ptr'.promoted
  BY <1>2, <1>4
<1>8. \A d \in Candidates : /\ Pointed(d)' <=> Pointed(d)
                            /\ Authorized(d)' <=> Authorized(d)
                            /\ Confirms(d)' <=> Confirms(d)
  BY <1>1, <1>2, <1>7, ScopeStays, EvaluateStays DEF Pointed, Authorized, Confirms, campaign
<1>9. PointerEarned'
  BY <1>3, <1>4, <1>7, <1>8, ScopeStays DEF StoreOK, PointerEarned
<1>10. \A b \in Bundles : WasServed(b)' <=> WasServed(b) \/ (b = x /\ n >= 1) \/ (b = y /\ n >= 2)
  BY <1>4, <1>6 DEF WasServed
<1>11. y \in Candidates /\ ~WasServed(y)' => faults' >= 2
  BY <1>1, <1>3, <1>4, <1>5, <1>10 DEF StoreOK, PointerUndenied
<1>12. x \in Candidates /\ ~WasServed(x)' => faults' >= 2
  BY <1>1, <1>2, <1>3, <1>4, <1>5, <1>10 DEF StoreOK, PointerUndenied
<1>13. \A d \in Candidates : Life(d)' = "rejected" => Life(d) = "rejected"
  BY <1>4, <1>6
<1>14. \A b \in Bundles \ Candidates : Life(b)' \in {"absent", "active", "superseded"}
  BY <1>3, <1>6 DEF StoreOK, PointerUndenied
<1>15. PointerUndenied'
  BY <1>2, <1>3, <1>5, <1>7, <1>8, <1>11, <1>12, <1>13, <1>14, ScopeStays DEF StoreOK, PointerUndenied
<1>16. \A b \in Bundles : Life(b)' = Life(b) \/ (WasServed(b)' /\ (b \in Candidates => Authorized(b)))
  BY <1>1, <1>3, <1>4, <1>6, <1>10 DEF StoreOK, PointerEarned, Pointed
<1>17. StoreOK' /\ Progress
  BY <1>2, <1>3, <1>5, <1>6, <1>7, <1>9, <1>15, <1>16, ServeStep
<1> QED BY <1>2, <1>17, NobodyMoves DEF Inv

LEMMA RolloverStep ==
    ASSUME Inv, scope' = scope, NEW n \in 0 .. 2, NEW b \in Bundles, rollover_evaluator_epoch(b, n)
    PROVE  Inv' /\ Progress
<1>1. PICK x : x = ptr.bundle
  OBVIOUS
<1>2. /\ UNCHANGED <<trials, marker, neg, campaign, co>> /\ faults' = IF n = 2 THEN faults ELSE faults + 1
      /\ ptr' = [bundle |-> b, target |-> None, promoted |-> FALSE] /\ b \notin Candidates /\ b # x
  BY <1>1 DEF rollover_evaluator_epoch, Fault
<1>3. StoreOK /\ StoreTypes /\ scope \in Scopes
  BY DEF Inv, StoreOK, StoreTypes
<1>4. x \in Bundles /\ Candidates \subseteq Bundles /\ None \notin Bundles
  BY <1>1, <1>3, ScopeFacts DEF StoreTypes
<1>5. faults \in Nat /\ faults' \in Nat
  BY <1>2, <1>3 DEF StoreTypes
<1>6. record' = [z \in Bundles |->
                   IF z = b /\ (record[b].life = "absent" \/ n >= 1) THEN [record[b] EXCEPT !.life = "active"]
                   ELSE IF z = x /\ n >= 2 THEN [record[z] EXCEPT !.life = "superseded"]
                   ELSE record[z]]
  BY <1>1 DEF rollover_evaluator_epoch
<1>7. /\ record' \in [Bundles -> [life : Lifecycles, seen : Evidence]]
      /\ \A z \in Bundles : Life(z)' = Life(z) \/ (z \in {b, x} /\ WasServed(z)')
  BY <1>3, <1>6 DEF StoreTypes, Life, WasServed, Lifecycles
<1>8. /\ ptr' \in [bundle : Bundles, target : Bundles \cup {None}, promoted : BOOLEAN]
      /\ ptr'.bundle = b /\ ptr'.target = None /\ ~ptr'.promoted
  BY <1>2
<1>9. PointerEarned'
  BY <1>2, <1>4, <1>8, ScopeStays DEF PointerEarned, Pointed
<1>10. PointerUndenied'
  BY <1>2, <1>3, <1>4, <1>7, <1>8, ScopeStays DEF StoreOK, PointerUndenied, Pointed, WasServed
<1>11. \A z \in Bundles : Life(z)' = Life(z) \/ (WasServed(z)' /\ (z \in Candidates => Authorized(z)))
  BY <1>1, <1>2, <1>3, <1>7 DEF StoreOK, PointerEarned, Pointed
<1>12. StoreOK' /\ Progress
  BY <1>2, <1>3, <1>5, <1>7, <1>8, <1>9, <1>10, <1>11, ServeStep
<1> QED BY <1>2, <1>12, NobodyMoves DEF Inv

-----------------------------------------------------------------------------
LEMMA InitInv == Init => Inv
<1> SUFFICES ASSUME Init PROVE Inv
  OBVIOUS
<1>1. scope \in Scopes
  BY DEF Init
<1>2. Candidates \subseteq Bundles /\ Base \in Bundles \ Candidates /\ None \notin Bundles
  BY <1>1, ScopeFacts
<1>3. \A b \in Bundles : Life(b) = IF b = Base THEN "active" ELSE "absent"
  BY DEF Init, Life
<1>4. StoreTypes
  <2>1. record \in [Bundles -> [life : Lifecycles, seen : Evidence]]
    BY NoTrialsType DEF Init, Lifecycles
  <2> QED BY <1>1, <1>2, <2>1, NoTrialsType DEF Init, StoreTypes
<1>5. AlphaSpentOnce /\ FixturesHeld /\ RiskHeld
  BY <1>2, <1>3 DEF Init, AlphaSpentOnce, FixturesHeld, RiskHeld
<1>6. AuthorizedIsDecided /\ NegativeHasReason /\ PointerEarned
  BY <1>2 DEF Init, AuthorizedIsDecided, Authorized, NegativeHasReason, PointerEarned, Pointed
<1>7. PointerUndenied
  BY <1>2, <1>3 DEF Init, PointerUndenied, Pointed
<1>8. CoordinatorsOK
  BY IdleType, IdleKnows DEF Init, CoordinatorsOK
<1> QED BY <1>4, <1>5, <1>6, <1>7, <1>8 DEF Inv, StoreOK

LEMMA NextInv == Inv /\ [Next]_<<vars, scope>> => Inv' /\ Progress
<1> SUFFICES ASSUME Inv, [Next]_<<vars, scope>> PROVE Inv' /\ Progress
  OBVIOUS
<1>1. CASE UNCHANGED <<vars, scope>>
  <2>1. UNCHANGED <<store, campaign, co, faults, scope>>
    BY <1>1 DEF vars, budgets
  <2>2. StoreOK' /\ Progress
    BY <2>1, QuietStore DEF Inv, StoreOK, StoreTypes
  <2> QED BY <2>1, <2>2, NobodyMoves DEF Inv
<1>2. CASE Next
  <2>1. scope' = scope
    BY <1>2 DEF Next
  <2>2. ASSUME NEW p \in Procs, Advance(p)
        PROVE  Inv' /\ Progress
    <3>1. CASE recover_stale_confirmed_candidate(p) \/ reserve_confirmation_policy(p) \/ reserve_fixture_plan(p)
               \/ LoadEvidence(p) \/ ReplayEvidence(p) \/ ChooseUnit(p)
      BY <2>1, <3>1, RecoverStep, ReserveStep, FixtureStep, LoadStep, ReplayStep, ChooseStep
    <3>2. CASE PersistNegativeResult(p) \/ record_terminal_decision(p) \/ RejectCandidate(p)
      BY <2>1, <3>2, ExplainStep, DecideStep, RejectStep
    <3>3. CASE BeginStale(p) \/ reject_stale_risk_reservation(p) \/ ExplainStale(p) \/ FinalizeStale(p)
      BY <2>1, <3>3, BeginStep, StaleRiskStep, ExplainStaleStep, FinalizeStep
    <3>4. CASE AuditPasses(p) \/ ExplainBlocked(p)
      BY <2>1, <3>4, AuditStep, ExplainBlockedStep
    <3>5. CASE \E o \in Outcomes : RecordPair(p, o, TRUE)
      BY <2>1, <3>5, PairStep
    <3>6. CASE \E v \in GateOutcomes : authorize_promotion(p, v)
      BY <2>1, <3>6, AuthorizeStep
    <3>7. CASE PromoteCandidate(p, 2)
      BY <2>1, <3>7, PromoteStep
    <3> QED BY <2>2, <3>1, <3>2, <3>3, <3>4, <3>5, <3>6, <3>7 DEF Advance
  <2>3. ASSUME NEW p \in Procs, Interrupt(p)
        PROVE  Inv' /\ Progress
    <3>1. CASE Stop(p)
      BY <2>1, <3>1, StopStep
    <3>2. CASE \E o \in Outcomes : RecordPair(p, o, FALSE)
      BY <2>1, <3>2, PairStep
    <3>3. CASE \E n \in 0 .. 1 : PromoteCandidate(p, n)
      BY <2>1, <3>3, PromoteStep
    <3> QED BY <2>3, <3>1, <3>2, <3>3 DEF Interrupt
  <2>4. CASE \E p \in Procs, c \in Candidates : propose(p, c)
    BY <2>1, <2>4, ProposeStep
  <2>5. CASE \E p \in Procs, c \in Candidates : resume_pending_context_candidate(p, c)
    BY <2>1, <2>5, ResumeStep
  <2>6. CASE \E n \in 0 .. 2 : rollback(n)
    BY <2>1, <2>6, RollbackStep
  <2>7. CASE \E b \in Bundles, n \in 0 .. 2 : rollover_evaluator_epoch(b, n)
    BY <2>1, <2>7, RolloverStep
  <2> QED BY <1>2, <2>2, <2>3, <2>4, <2>5, <2>6, <2>7 DEF Next
<1> QED BY <1>1, <1>2

LEMMA SpecInv == Spec => []Inv
BY InitInv, NextInv, PTL DEF Spec

LEMMA InvBundle == Inv => BundleInv
<1> SUFFICES ASSUME Inv PROVE BundleInv
  OBVIOUS
<1>1. StoreTypes /\ AuthorizedIsDecided /\ NegativeHasReason /\ PointerEarned /\ PointerUndenied
  BY DEF Inv, StoreOK
<1>2. TypeOK
  BY <1>1, ScopeFacts DEF TypeOK, StoreTypes, NegEntries, RiskEntries, Evidence
<1>3. ServedIsEarned
  BY <1>1 DEF ServedIsEarned, PointerEarned, Pointed, Authorized, Confirms, AuthorizedIsDecided
<1>4. ServedIsNotRejected
  <2> SUFFICES ASSUME ptr.promoted \/ faults < 2
               PROVE  record[ptr.bundle].life # "rejected" /\ (ptr.bundle \in Candidates => neg[ptr.bundle] = None)
    BY DEF ServedIsNotRejected
  <2>1. CASE ptr.bundle \notin Candidates
    BY <1>1, <2>1 DEF PointerUndenied, StoreTypes, Life
  <2>2. CASE ptr.bundle \in Candidates
    <3>1. PICK c \in Candidates : c = ptr.bundle
      BY <2>2
    <3>2. Pointed(c) /\ Authorized(c) /\ Confirms(c) /\ Above(trials[c])
      BY <1>1, <3>1, ComparisonSays DEF PointerEarned, Pointed, Confirms
    <3>3. marker[c] = None /\ Life(c) # "rejected"
      BY <1>1, <3>1, <3>2 DEF PointerUndenied, StoreTypes
    <3>4. ~Doomed(c) /\ ~Refused(c)
      BY <3>2 DEF Doomed, Refused, Authorized
    <3> QED BY <1>1, <3>1, <3>3, <3>4 DEF NegativeHasReason, Life
  <2> QED BY <2>1, <2>2
<1> QED BY <1>2, <1>3, <1>4 DEF BundleInv

(* What is served has earned it, and nothing in the store denies it: in    *)
(* every state, with any number of coordinators, candidates, units and     *)
(* faults (store.py, campaign.py, coordinator.py).                         *)
THEOREM BundleSafe == Spec => []BundleInv
BY SpecInv, InvBundle, PTL

LEMMA InvSpent == Inv => SpentOnce
BY DEF Inv, StoreOK, FixturesHeld, SpentOnce, FixturesFresh

(* Whoever resumes a candidate, and however often, it spends its share of  *)
(* the campaign's alpha once and no other candidate sees its fixtures.     *)
THEOREM ResourcesSpentOnce == Spec => []SpentOnce
BY SpecInv, InvSpent, PTL

-----------------------------------------------------------------------------
(* The pointer is given to a candidate by a promotion that passed every    *)
(* check in its own critical section, and was authorized before.           *)
LEMMA PromotionIsEarned ==
    ASSUME Inv, [Next]_<<vars, scope>>, NEW c \in Candidates, Promotes(c)
    PROVE  CanPromote(c) /\ Authorized(c)
<1>1. ptr' # ptr /\ ptr'.bundle = c /\ ptr'.promoted /\ ptr.bundle # c
  BY DEF Promotes
<1>2. \A p \in Procs, n \in 0 .. 2 : PromoteCandidate(p, n) => CanPromote(c) /\ Authorized(c)
  <2> SUFFICES ASSUME NEW p \in Procs, NEW n \in 0 .. 2, PromoteCandidate(p, n)
               PROVE  CanPromote(c) /\ Authorized(c)
    OBVIOUS
  <2>1. PICK d : d = co[p].cand
    OBVIOUS
  <2>2. ptr.bundle # d /\ CanPromote(d) /\ ptr'.bundle = d
    BY <1>1, <2>1 DEF PromoteCandidate, promote, store
  <2>3. co[p].pc = "promote"
    BY DEF PromoteCandidate
  <2>4. Authorized(d) \/ WasServed(d)
    BY <2>1, <2>3, Mover DEF Knows
  <2> QED BY <1>1, <2>2, <2>4 DEF CanPromote, WasServed, Life
<1>3. ~UNCHANGED <<vars, scope>>
  BY <1>1 DEF vars, store
<1>4. \A n \in 0 .. 2 : ~rollback(n)
  BY <1>1 DEF rollback
<1>5. \A b \in Bundles, n \in 0 .. 2 : ~rollover_evaluator_epoch(b, n)
  BY <1>1 DEF rollover_evaluator_epoch
<1>6. \A p \in Procs, d \in Candidates : ~propose(p, d) /\ ~resume_pending_context_candidate(p, d)
  BY <1>1 DEF propose, resume_pending_context_candidate, store
<1>7. ASSUME NEW p \in Procs, Advance(p) \/ Interrupt(p)
      PROVE  \E n \in 0 .. 2 : PromoteCandidate(p, n)
  <2>1. ~recover_stale_confirmed_candidate(p) /\ ~reserve_confirmation_policy(p) /\ ~reserve_fixture_plan(p)
        /\ ~LoadEvidence(p) /\ ~ChooseUnit(p) /\ ~AuditPasses(p) /\ ~Stop(p)
    BY <1>1 DEF recover_stale_confirmed_candidate, reserve_confirmation_policy, reserve_fixture_plan, LoadEvidence,
       ChooseUnit, AuditPasses, Stop, store
  <2>2. ~ReplayEvidence(p) /\ \A o \in Outcomes, whole \in BOOLEAN : ~RecordPair(p, o, whole)
    BY <1>1 DEF ReplayEvidence, RecordPair, record_matched_trials, store
  <2>3. ~PersistNegativeResult(p) /\ ~record_terminal_decision(p) /\ ~RejectCandidate(p) /\ ~BeginStale(p)
    BY <1>1 DEF PersistNegativeResult, record_terminal_decision, RejectCandidate, BeginStale, store
  <2>4. ~reject_stale_risk_reservation(p) /\ ~ExplainStale(p) /\ ~FinalizeStale(p) /\ ~ExplainBlocked(p)
    BY <1>1 DEF reject_stale_risk_reservation, ExplainStale, FinalizeStale, ExplainBlocked, store
  <2>5. \A v \in GateOutcomes : ~authorize_promotion(p, v)
    BY <1>1 DEF authorize_promotion, store
  <2>6. PromoteCandidate(p, 2) \/ \E n \in 0 .. 1 : PromoteCandidate(p, n)
    BY <1>7, <2>1, <2>2, <2>3, <2>4, <2>5 DEF Advance, Interrupt
  <2> QED BY <2>6
<1> QED BY <1>2, <1>3, <1>4, <1>5, <1>6, <1>7 DEF Next

LEMMA StepStands ==
    ASSUME Inv, Progress, [Next]_<<vars, scope>>, NEW c \in Candidates
    PROVE  /\ marker[c] # None \/ neg[c] # None => ~Promotes(c)
           /\ record[c].life = "superseded" => ~Promotes(c) /\ record'[c].life \in {"superseded", "active"}
           /\ \A u \in Units : trials[c][u] # None => trials'[c][u] = trials[c][u]
           /\ record[c].life \in {"confirmed", "rejected", "active", "superseded"} => trials'[c] = trials[c]
<1>1. Promotes(c) => marker[c] = None /\ Life(c) = "confirmed" /\ Confirms(c) /\ Authorized(c)
  BY PromotionIsEarned DEF CanPromote, Life, Confirms
<1>2. Confirms(c) => Above(trials[c])
  BY ComparisonSays DEF Confirms
<1>3. Promotes(c) => neg[c] = None
  BY <1>1, <1>2 DEF Inv, StoreOK, NegativeHasReason, Doomed, Refused, Authorized
<1>4. Life(c) = "superseded" => record'[c].life \in {"superseded", "active"}
  BY DEF Progress, WasServed, Life
<1> QED BY <1>1, <1>3, <1>4 DEF Progress, Decided, Life

(* A dismissed candidate stays out, a superseded one comes back by a       *)
(* rollback only, and evidence is kept: at every step of any coordinator,  *)
(* operator or epoch change.                                               *)
THEOREM DecisionsAreKept == Spec => DecisionsStand
<1>1. Inv /\ [Next]_<<vars, scope>> =>
        [\A c \in Candidates :
         marker[c] # None \/ neg[c] # None => ~Promotes(c)]_vars
  BY NextInv, StepStands
<1>2. Inv /\ [Next]_<<vars, scope>> =>
        [\A c \in Candidates : record[c].life = "superseded" =>
         /\ ~Promotes(c)
         /\ record'[c].life \in {"superseded", "active"}]_vars
  BY NextInv, StepStands
<1>3. Inv /\ [Next]_<<vars, scope>> =>
        [\A c \in Candidates :
         /\ \A u \in Units : trials[c][u] # None => trials'[c][u] = trials[c][u]
         /\ record[c].life \in {"confirmed", "rejected", "active", "superseded"}
               => trials'[c] = trials[c]]_vars
  BY NextInv, StepStands
<1>4. Spec => DismissedStaysOut
  BY <1>1, SpecInv, PTL DEF Spec, DismissedStaysOut
<1>5. Spec => SupersededIsOnlyRestored
  BY <1>2, SpecInv, PTL DEF Spec, SupersededIsOnlyRestored
<1>6. Spec => EvidenceIsKept
  BY <1>3, SpecInv, PTL DEF Spec, EvidenceIsKept
<1> QED BY <1>4, <1>5, <1>6 DEF DecisionsStand
=============================================================================
