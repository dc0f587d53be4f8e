-------------------------- MODULE MCContextBundles --------------------------
(***************************************************************************)
(* Instances of ContextBundles.  b0 is the bootstrap baseline of the first *)
(* epoch; c1 and c2 are sibling candidates, d1 a candidate on top of c1;   *)
(* r0 and r1 are b0 and c1 rolled over to the second epoch.                *)
(***************************************************************************)
EXTENDS ContextBundles, TLC

CONSTANTS p1, p2, b0, c1, c2, d1, r0, r1

MCParent == [c \in {c1, c2, d1} |-> IF c = d1 THEN c1 ELSE b0]

MCEpoch == [b \in {b0, c1, c2, d1, r0, r1} |-> IF b \in {r0, r1} THEN 2 ELSE 1]

MCContent == [b \in {b0, c1, c2, d1, r0, r1} |-> IF b = r0 THEN b0 ELSE IF b = r1 THEN c1 ELSE b]

(* Two siblings; one confirmation pair at most, so none is inconclusive.   *)
Promotion ==
    [Procs |-> {p1, p2}, Bundles |-> {b0, c1, c2}, Candidates |-> {c1, c2}, Fixtures |-> [c \in {c1, c2, d1} |-> {c}],
     Lane |-> <<"screen", "confirmation", "heldout">>, Outcomes |-> {"win", "loss"}, GateOutcomes |-> {TRUE, FALSE},
     MaxConfirmation |-> 1, MaxFaults |-> 1, MaxRollbacks |-> 1, MaxRollovers |-> 0]

(* The seed namespace of c2's generation runs into a state that c1's plan  *)
(* holds as well.                                                          *)
SharedFixtures == [Promotion EXCEPT !.Fixtures = [c \in {c1, c2} |-> IF c = c2 THEN {c1, c2} ELSE {c}]]

(* A candidate on top of another, two faults, and a change of the epoch.   *)
Lineage == [Promotion EXCEPT !.Bundles = {b0, c1, d1, r0, r1}, !.Candidates = {c1, d1}, !.GateOutcomes = {TRUE},
                             !.MaxFaults = 2, !.MaxRollovers = 1]

(* One candidate, all its evidence, and two faults.                        *)
LongLane == <<"screen", "confirmation", "confirmation", "heldout">>
Evidence == [Promotion EXCEPT !.Bundles = {b0, c1}, !.Candidates = {c1}, !.Lane = LongLane,
                              !.Outcomes = {"win", "loss", "invalid"}, !.MaxConfirmation = 2, !.MaxFaults = 2]

SafetyScopes == {Promotion, SharedFixtures, Lineage, Evidence}

Interchangeable == Permutations({p1, p2})

-----------------------------------------------------------------------------
(* Two coordinators without faults, and one that is interrupted twice.     *)
Together == [Promotion EXCEPT !.MaxFaults = 0]

Alone == [Promotion EXCEPT !.Procs = {p1}, !.Bundles = {b0, c1, c2, r0, r1}, !.Lane = LongLane, !.GateOutcomes = {TRUE},
                           !.MaxConfirmation = 2, !.MaxFaults = 2, !.MaxRollovers = 1]

SettlingScopes == {Together, Alone}

=============================================================================
