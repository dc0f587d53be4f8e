--------------------------- MODULE MCAmbientTrainer ---------------------------
(* Instances of AmbientTrainer: the newer record is listed first.          *)
EXTENDS AmbientTrainer

Descending == [r \in Records |-> 10 - r]
OneBackend == [r \in Records |-> "sft"]
RotatedModel == [c \in {1, 2} |-> IF c = 1 THEN "m1" ELSE "m2"]
OneRubric == [c \in {1, 2} |-> "r1"]
Full == [c \in {1, 2} |-> "full"]

(* The daemon, crashes, failures that open a breaker, an edited charter.   *)
Alone == [Charters |-> {1, 2}, OneShots |-> {}, Hours |-> {1, 2}, Requested |-> 2, Budget |-> 3,
          MaxCrashes |-> 2, MaxErrors |-> 2, MaxOnce |-> 0]

(* Fewer failures than open a breaker.                                     *)
Closed == [Alone EXCEPT !.Charters = {1}, !.Hours = {1}, !.Requested = 1, !.Budget = 1, !.MaxErrors = 1]

(* A one-shot stage at any time.                                           *)
Once == [Closed EXCEPT !.OneShots = {"once"}, !.MaxCrashes = 1, !.MaxErrors = 0, !.MaxOnce = 1]

AmbientScopes == {Alone, Closed, Once}
=============================================================================
