------------------------- MODULE AmbientTrainerProofs --------------------------
(***************************************************************************)
(* Proofs about AmbientTrainer, for any records, backends, charters,       *)
(* one-shot processes, crashes and failures.                               *)
(***************************************************************************)
EXTENDS AmbientTrainer, FiniteSetTheorems, WellFoundedInduction, TLAPS

Places == Stages \cup {"off", "sleeping", "training", "publishing", "evaluating", "marking", "routing", "activating", "demoting"}

(* A promotion after its decision.                                         *)
Promoting == {"marking", "routing", "activating", "demoting"}

(* What a process has in hand, whoever else writes the files.              *)
ProcOK(p) ==
    /\ pc[p] \in Promoting \cup {"training", "publishing"} => cur[p] \in Records
    /\ pc[p] \in {"evaluating", "demoting"} => \A r \in todo[p] : snap[p][r] \in Entries \ {None}
    /\ pc[p] \in {"marking", "demoting"} => snap[p][cur[p]] \in Entries
    /\ pc[p] = "marking" => snap[p][cur[p]] # None /\ Incumbent(snap[p]) \in Records \cup {None}
    /\ pc[p] \in {"routing", "activating"} => registry[cur[p]] \in Entries
    /\ pc[p] \in {"evaluating", "marking"} => \A r \in Records : Is(snap[p], r, "active") => manifest # None
    /\ pc[p] \in {"activating", "demoting"} => manifest # None

-----------------------------------------------------------------------------
(* The daemon alone.                                                       *)

(* A candidate that may become active, and beats whom its marker names.    *)
Clean(r) == registry[r].state = "candidate" /\ registry[r].eval \in Evals /\ registry[r].eval.drift_ok

BeatsNamed(r) ==
    LET i == registry[r].previous IN
    i # None => /\ i \in Records /\ i # r /\ registry[i].eval \in Evals
                /\ registry[i].eval.model = registry[r].eval.model
                /\ registry[i].eval.score < registry[r].eval.score

(* Training was within the budget when it began.                           *)
TrainingOK == pc[Daemon] = "training" => used + Requested <= Budget

(* What the daemon has listed is what the files say.                       *)
ListedOK ==
    /\ pc[Daemon] \in {"evaluating", "demoting"} => \A r \in todo[Daemon] : snap[Daemon][r] = registry[r]
    /\ pc[Daemon] \in {"publishing", "marking", "demoting"} => snap[Daemon][cur[Daemon]] = registry[cur[Daemon]]

(* What it decided by is still so.                                         *)
DecidedOK ==
    /\ pc[Daemon] \in Promoting => Clean(cur[Daemon])
    /\ pc[Daemon] = "marking" =>
          /\ Incumbent(snap[Daemon]) # None => Is(registry, Incumbent(snap[Daemon]), "active")
          /\ _beats_incumbent(registry, cur[Daemon], Incumbent(snap[Daemon]))
    /\ pc[Daemon] \in {"routing", "activating", "demoting"} => BeatsNamed(cur[Daemon])
    /\ pc[Daemon] = "demoting" =>
          SlotHolders(registry, cur[Daemon]) \subseteq todo[Daemon] /\ cur[Daemon] \notin todo[Daemon]

AloneOK ==
    /\ \A r, s \in Actives(registry) : Backend[r] = Backend[s] => r = s
    /\ used <= Budget
    /\ TrainingOK /\ ListedOK /\ DecidedOK

(* The inductive invariant.                                                *)
Inv ==
    /\ scope \in Scopes
    /\ TypeOK
    /\ registry \in [Records -> Entries \cup {None}]
    /\ pc \in [Procs -> Places] /\ held \in [Procs -> Charters] /\ DOMAIN snap = Procs
    /\ todo \in [Procs -> SUBSET Records] /\ cur \in [Procs -> Records \cup {None}] /\ drift \in [Procs -> BOOLEAN]
    /\ ActiveIsRouted
    /\ \A p \in Procs : ProcOK(p)
    /\ OneShots = {} => AloneOK

-----------------------------------------------------------------------------
(* First and Best choose from what they are given.                         *)

(* A transitive and irreflexive relation has a least element in any finite *)
(* set that is not empty.                                                  *)
LEMMA Least ==
    ASSUME NEW S, IsFiniteSet(S), S # {}, NEW R,
           \A x \in S : <<x, x>> \notin R,
           \A x, y, z \in S : <<x, y>> \in R /\ <<y, z>> \in R => <<x, z>> \in R
    PROVE  \E x \in S : \A y \in S : <<y, x>> \notin R
<1> DEFINE Below(x) == {y \in S : <<y, x>> \in R}
           B == {Below(x) : x \in S}
<1>1. IsWellFoundedOn(StrictSubsetOrdering(S), SUBSET S)
  BY FS_StrictSubsetOrderingWellFounded, FS_FiniteSubsetsOfFinite
<1>2. B \subseteq SUBSET S /\ B # {}
  <2>1. \A x \in S : Below(x) \in SUBSET S
    OBVIOUS
  <2>2. PICK x \in S : TRUE
    OBVIOUS
  <2>3. Below(x) \in B
    OBVIOUS
  <2> HIDE DEF Below
  <2> QED BY <2>1, <2>3
<1>3. \E b \in B : \A c \in B : <<c, b>> \notin StrictSubsetOrdering(S)
  BY <1>1, <1>2, WFMin, Zenon
<1>4. PICK x \in S : \A z \in S : <<Below(z), Below(x)>> \notin StrictSubsetOrdering(S)
  <2>1. PICK b \in B : \A c \in B : <<c, b>> \notin StrictSubsetOrdering(S)
    BY <1>3
  <2> HIDE DEF Below
  <2>2. PICK x \in S : b = Below(x)
    OBVIOUS
  <2>3. \A z \in S : Below(z) \in B
    OBVIOUS
  <2> QED BY <2>1, <2>2, <2>3
<1>5. ASSUME NEW y \in S, <<y, x>> \in R PROVE FALSE
  <2>1. Below(y) \subseteq Below(x) /\ y \in Below(x) /\ y \notin Below(y)
    BY <1>5
  <2>2. Below(y) # Below(x) /\ Below(y) \in SUBSET S /\ Below(x) \in SUBSET S
    BY <2>1
  <2>3. <<Below(y), Below(x)>> \in StrictSubsetOrdering(S)
    BY <2>1, <2>2 DEF StrictSubsetOrdering
  <2> QED BY <2>3, <1>4
<1> QED BY <1>5

LEMMA FirstOf ==
    ASSUME NEW rs \in SUBSET Records, rs # {}
    PROVE  First(rs) \in rs
<1> DEFINE R == {x \in Records \X Records : Place[x[1]] < Place[x[2]]}
<1>1. IsFiniteSet(rs)
  BY TrainerAssumption, FS_Subset
<1>2. \A x \in rs : Place[x] \in Nat
  BY TrainerAssumption
<1>3. \A x, y \in rs : <<x, y>> \in R <=> Place[x] < Place[y]
  OBVIOUS
<1> HIDE DEF R
<1>4. /\ \A x \in rs : <<x, x>> \notin R
      /\ \A x, y, z \in rs : <<x, y>> \in R /\ <<y, z>> \in R => <<x, z>> \in R
  BY <1>2, <1>3
<1>5. PICK x \in rs : \A y \in rs : <<y, x>> \notin R
  BY <1>1, <1>4, Least
<1>6. \A y \in rs : ~(Place[y] < Place[x])
  BY <1>3, <1>5
<1>7. \A y \in rs : Place[x] <= Place[y]
  BY <1>2, <1>6
<1> QED BY <1>7 DEF First

LEMMA BestOf ==
    ASSUME NEW reg, NEW rs \in SUBSET Records, rs # {}, \A r \in rs : reg[r].eval.score \in Nat
    PROVE  Best(reg, rs) \in rs
<1> DEFINE Before(r, s) == \/ reg[s].eval.score < reg[r].eval.score
                           \/ reg[s].eval.score = reg[r].eval.score /\ Place[r] < Place[s]
           R == {x \in Records \X Records : Before(x[1], x[2])}
<1>1. IsFiniteSet(rs)
  BY TrainerAssumption, FS_Subset
<1>2. \A x \in rs : Place[x] \in Nat
  BY TrainerAssumption
<1>3. \A x, y \in rs : <<x, y>> \in R <=> Before(x, y)
  OBVIOUS
<1> HIDE DEF R
<1>4. /\ \A x \in rs : <<x, x>> \notin R
      /\ \A x, y, z \in rs : <<x, y>> \in R /\ <<y, z>> \in R => <<x, z>> \in R
  BY <1>2, <1>3
<1>5. PICK x \in rs : \A y \in rs : <<y, x>> \notin R
  BY <1>1, <1>4, Least
<1>6. \A y \in rs : ~Before(y, x)
  BY <1>3, <1>5
<1>7. \A y \in rs : \/ reg[y].eval.score < reg[x].eval.score
                    \/ reg[y].eval.score = reg[x].eval.score /\ Place[x] <= Place[y]
  BY <1>2, <1>6
<1> QED BY <1>7 DEF Best

LEMMA IncumbentOf ==
    ASSUME NEW reg
    PROVE  Incumbent(reg) = None \/ (Incumbent(reg) \in Records /\ Is(reg, Incumbent(reg), "active"))
BY FirstOf DEF Incumbent, Actives

-----------------------------------------------------------------------------
(* A step of p, whatever it is.                                            *)

Idle == Stages \cup {"off", "sleeping"}

(* Nobody but p moves; records are not taken out of the registry, nor the  *)
(* entry out of the manifest.                                              *)
Moves(p) ==
    /\ scope' = scope
    /\ registry' \in [Records -> Entries \cup {None}]
    /\ \A r \in Records : registry[r] \in Entries => registry'[r] \in Entries
    /\ manifest # None => manifest' # None
    /\ pc' \in [Procs -> Places] /\ held' \in [Procs -> Charters] /\ DOMAIN snap' = Procs
    /\ todo' \in [Procs -> SUBSET Records] /\ cur' \in [Procs -> Records \cup {None}] /\ drift' \in [Procs -> BOOLEAN]
    /\ \A q \in Procs \ {p} : /\ pc'[q] = pc[q] /\ snap'[q] = snap[q]
                              /\ todo'[q] = todo[q] /\ cur'[q] = cur[q]

LEMMA ScopeFacts ==
    ASSUME scope \in Scopes, scope' = scope
    PROVE  /\ Charters' = Charters /\ OneShots' = OneShots /\ Requested' = Requested /\ Budget' = Budget
           /\ Procs' = Procs /\ Evals' = Evals /\ Entries' = Entries /\ Daemon \in Procs
           /\ Charters \subseteq Nat /\ 1 \in Charters /\ Hours \subseteq 0..Requested /\ Requested \in Nat /\ Budget \in Nat
BY TrainerAssumption DEF Charters, OneShots, Hours, Requested, Budget, Procs, Evals, Entries

LEMMA Frame ==
    ASSUME Inv, NEW p \in Procs, Moves(p), TypeOK', ActiveIsRouted', ProcOK(p)', OneShots = {} => AloneOK'
    PROVE  Inv'
<1>1. /\ scope' \in Scopes /\ OneShots' = OneShots /\ Procs' = Procs /\ Charters' = Charters /\ Entries' = Entries
  BY ScopeFacts DEF Inv, Moves
<1>2. ASSUME NEW q \in Procs PROVE ProcOK(q)'
  <2>1. CASE q = p BY <2>1
  <2>2. CASE q # p
    <3>1. ProcOK(q) /\ pc'[q] = pc[q] /\ snap'[q] = snap[q] /\ todo'[q] = todo[q] /\ cur'[q] = cur[q]
      BY <2>2 DEF Inv, Moves
    <3> QED BY <3>1, <1>1 DEF ProcOK, Moves, Is, Incumbent, Actives, First, Promoting
  <2> QED BY <2>1, <2>2
<1> QED BY <1>1, <1>2 DEF Inv, Moves

-----------------------------------------------------------------------------
(* The steps.                                                              *)

(* What p has in hand after a step that leaves the files to others.        *)
Hands(p) ==
    /\ pc' \in [Procs -> Places] /\ held' \in [Procs -> Charters] /\ DOMAIN snap' = Procs
    /\ todo' \in [Procs -> SUBSET Records] /\ cur' \in [Procs -> Records \cup {None}] /\ drift' \in [Procs -> BOOLEAN]
    /\ \A q \in Procs \ {p} : /\ pc'[q] = pc[q] /\ snap'[q] = snap[q]
                              /\ todo'[q] = todo[q] /\ cur'[q] = cur[q]

LEMMA Stands ==
    ASSUME Inv, NEW p \in Procs
    PROVE  /\ scope \in Scopes /\ TypeOK /\ registry \in [Records -> Entries \cup {None}]
           /\ pc \in [Procs -> Places] /\ held \in [Procs -> Charters] /\ DOMAIN snap = Procs
           /\ todo \in [Procs -> SUBSET Records] /\ cur \in [Procs -> Records \cup {None}] /\ drift \in [Procs -> BOOLEAN]
           /\ ActiveIsRouted /\ ProcOK(p)
           /\ OneShots = {} => AloneOK /\ p = Daemon
BY DEF Inv, Procs

LEMMA ForgetHands ==
    ASSUME Inv, NEW p \in Procs, Forget(p), NEW l \in Places, pc' = [pc EXCEPT ![p] = l], held' = held
    PROVE  Hands(p) /\ pc'[p] = l
<1>1. /\ pc \in [Procs -> Places] /\ held \in [Procs -> Charters] /\ DOMAIN snap = Procs
      /\ todo \in [Procs -> SUBSET Records] /\ cur \in [Procs -> Records \cup {None}] /\ drift \in [Procs -> BOOLEAN]
  BY DEF Inv
<1>2. drift' \in [Procs -> BOOLEAN]
  BY <1>1 DEF Forget
<1> QED BY <1>1, <1>2 DEF Forget, Hands

LEMMA ReturnHands ==
    ASSUME Inv, NEW p \in Procs, NEW stage \in Stages, NEW failed, Return(p, stage, failed), held' = held
    PROVE  Hands(p) /\ pc'[p] \in Idle
<1>1. Following[stage] \in Idle
  BY DEF Following, Stages, Idle
<1>2. PICK l \in Idle : pc' = [pc EXCEPT ![p] = l]
  BY <1>1 DEF Return, Goto, Idle
<1>3. l \in Places
  BY DEF Idle, Places
<1>4. Forget(p)
  BY DEF Return
<1> QED BY <1>2, <1>3, <1>4, ForgetHands

(* A step after which p has nothing in hand.                               *)
LEMMA IdleStep ==
    ASSUME Inv, NEW p \in Procs, scope' = scope, Hands(p), pc'[p] \in Idle,
           UNCHANGED <<registry, manifest, last>>, TypeOK', OneShots = {} => used' <= Budget
    PROVE  Inv'
<1>1. /\ scope \in Scopes /\ registry \in [Records -> Entries \cup {None}]
      /\ ActiveIsRouted /\ (OneShots = {} => AloneOK /\ p = Daemon)
  BY Stands
<1>2. Moves(p)
  BY <1>1 DEF Moves, Hands
<1>3. ActiveIsRouted'
  BY <1>1 DEF ActiveIsRouted, Actives, Is
<1>4. ProcOK(p)'
  BY DEF ProcOK, Idle, Stages, Promoting
<1>5. ASSUME OneShots = {} PROVE AloneOK'
  <2>1. TrainingOK' /\ ListedOK' /\ DecidedOK'
    BY <1>1, <1>5 DEF TrainingOK, ListedOK, DecidedOK, Idle, Stages, Promoting
  <2>2. Budget' = Budget
    BY DEF Budget
  <2> QED BY <2>1, <2>2, <1>1, <1>5 DEF AloneOK, Actives, Is
<1> QED BY <1>2, <1>3, <1>4, <1>5, Frame

(* p moves from one stage to the next, or stops.                           *)
LEMMA GotoStep ==
    ASSUME Inv, NEW p \in Procs, scope' = scope, NEW l \in Idle, Goto(p, l),
           UNCHANGED <<files, world, hand, last>>, held' \in [Procs -> Charters]
    PROVE  Inv'
<1>1. /\ TypeOK /\ pc \in [Procs -> Places] /\ held \in [Procs -> Charters] /\ DOMAIN snap = Procs
      /\ todo \in [Procs -> SUBSET Records] /\ cur \in [Procs -> Records \cup {None}] /\ drift \in [Procs -> BOOLEAN]
      /\ OneShots = {} => AloneOK
  BY Stands
<1>2. Procs' = Procs /\ Charters' = Charters /\ Entries' = Entries
  BY Stands, ScopeFacts
<1>3. TypeOK'
  BY <1>1, <1>2 DEF TypeOK, files, world, hand
<1>4. l \in Places
  BY DEF Idle, Places
<1>5. Hands(p) /\ pc'[p] \in Idle
  BY <1>1, <1>4 DEF Hands, Goto, hand
<1> QED BY <1>1, <1>3, <1>5, IdleStep DEF files, AloneOK

LEMMA PassOverStep ==
    ASSUME Inv, NEW p \in Procs, scope' = scope, PassOver(p) \/ Cycle(p)
    PROVE  Inv'
<1>1. held \in [Procs -> Charters]
  BY Stands
<1>2. PICK l \in Idle : Goto(p, l)
  <2>1. CASE PassOver(p)
    BY <2>1 DEF PassOver, Following, Stages, Idle
  <2>2. CASE Cycle(p)
    BY <2>2 DEF Cycle, Idle, Stages
  <2> QED BY <2>1, <2>2
<1> QED BY <1>1, <1>2, GotoStep DEF PassOver, Cycle

LEMMA StopStep ==
    ASSUME Inv, scope' = scope, Stop
    PROVE  Inv'
<1>1. Daemon \in Procs
  BY DEF Procs
<1>2. held \in [Procs -> Charters]
  BY <1>1, Stands
<1> QED BY <1>1, <1>2, GotoStep DEF Stop, Idle

LEMMA LaunchStep ==
    ASSUME Inv, NEW p \in Procs, NEW stage \in Stages, scope' = scope, Launch(p, stage)
    PROVE  Inv'
<1>1. held \in [Procs -> Charters] /\ charter \in Charters
  BY Stands DEF TypeOK
<1>2. held' \in [Procs -> Charters]
  BY <1>1 DEF Launch
<1> QED BY <1>2, GotoStep DEF Launch, Idle

(* A stage that returns without having written anything.                   *)
LEMMA QuietReturn ==
    ASSUME Inv, NEW p \in Procs, scope' = scope, Hands(p), pc'[p] \in Idle, UNCHANGED <<files, world, last>>
    PROVE  Inv'
<1>1. TypeOK /\ scope \in Scopes /\ (OneShots = {} => AloneOK)
  BY Stands
<1>2. Procs' = Procs /\ Charters' = Charters /\ Entries' = Entries
  BY <1>1, ScopeFacts
<1>3. TypeOK'
  BY <1>1, <1>2 DEF TypeOK, files, world, Hands
<1> QED BY <1>1, <1>3, IdleStep DEF files, AloneOK

LEMMA CrashStep ==
    ASSUME Inv, NEW p \in Procs, scope' = scope, Crash(p)
    PROVE  Inv'
<1>1. Hands(p) /\ pc'[p] = "off"
  BY ForgetHands DEF Crash, Goto, Places
<1> QED BY <1>1, QuietReturn DEF Crash, Idle

LEMMA FailedStep ==
    ASSUME Inv, NEW p \in Procs, scope' = scope, TrainingFails(p) \/ EndEvaluating(p) \/ RoutingFails(p)
    PROVE  Inv'
<1>1. Hands(p) /\ pc'[p] \in Idle
  BY ReturnHands DEF TrainingFails, EndEvaluating, RoutingFails, Stages
<1> QED BY <1>1, QuietReturn DEF TrainingFails, EndEvaluating, RoutingFails

(* What was decided stays so while the files and the hand do.              *)
LEMMA Undecided ==
    ASSUME DecidedOK, UNCHANGED <<registry, manifest, pc, snap, todo, cur>>, Evals' = Evals
    PROVE  DecidedOK'
<1>1. \A r : Clean(r) => Clean(r)'
  BY DEF Clean
<1>2. \A r : BeatsNamed(r) => BeatsNamed(r)'
  BY DEF BeatsNamed
<1>3. \A r : SlotHolders(registry, r)' = SlotHolders(registry, r)
  BY DEF SlotHolders, Actives, Is
<1>4. Incumbent(snap[Daemon])' = Incumbent(snap[Daemon])
  BY DEF Incumbent, Actives, First, Is
<1>5. \A r, i : _beats_incumbent(registry, r, i)' = _beats_incumbent(registry, r, i)
  BY DEF _beats_incumbent
<1>6. \A r : Is(registry, r, "active")' = Is(registry, r, "active")
  BY DEF Is
<1> QED BY <1>1, <1>2, <1>3, <1>4, <1>5, <1>6 DEF DecidedOK

(* The world outside.                                                      *)
LEMMA WorldStep ==
    ASSUME Inv, scope' = scope, EditCharter \/ Grow \/ WindowSlides
    PROVE  Inv'
<1>1. Daemon \in Procs
  BY DEF Procs
<1>2. /\ scope \in Scopes /\ TypeOK /\ registry \in [Records -> Entries \cup {None}] /\ ActiveIsRouted
      /\ pc \in [Procs -> Places] /\ held \in [Procs -> Charters] /\ DOMAIN snap = Procs
      /\ todo \in [Procs -> SUBSET Records] /\ cur \in [Procs -> Records \cup {None}] /\ drift \in [Procs -> BOOLEAN]
      /\ ProcOK(Daemon) /\ (OneShots = {} => AloneOK)
  BY <1>1, Stands
<1>3. UNCHANGED <<registry, manifest, pc, held, snap, todo, cur, drift, last>>
  BY DEF EditCharter, Grow, WindowSlides, files, world, hand
<1>4. /\ OneShots' = OneShots /\ Requested' = Requested /\ Budget' = Budget /\ Procs' = Procs /\ Evals' = Evals
      /\ Charters' = Charters /\ Entries' = Entries /\ Requested \in Nat /\ Budget \in Nat
  BY <1>2, ScopeFacts
<1>5. charter' \in Charters /\ count' \in Records \cup {0} /\ used' \in Nat /\ used' <= used
  BY <1>2 DEF EditCharter, Grow, WindowSlides, files, world, TypeOK
<1>6. TypeOK'
  BY <1>2, <1>3, <1>4, <1>5 DEF TypeOK
<1>7. Moves(Daemon)
  BY <1>2, <1>3 DEF Moves
<1>8. ActiveIsRouted' /\ ProcOK(Daemon)'
  BY <1>2, <1>3, <1>4 DEF ActiveIsRouted, ProcOK, Actives, Is, Incumbent, First, Promoting
<1>9. ASSUME OneShots = {} PROVE AloneOK'
  <2>1. TrainingOK /\ ListedOK /\ DecidedOK /\ used <= Budget /\ used \in Nat
    BY <1>2, <1>9 DEF AloneOK, TypeOK
  <2>2. TrainingOK'
    <3>1. \A a, b, c, d \in Nat : b <= a /\ a + c <= d => b + c <= d
      OBVIOUS
    <3>2. used \in Nat /\ used' \in Nat /\ used' <= used /\ Requested \in Nat /\ Budget \in Nat
      BY <2>1, <1>4, <1>5
    <3> QED BY <2>1, <3>1, <3>2, <1>3, <1>4 DEF TrainingOK
  <2>3. ListedOK'
    BY <2>1, <1>3 DEF ListedOK
  <2>4. DecidedOK'
    BY <2>1, <1>3, <1>4, Undecided
  <2> QED BY <2>1, <2>2, <2>3, <2>4, <1>2, <1>3, <1>4, <1>5, <1>9 DEF AloneOK, Actives, Is
<1> QED BY <1>1, <1>6, <1>7, <1>8, <1>9, Frame

(* Nothing happens.                                                        *)
LEMMA StutterStep ==
    ASSUME Inv, scope' = scope, UNCHANGED <<registry, manifest, used, charter, count, pc, held, snap, todo, cur, drift, last>>
    PROVE  Inv'
<1>1. Daemon \in Procs
  BY DEF Procs
<1>2. /\ scope \in Scopes /\ TypeOK /\ registry \in [Records -> Entries \cup {None}] /\ ActiveIsRouted
      /\ pc \in [Procs -> Places] /\ held \in [Procs -> Charters] /\ DOMAIN snap = Procs
      /\ todo \in [Procs -> SUBSET Records] /\ cur \in [Procs -> Records \cup {None}] /\ drift \in [Procs -> BOOLEAN]
      /\ ProcOK(Daemon) /\ (OneShots = {} => AloneOK)
  BY <1>1, Stands
<1>3. /\ OneShots' = OneShots /\ Requested' = Requested /\ Budget' = Budget /\ Procs' = Procs /\ Evals' = Evals
      /\ Charters' = Charters /\ Entries' = Entries
  BY <1>2, ScopeFacts
<1>4. TypeOK' /\ Moves(Daemon)
  BY <1>2, <1>3 DEF TypeOK, Moves
<1>5. ActiveIsRouted' /\ ProcOK(Daemon)'
  BY <1>2, <1>3 DEF ActiveIsRouted, ProcOK, Actives, Is, Incumbent, First, Promoting
<1>6. AloneOK => AloneOK'
  BY <1>3, Undecided DEF AloneOK, TrainingOK, ListedOK, Is, Actives
<1> QED BY <1>1, <1>2, <1>4, <1>5, <1>6, Frame

-----------------------------------------------------------------------------
LEMMA StartTrainingStep ==
    ASSUME Inv, NEW p \in Procs, scope' = scope, StartTraining(p)
    PROVE  Inv'
<1>1. /\ scope \in Scopes /\ TypeOK /\ registry \in [Records -> Entries \cup {None}]
      /\ pc \in [Procs -> Places] /\ held \in [Procs -> Charters] /\ DOMAIN snap = Procs
      /\ todo \in [Procs -> SUBSET Records] /\ cur \in [Procs -> Records \cup {None}] /\ drift \in [Procs -> BOOLEAN]
      /\ ActiveIsRouted /\ ProcOK(p) /\ (OneShots = {} => AloneOK /\ p = Daemon)
  BY Stands
<1>2. /\ OneShots' = OneShots /\ Requested' = Requested /\ Budget' = Budget /\ Procs' = Procs /\ Evals' = Evals
      /\ Charters' = Charters /\ Entries' = Entries /\ Requested \in Nat /\ Budget \in Nat
  BY <1>1, ScopeFacts
<1>3. CASE Return(p, "train", FALSE)
  <2>1. Hands(p) /\ pc'[p] \in Idle
    BY <1>3, ReturnHands DEF StartTraining, Stages
  <2> QED BY <2>1, QuietReturn DEF StartTraining
<1>4. CASE ~Return(p, "train", FALSE)
  <2>1. /\ count \in Records /\ budget_allows /\ cur' = [cur EXCEPT ![p] = count] /\ pc' = [pc EXCEPT ![p] = "training"]
        /\ UNCHANGED <<registry, manifest, used, charter, count, held, snap, todo, drift, last>>
    BY <1>4 DEF StartTraining, Goto, files, world
  <2>2. cur' \in [Procs -> Records \cup {None}] /\ cur'[p] \in Records /\ pc' \in [Procs -> Places] /\ pc'[p] = "training"
    BY <1>1, <2>1 DEF Places
  <2>3. Moves(p)
    BY <1>1, <2>1, <2>2 DEF Moves
  <2>4. TypeOK' /\ ActiveIsRouted'
    BY <1>1, <1>2, <2>1, <2>2 DEF TypeOK, ActiveIsRouted, Actives, Is
  <2>5. ProcOK(p)'
    BY <2>2 DEF ProcOK, Promoting
  <2>6. ASSUME OneShots = {} PROVE AloneOK'
    <3>1. TrainingOK' /\ ListedOK' /\ DecidedOK'
      BY <1>1, <1>2, <2>1, <2>2, <2>6 DEF TrainingOK, ListedOK, DecidedOK, Promoting, budget_allows
    <3> QED BY <3>1, <1>1, <1>2, <2>1, <2>6 DEF AloneOK, Actives, Is
  <2> QED BY <2>3, <2>4, <2>5, <2>6, Frame
<1> QED BY <1>3, <1>4

LEMMA EndTrainingStep ==
    ASSUME Inv, NEW p \in Procs, NEW hours \in Hours, scope' = scope, EndTraining(p, hours)
    PROVE  Inv'
<1>1. /\ scope \in Scopes /\ TypeOK /\ registry \in [Records -> Entries \cup {None}]
      /\ pc \in [Procs -> Places] /\ held \in [Procs -> Charters] /\ DOMAIN snap = Procs
      /\ todo \in [Procs -> SUBSET Records] /\ cur \in [Procs -> Records \cup {None}] /\ drift \in [Procs -> BOOLEAN]
      /\ ActiveIsRouted /\ ProcOK(p) /\ (OneShots = {} => AloneOK /\ p = Daemon)
  BY Stands
<1>2. /\ OneShots' = OneShots /\ Requested' = Requested /\ Budget' = Budget /\ Procs' = Procs /\ Evals' = Evals
      /\ Charters' = Charters /\ Entries' = Entries /\ Requested \in Nat /\ Budget \in Nat
  BY <1>1, ScopeFacts
<1>3. /\ pc[p] = "training" /\ used' = used + hours /\ snap' = [snap EXCEPT ![p] = registry] /\ pc' = [pc EXCEPT ![p] = "publishing"]
      /\ UNCHANGED <<registry, manifest, charter, count, held, todo, cur, drift, last>>
  BY DEF EndTraining, Goto, world
<1>4. hours \in Nat /\ hours <= Requested /\ used \in Nat /\ used' \in Nat
  BY <1>1, <1>3, ScopeFacts DEF TypeOK
<1>5. pc' \in [Procs -> Places] /\ pc'[p] = "publishing" /\ DOMAIN snap' = Procs /\ snap'[p] = registry
  BY <1>1, <1>3 DEF Places
<1>6. Moves(p)
  BY <1>1, <1>3, <1>5 DEF Moves
<1>7. TypeOK' /\ ActiveIsRouted'
  BY <1>1, <1>2, <1>3, <1>4 DEF TypeOK, ActiveIsRouted, Actives, Is
<1>8. ProcOK(p)'
  BY <1>1, <1>3, <1>5 DEF ProcOK, Promoting
<1>9. ASSUME OneShots = {} PROVE AloneOK'
  <2>1. p = Daemon /\ used + Requested <= Budget
    BY <1>1, <1>3, <1>9 DEF AloneOK, TrainingOK
  <2>2. used' <= Budget
    <3>1. \A a, b, c, d \in Nat : b <= c /\ a + c <= d => a + b <= d
      OBVIOUS
    <3> QED BY <3>1, <2>1, <1>2, <1>3, <1>4
  <2>3. TrainingOK' /\ ListedOK' /\ DecidedOK'
    BY <1>3, <1>5, <2>1 DEF TrainingOK, ListedOK, DecidedOK, Promoting
  <2> QED BY <2>2, <2>3, <1>1, <1>2, <1>3, <1>9 DEF AloneOK, Actives, Is
<1> QED BY <1>6, <1>7, <1>8, <1>9, Frame

(* p writes entry e of record r, and goes on.                              *)
LEMMA Written ==
    ASSUME Inv, NEW r \in Records, NEW e \in Entries, registry' = [registry EXCEPT ![r] = e]
    PROVE  /\ registry' \in [Records -> Entries \cup {None}] /\ registry'[r] = e
           /\ \A s \in Records \ {r} : registry'[s] = registry[s]
           /\ \A s \in Records : registry[s] \in Entries => registry'[s] \in Entries
           /\ \A s \in Records : registry'[s] = None \/ registry'[s] \in Entries
BY DEF Inv

LEMMA PublishStep ==
    ASSUME Inv, NEW p \in Procs, scope' = scope, publish_candidate(p)
    PROVE  Inv'
<1>1. /\ scope \in Scopes /\ TypeOK /\ registry \in [Records -> Entries \cup {None}]
      /\ pc \in [Procs -> Places] /\ held \in [Procs -> Charters] /\ DOMAIN snap = Procs
      /\ todo \in [Procs -> SUBSET Records] /\ cur \in [Procs -> Records \cup {None}] /\ drift \in [Procs -> BOOLEAN]
      /\ ActiveIsRouted /\ ProcOK(p) /\ (OneShots = {} => AloneOK /\ p = Daemon)
  BY Stands
<1>2. /\ OneShots' = OneShots /\ Requested' = Requested /\ Budget' = Budget /\ Procs' = Procs /\ Evals' = Evals
      /\ Charters' = Charters /\ Entries' = Entries /\ Requested \in Nat /\ Budget \in Nat
  BY <1>1, ScopeFacts
<1>3. Hands(p) /\ pc'[p] \in Idle
  BY ReturnHands DEF publish_candidate, Stages
<1>4. cur[p] \in Records /\ UNCHANGED <<manifest, used, charter, count, last>>
  BY <1>1 DEF publish_candidate, ProcOK, world
<1>5. CASE registry' = registry
  BY <1>3, <1>4, <1>5, QuietReturn DEF files, world
<1>6. CASE snap[p][cur[p]] = None /\ registry' = [registry EXCEPT ![cur[p]] = Candidate]
  <2>1. Candidate \in Entries /\ Candidate.state = "candidate"
    BY DEF Candidate, Entries
  <2>2. /\ registry' \in [Records -> Entries \cup {None}] /\ registry'[cur[p]] = Candidate
        /\ \A s \in Records \ {cur[p]} : registry'[s] = registry[s]
        /\ \A s \in Records : registry[s] \in Entries => registry'[s] \in Entries
        /\ \A s \in Records : registry'[s] = None \/ registry'[s] \in Entries
    BY <1>4, <1>6, <2>1, Written
  <2>3. Moves(p)
    BY <1>3, <1>4, <2>2 DEF Moves, Hands
  <2>4. TypeOK'
    BY <1>1, <1>2, <1>3, <1>4, <2>2 DEF TypeOK, Hands
  <2>5. \A s \in Records : Is(registry', s, "active") => Is(registry, s, "active")
    BY <2>1, <2>2 DEF Is
  <2>6. ActiveIsRouted'
    BY <1>1, <1>4, <2>5 DEF ActiveIsRouted, Actives
  <2>7. ProcOK(p)'
    BY <1>3 DEF ProcOK, Idle, Stages, Promoting
  <2>8. ASSUME OneShots = {} PROVE AloneOK'
    <3>1. TrainingOK' /\ ListedOK' /\ DecidedOK'
      BY <1>1, <1>3, <2>8 DEF TrainingOK, ListedOK, DecidedOK, Idle, Stages, Promoting
    <3> QED BY <3>1, <1>1, <1>2, <1>4, <2>5, <2>8 DEF AloneOK, Actives
  <2> QED BY <2>3, <2>4, <2>6, <2>7, <2>8, Frame
<1> QED BY <1>5, <1>6 DEF publish_candidate

LEMMA StartEvaluatingStep ==
    ASSUME Inv, NEW p \in Procs, NEW ok \in BOOLEAN, scope' = scope, StartEvaluating(p, ok)
    PROVE  Inv'
<1>1. /\ scope \in Scopes /\ TypeOK /\ registry \in [Records -> Entries \cup {None}]
      /\ pc \in [Procs -> Places] /\ held \in [Procs -> Charters] /\ DOMAIN snap = Procs
      /\ todo \in [Procs -> SUBSET Records] /\ cur \in [Procs -> Records \cup {None}] /\ drift \in [Procs -> BOOLEAN]
      /\ ActiveIsRouted /\ ProcOK(p) /\ (OneShots = {} => AloneOK /\ p = Daemon)
  BY Stands
<1>2. /\ OneShots' = OneShots /\ Requested' = Requested /\ Budget' = Budget /\ Procs' = Procs /\ Evals' = Evals
      /\ Charters' = Charters /\ Entries' = Entries /\ Requested \in Nat /\ Budget \in Nat
  BY <1>1, ScopeFacts
<1>3. /\ snap' = [snap EXCEPT ![p] = registry] /\ todo' = [todo EXCEPT ![p] = StaleEval(held[p], registry)]
      /\ drift' = [drift EXCEPT ![p] = ok] /\ pc' = [pc EXCEPT ![p] = "evaluating"]
      /\ UNCHANGED <<registry, manifest, used, charter, count, held, cur, last>>
  BY DEF StartEvaluating, Goto, files, world
<1>4. /\ StaleEval(held[p], registry) \in SUBSET Records
      /\ \A r \in StaleEval(held[p], registry) : registry[r] \in Entries \ {None}
  BY <1>1 DEF StaleEval, Is
<1>5. /\ pc' \in [Procs -> Places] /\ pc'[p] = "evaluating" /\ DOMAIN snap' = Procs /\ snap'[p] = registry
      /\ todo' \in [Procs -> SUBSET Records] /\ todo'[p] = StaleEval(held[p], registry)
  BY <1>1, <1>3, <1>4 DEF Places
<1>6. drift' \in [Procs -> BOOLEAN]
  BY <1>1, <1>3
<1>7. Moves(p)
  BY <1>1, <1>3, <1>5, <1>6 DEF Moves
<1>8. TypeOK' /\ ActiveIsRouted'
  BY <1>1, <1>2, <1>3, <1>5 DEF TypeOK, ActiveIsRouted, Actives, Is
<1>9. ProcOK(p)'
  BY <1>1, <1>2, <1>3, <1>4, <1>5 DEF ProcOK, Promoting, ActiveIsRouted, Actives, Is
<1>10. ASSUME OneShots = {} PROVE AloneOK'
  <2>1. p = Daemon
    BY <1>1, <1>10
  <2>2. TrainingOK' /\ ListedOK' /\ DecidedOK'
    BY <1>3, <1>5, <2>1 DEF TrainingOK, ListedOK, DecidedOK, Promoting
  <2> QED BY <2>2, <1>1, <1>2, <1>3, <1>10 DEF AloneOK, Actives, Is
<1> QED BY <1>7, <1>8, <1>9, <1>10, Frame

LEMMA EvaluateStep ==
    ASSUME Inv, NEW p \in Procs, NEW score \in Scores, scope' = scope, EvaluateRecord(p, score)
    PROVE  Inv'
<1>1. /\ scope \in Scopes /\ TypeOK /\ registry \in [Records -> Entries \cup {None}]
      /\ pc \in [Procs -> Places] /\ held \in [Procs -> Charters] /\ DOMAIN snap = Procs
      /\ todo \in [Procs -> SUBSET Records] /\ cur \in [Procs -> Records \cup {None}] /\ drift \in [Procs -> BOOLEAN]
      /\ ActiveIsRouted /\ ProcOK(p) /\ (OneShots = {} => AloneOK /\ p = Daemon)
  BY Stands
<1>2. /\ OneShots' = OneShots /\ Requested' = Requested /\ Budget' = Budget /\ Procs' = Procs /\ Evals' = Evals
      /\ Charters' = Charters /\ Entries' = Entries /\ Requested \in Nat /\ Budget \in Nat
  BY <1>1, ScopeFacts
<1> DEFINE r == First(todo[p])
           eval == [fingerprint |-> Fingerprint(held[p]), model |-> AnchorModel[held[p]],
                    score |-> score, drift_ok |-> drift[p]]
           e == [snap[p][r] EXCEPT !.eval = eval]
<1>3. /\ pc[p] = "evaluating" /\ todo[p] # {} /\ registry' = [registry EXCEPT ![r] = e]
      /\ todo' = [todo EXCEPT ![p] = @ \ {r}]
      /\ UNCHANGED <<manifest, used, charter, count, pc, held, snap, cur, drift, last>>
  BY DEF EvaluateRecord, world
<1>4. r \in todo[p] /\ r \in Records
  BY <1>1, <1>3, FirstOf
<1>5. snap[p][r] \in Entries /\ snap[p][r] # None
  BY <1>1, <1>3, <1>4 DEF ProcOK
<1>6. held[p] \in Charters /\ drift[p] \in BOOLEAN
  BY <1>1
<1> HIDE DEF r
<1>7. eval \in Evals
  BY <1>6 DEF Evals
<1> HIDE DEF eval
<1>8. e \in Entries /\ e.state = snap[p][r].state
  BY <1>5, <1>7 DEF Entries
<1> HIDE DEF e
<1>10. /\ registry' \in [Records -> Entries \cup {None}] /\ registry'[r] = e
       /\ \A s \in Records \ {r} : registry'[s] = registry[s]
       /\ \A s \in Records : registry[s] \in Entries => registry'[s] \in Entries
       /\ \A s \in Records : registry'[s] = None \/ registry'[s] \in Entries
  BY <1>3, <1>4, <1>8, Written
<1>11. todo' \in [Procs -> SUBSET Records] /\ todo'[p] = todo[p] \ {r}
  BY <1>1, <1>3
<1>12. Moves(p)
  BY <1>1, <1>3, <1>10, <1>11 DEF Moves
<1>13. TypeOK'
  BY <1>1, <1>2, <1>3, <1>10, <1>11 DEF TypeOK
<1>14. Is(registry', r, "active") => snap[p][r].state = "active"
  BY <1>8, <1>10 DEF Is
<1>15. ActiveIsRouted'
  <2>1. \A s \in Records \ {r} : Is(registry', s, "active") => Is(registry, s, "active")
    BY <1>10 DEF Is
  <2>2. CASE manifest # None
    BY <2>2, <1>3 DEF ActiveIsRouted
  <2>3. CASE manifest = None
    <3>1. Actives(registry) = {}
      BY <2>3, <1>1 DEF ActiveIsRouted
    <3>2. ~Is(snap[p], r, "active")
      BY <2>3, <1>1, <1>3, <1>4 DEF ProcOK
    <3>3. ~Is(registry', r, "active") \/ snap[p][r] = None
      BY <3>2, <1>14 DEF Is
    <3>4. ~Is(registry', r, "active")
      BY <3>3, <1>5
    <3> QED BY <2>1, <3>1, <3>4, <1>4 DEF ActiveIsRouted, Actives
  <2> QED BY <2>2, <2>3
<1>16. ProcOK(p)'
  BY <1>1, <1>2, <1>3, <1>11 DEF ProcOK, Promoting, Is
<1>17. ASSUME OneShots = {} PROVE AloneOK'
  <2>1. p = Daemon /\ TrainingOK /\ ListedOK /\ DecidedOK /\ snap[p][r] = registry[r]
    BY <1>1, <1>3, <1>4, <1>17 DEF AloneOK, ListedOK
  <2>2. TrainingOK' /\ ListedOK' /\ DecidedOK'
    BY <1>2, <1>3, <1>10, <1>11, <1>1, <2>1 DEF TrainingOK, ListedOK, DecidedOK, Promoting
  <2>3. \A s \in Records : Is(registry', s, "active") => Is(registry, s, "active")
    BY <1>5, <1>10, <1>14, <2>1 DEF Is
  <2> QED BY <2>2, <2>3, <1>1, <1>2, <1>3, <1>17 DEF AloneOK, Actives
<1> QED BY <1>12, <1>13, <1>15, <1>16, <1>17, Frame

LEMMA EvaluationFailsStep ==
    ASSUME Inv, NEW p \in Procs, scope' = scope, EvaluationFails(p)
    PROVE  Inv'
<1>1. /\ scope \in Scopes /\ TypeOK /\ registry \in [Records -> Entries \cup {None}]
      /\ pc \in [Procs -> Places] /\ held \in [Procs -> Charters] /\ DOMAIN snap = Procs
      /\ todo \in [Procs -> SUBSET Records] /\ cur \in [Procs -> Records \cup {None}] /\ drift \in [Procs -> BOOLEAN]
      /\ ActiveIsRouted /\ ProcOK(p) /\ (OneShots = {} => AloneOK /\ p = Daemon)
  BY Stands
<1>2. /\ OneShots' = OneShots /\ Requested' = Requested /\ Budget' = Budget /\ Procs' = Procs /\ Evals' = Evals
      /\ Charters' = Charters /\ Entries' = Entries /\ Requested \in Nat /\ Budget \in Nat
  BY <1>1, ScopeFacts
<1> DEFINE r == First(todo[p])
<1>3. /\ pc[p] = "evaluating" /\ todo' = [todo EXCEPT ![p] = @ \ {r}]
      /\ UNCHANGED <<registry, manifest, used, charter, count, pc, held, snap, cur, drift, last>>
  BY DEF EvaluationFails, files, world
<1> HIDE DEF r
<1>4. todo' \in [Procs -> SUBSET Records] /\ todo'[p] = todo[p] \ {r}
  BY <1>1, <1>3
<1>5. Moves(p)
  BY <1>1, <1>3, <1>4 DEF Moves
<1>6. TypeOK' /\ ActiveIsRouted'
  BY <1>1, <1>2, <1>3, <1>4 DEF TypeOK, ActiveIsRouted, Actives, Is
<1>7. ProcOK(p)'
  BY <1>1, <1>2, <1>3, <1>4 DEF ProcOK, Promoting, Is
<1>8. ASSUME OneShots = {} PROVE AloneOK'
  <2>1. p = Daemon /\ ListedOK
    BY <1>1, <1>8 DEF AloneOK
  <2>2. TrainingOK' /\ ListedOK' /\ DecidedOK'
    BY <1>3, <1>4, <2>1 DEF TrainingOK, ListedOK, DecidedOK, Promoting
  <2> QED BY <2>2, <1>1, <1>2, <1>3, <1>8 DEF AloneOK, Actives, Is
<1> QED BY <1>5, <1>6, <1>7, <1>8, Frame

LEMMA StartPromotingStep ==
    ASSUME Inv, NEW p \in Procs, scope' = scope, StartPromoting(p)
    PROVE  Inv'
<1>1. /\ scope \in Scopes /\ TypeOK /\ registry \in [Records -> Entries \cup {None}]
      /\ pc \in [Procs -> Places] /\ held \in [Procs -> Charters] /\ DOMAIN snap = Procs
      /\ todo \in [Procs -> SUBSET Records] /\ cur \in [Procs -> Records \cup {None}] /\ drift \in [Procs -> BOOLEAN]
      /\ ActiveIsRouted /\ ProcOK(p) /\ (OneShots = {} => AloneOK /\ p = Daemon)
  BY Stands
<1>2. /\ OneShots' = OneShots /\ Requested' = Requested /\ Budget' = Budget /\ Procs' = Procs /\ Evals' = Evals
      /\ Charters' = Charters /\ Entries' = Entries /\ Requested \in Nat /\ Budget \in Nat
  BY <1>1, ScopeFacts
<1> DEFINE rs == Promotable(registry, held[p])
           r == Best(registry, rs)
<1>3. CASE Return(p, "promote", FALSE)
  <2>1. Hands(p) /\ pc'[p] \in Idle
    BY <1>3, ReturnHands DEF StartPromoting, Stages
  <2> QED BY <2>1, QuietReturn DEF StartPromoting
<1>4. CASE ~Return(p, "promote", FALSE)
  <2>1. /\ rs # {} /\ _beats_incumbent(registry, r, Incumbent(registry))
        /\ snap' = [snap EXCEPT ![p] = registry] /\ cur' = [cur EXCEPT ![p] = r] /\ pc' = [pc EXCEPT ![p] = "marking"]
        /\ UNCHANGED <<registry, manifest, used, charter, count, held, todo, drift, last>>
    BY <1>4 DEF StartPromoting, Goto, files, world
  <2>2. \A s \in rs : s \in Records /\ Is(registry, s, "candidate") /\ registry[s].eval \in Evals /\ registry[s].eval.drift_ok
    BY <1>1 DEF Promotable, Is, Entries
  <2>3. \A s \in rs : registry[s].eval.score \in Nat
    BY <2>2, TrainerAssumption DEF Evals
  <2>4. r \in rs
    BY <2>1, <2>2, <2>3, BestOf
  <2>5. r \in Records /\ Clean(r) /\ registry[r] \in Entries /\ registry[r] # None
    BY <2>2, <2>4, <1>1 DEF Clean, Is
  <2> HIDE DEF r, rs
  <2>6. /\ cur' \in [Procs -> Records \cup {None}] /\ cur'[p] = r /\ pc' \in [Procs -> Places] /\ pc'[p] = "marking"
        /\ DOMAIN snap' = Procs /\ snap'[p] = registry
    BY <1>1, <2>1, <2>5 DEF Places
  <2>7. Moves(p)
    BY <1>1, <2>1, <2>6 DEF Moves
  <2>8. TypeOK' /\ ActiveIsRouted'
    BY <1>1, <1>2, <2>1, <2>6 DEF TypeOK, ActiveIsRouted, Actives, Is
  <2>9. Incumbent(registry) = None \/ (Incumbent(registry) \in Records /\ Is(registry, Incumbent(registry), "active"))
    BY IncumbentOf
  <2>10. /\ Incumbent(snap'[p]) = Incumbent(registry)
         /\ \A s \in Records : Is(snap'[p], s, "active") => s \in Actives(registry)
    BY <2>6 DEF Actives
  <2>11. ProcOK(p)'
    <3>1. \A s \in Records : Is(snap'[p], s, "active") => manifest' # None
      BY <2>1, <2>10, <1>1 DEF ActiveIsRouted
    <3>2. Incumbent(snap[p])' \in Records \cup {None}
      BY <2>6, <2>9, <2>10 DEF Incumbent, Actives, First, Is
    <3>3. Entries' = Entries /\ snap'[p][cur'[p]] \in Entries /\ snap'[p][cur'[p]] # None
      BY <1>2, <2>5, <2>6
    <3> QED BY <2>5, <2>6, <3>1, <3>2, <3>3 DEF ProcOK, Promoting, Is
  <2>12. ASSUME OneShots = {} PROVE AloneOK'
    <3>1. p = Daemon
      BY <1>1, <2>12
    <3>2. Clean(cur[p])'
      BY <2>1, <2>5, <2>6, <1>2 DEF Clean, Is
    <3>3. /\ (Incumbent(snap[p]) # None => Is(registry, Incumbent(snap[p]), "active"))'
          /\ _beats_incumbent(registry, cur[p], Incumbent(snap[p]))'
      <4>1. Incumbent(snap[p])' = Incumbent(registry)
        BY <2>6 DEF Incumbent, Actives, First, Is
      <4>2. \A i : Is(registry, i, "active")' = Is(registry, i, "active")
        BY <2>1 DEF Is
      <4>3. _beats_incumbent(registry, cur[p], Incumbent(registry))'
        <5>1. Incumbent(registry)' = Incumbent(registry)
          BY <2>1 DEF Incumbent, Actives, First, Is
        <5>2. _beats_incumbent(registry', cur'[p], Incumbent(registry))
          BY <2>1, <2>6
        <5> QED BY <5>1, <5>2
      <4> QED BY <4>1, <4>2, <4>3, <2>9, <2>1 DEF _beats_incumbent
    <3>4. TrainingOK' /\ ListedOK' /\ DecidedOK'
      BY <2>1, <2>6, <3>1, <3>2, <3>3 DEF TrainingOK, ListedOK, DecidedOK, Promoting
    <3> QED BY <3>4, <1>1, <1>2, <2>1, <2>12 DEF AloneOK, Actives, Is
  <2> QED BY <2>7, <2>8, <2>11, <2>12, Frame
<1> QED BY <1>3, <1>4

LEMMA MarkStep ==
    ASSUME Inv, NEW p \in Procs, scope' = scope, MarkProbation(p)
    PROVE  Inv'
<1>1. /\ scope \in Scopes /\ TypeOK /\ registry \in [Records -> Entries \cup {None}]
      /\ pc \in [Procs -> Places] /\ held \in [Procs -> Charters] /\ DOMAIN snap = Procs
      /\ todo \in [Procs -> SUBSET Records] /\ cur \in [Procs -> Records \cup {None}] /\ drift \in [Procs -> BOOLEAN]
      /\ ActiveIsRouted /\ ProcOK(p) /\ (OneShots = {} => AloneOK /\ p = Daemon)
  BY Stands
<1>2. /\ OneShots' = OneShots /\ Requested' = Requested /\ Budget' = Budget /\ Procs' = Procs /\ Evals' = Evals
      /\ Charters' = Charters /\ Entries' = Entries /\ Requested \in Nat /\ Budget \in Nat
  BY <1>1, ScopeFacts
<1> DEFINE r == cur[p]
           i == Incumbent(snap[p])
           e == [snap[p][r] EXCEPT !.previous = i]
<1>3. /\ pc[p] = "marking" /\ registry' = [registry EXCEPT ![r] = e] /\ pc' = [pc EXCEPT ![p] = "routing"]
      /\ UNCHANGED <<manifest, used, charter, count, held, snap, todo, cur, drift, last>>
  BY DEF MarkProbation, Goto, hand, world
<1>4. r \in Records /\ snap[p][r] \in Entries /\ snap[p][r] # None /\ i \in Records \cup {None}
  BY <1>1, <1>3 DEF ProcOK, Promoting
<1> HIDE DEF i
<1>5. e \in Entries /\ e.state = snap[p][r].state /\ e.eval = snap[p][r].eval /\ e.previous = i
  BY <1>4 DEF Entries
<1> HIDE DEF e
<1>6. /\ registry' \in [Records -> Entries \cup {None}] /\ registry'[r] = e
      /\ \A s \in Records \ {r} : registry'[s] = registry[s]
      /\ \A s \in Records : registry[s] \in Entries => registry'[s] \in Entries
      /\ \A s \in Records : registry'[s] = None \/ registry'[s] \in Entries
  BY <1>3, <1>4, <1>5, Written
<1>7. pc' \in [Procs -> Places] /\ pc'[p] = "routing"
  BY <1>1, <1>3 DEF Places
<1>8. Moves(p) /\ TypeOK'
  BY <1>1, <1>2, <1>3, <1>6, <1>7 DEF Moves, TypeOK
<1>9. \A s \in Records : Is(registry', s, "active") => Is(registry, s, "active") \/ (s = r /\ snap[p][r].state = "active")
  BY <1>5, <1>6 DEF Is
<1>10. ActiveIsRouted'
  <2>1. snap[p][r] # None /\ snap[p][r].state = "active" => manifest # None
    BY <1>1, <1>3, <1>4 DEF ProcOK, Is
  <2> QED BY <2>1, <1>1, <1>3, <1>4, <1>9 DEF ActiveIsRouted, Actives, ProcOK
<1>11. ProcOK(p)'
  BY <1>2, <1>3, <1>4, <1>5, <1>6, <1>7 DEF ProcOK, Promoting
<1>12. ASSUME OneShots = {} PROVE AloneOK'
  <2>1. /\ p = Daemon /\ Clean(r) /\ snap[p][r] = registry[r] /\ _beats_incumbent(registry, r, i)
        /\ i # None => Is(registry, i, "active")
    BY <1>1, <1>3, <1>12 DEF AloneOK, ListedOK, DecidedOK, Promoting, i
  <2>2. e.state = "candidate" /\ e.eval = registry[r].eval /\ e.eval \in Evals /\ e.eval.drift_ok
    BY <2>1, <1>5 DEF Clean, Is
  <2>3. Clean(r)'
    BY <2>2, <1>2, <1>3, <1>6 DEF Clean
  <2>4. BeatsNamed(r)'
    <3>1. SUFFICES ASSUME i # None
                   PROVE  /\ i \in Records /\ i # r /\ registry'[i].eval \in Evals
                          /\ registry'[i].eval.model = e.eval.model
                          /\ registry'[i].eval.score < e.eval.score
      BY <1>2, <1>3, <1>5, <1>6 DEF BeatsNamed
    <3>2. i \in Records /\ registry[i] # None /\ registry[i].state = "active" /\ registry[r].state = "candidate"
      BY <3>1, <2>1, <1>4 DEF Is, Clean
    <3>3. i # r /\ registry[i].eval # None /\ registry[i] \in Entries
      BY <3>1, <3>2, <2>1, <1>1 DEF _beats_incumbent
    <3> QED BY <3>1, <3>2, <3>3, <2>1, <2>2, <1>6 DEF _beats_incumbent, Entries
  <2>5. TrainingOK' /\ ListedOK' /\ DecidedOK'
    BY <1>3, <1>7, <2>1, <2>3, <2>4 DEF TrainingOK, ListedOK, DecidedOK, Promoting
  <2>6. \A s \in Records : Is(registry', s, "active") => Is(registry, s, "active")
    BY <1>9, <2>1 DEF Clean, Is
  <2> QED BY <2>5, <2>6, <1>1, <1>2, <1>3, <1>12 DEF AloneOK, Actives
<1> QED BY <1>8, <1>10, <1>11, <1>12, Frame

LEMMA RouteStep ==
    ASSUME Inv, NEW p \in Procs, scope' = scope, write_serving_entry(p)
    PROVE  Inv'
<1>1. /\ scope \in Scopes /\ TypeOK /\ registry \in [Records -> Entries \cup {None}]
      /\ pc \in [Procs -> Places] /\ held \in [Procs -> Charters] /\ DOMAIN snap = Procs
      /\ todo \in [Procs -> SUBSET Records] /\ cur \in [Procs -> Records \cup {None}] /\ drift \in [Procs -> BOOLEAN]
      /\ ActiveIsRouted /\ ProcOK(p) /\ (OneShots = {} => AloneOK /\ p = Daemon)
  BY Stands
<1>2. /\ OneShots' = OneShots /\ Requested' = Requested /\ Budget' = Budget /\ Procs' = Procs /\ Evals' = Evals
      /\ Charters' = Charters /\ Entries' = Entries /\ Requested \in Nat /\ Budget \in Nat
  BY <1>1, ScopeFacts
<1>3. /\ pc[p] = "routing" /\ manifest' = Backend[cur[p]] /\ pc' = [pc EXCEPT ![p] = "activating"]
      /\ UNCHANGED <<registry, used, charter, count, held, snap, todo, cur, drift, last>>
  BY DEF write_serving_entry, Goto, hand, world
<1>4. cur[p] \in Records /\ registry[cur[p]] \in Entries
  BY <1>1, <1>3 DEF ProcOK, Promoting
<1>5. manifest' # None /\ manifest' \in {Backend[r] : r \in Records} \cup {None}
  BY <1>3, <1>4, TrainerAssumption
<1>6. pc' \in [Procs -> Places] /\ pc'[p] = "activating"
  BY <1>1, <1>3 DEF Places
<1>7. Moves(p) /\ TypeOK' /\ ActiveIsRouted'
  BY <1>1, <1>2, <1>3, <1>5, <1>6 DEF Moves, TypeOK, ActiveIsRouted
<1>8. ProcOK(p)'
  BY <1>2, <1>3, <1>4, <1>5, <1>6 DEF ProcOK, Promoting
<1>9. ASSUME OneShots = {} PROVE AloneOK'
  <2>1. p = Daemon /\ Clean(cur[p]) /\ BeatsNamed(cur[p])
    BY <1>1, <1>3, <1>9 DEF AloneOK, DecidedOK, Promoting
  <2>2. Clean(cur[p])' /\ BeatsNamed(cur[p])'
    BY <2>1, <1>2, <1>3 DEF Clean, BeatsNamed, Is
  <2>3. TrainingOK' /\ ListedOK' /\ DecidedOK'
    BY <1>3, <1>6, <2>1, <2>2 DEF TrainingOK, ListedOK, DecidedOK, Promoting
  <2> QED BY <2>3, <1>1, <1>2, <1>3, <1>9 DEF AloneOK, Actives, Is
<1> QED BY <1>7, <1>8, <1>9, Frame

LEMMA StartActivatingStep ==
    ASSUME Inv, NEW p \in Procs, scope' = scope, StartActivating(p)
    PROVE  Inv'
<1>1. /\ scope \in Scopes /\ TypeOK /\ registry \in [Records -> Entries \cup {None}]
      /\ pc \in [Procs -> Places] /\ held \in [Procs -> Charters] /\ DOMAIN snap = Procs
      /\ todo \in [Procs -> SUBSET Records] /\ cur \in [Procs -> Records \cup {None}] /\ drift \in [Procs -> BOOLEAN]
      /\ ActiveIsRouted /\ ProcOK(p) /\ (OneShots = {} => AloneOK /\ p = Daemon)
  BY Stands
<1>2. /\ OneShots' = OneShots /\ Requested' = Requested /\ Budget' = Budget /\ Procs' = Procs /\ Evals' = Evals
      /\ Charters' = Charters /\ Entries' = Entries /\ Requested \in Nat /\ Budget \in Nat
  BY <1>1, ScopeFacts
<1> DEFINE H == SlotHolders(registry, cur[p])
<1>3. /\ pc[p] = "activating" /\ snap' = [snap EXCEPT ![p] = registry] /\ todo' = [todo EXCEPT ![p] = H]
      /\ pc' = [pc EXCEPT ![p] = "demoting"]
      /\ UNCHANGED <<registry, manifest, used, charter, count, held, cur, drift, last>>
  BY DEF StartActivating, Goto, files, world
<1>4. cur[p] \in Records /\ registry[cur[p]] \in Entries /\ manifest # None
  BY <1>1, <1>3 DEF ProcOK, Promoting
<1>5. H \in SUBSET Records /\ (\A r \in H : registry[r] \in Entries \ {None})
  BY <1>1 DEF SlotHolders, Actives, Is
<1> HIDE DEF H
<1>6. /\ pc' \in [Procs -> Places] /\ pc'[p] = "demoting" /\ DOMAIN snap' = Procs /\ snap'[p] = registry
      /\ todo' \in [Procs -> SUBSET Records] /\ todo'[p] = H
  BY <1>1, <1>3, <1>5 DEF Places
<1>7. Moves(p) /\ TypeOK'
  BY <1>1, <1>2, <1>3, <1>6 DEF Moves, TypeOK
<1>8. ActiveIsRouted' /\ ProcOK(p)'
  BY <1>2, <1>3, <1>4, <1>5, <1>6 DEF ActiveIsRouted, ProcOK, Promoting
<1>9. ASSUME OneShots = {} PROVE AloneOK'
  <2>1. p = Daemon /\ Clean(cur[p]) /\ BeatsNamed(cur[p])
    BY <1>1, <1>3, <1>9 DEF AloneOK, DecidedOK, Promoting
  <2>2. Clean(cur[p])' /\ BeatsNamed(cur[p])'
    BY <2>1, <1>2, <1>3 DEF Clean, BeatsNamed, Is
  <2>3. SlotHolders(registry, cur[p])' = H /\ cur[p] \notin H
    BY <1>3 DEF H, SlotHolders, Actives, Is
  <2>4. TrainingOK' /\ ListedOK' /\ DecidedOK'
    BY <1>3, <1>6, <2>1, <2>2, <2>3 DEF TrainingOK, ListedOK, DecidedOK, Promoting
  <2> QED BY <2>4, <1>1, <1>2, <1>3, <1>9 DEF AloneOK, Actives, Is
<1> QED BY <1>7, <1>8, <1>9, Frame

LEMMA DemoteStep ==
    ASSUME Inv, NEW p \in Procs, scope' = scope, Demote(p)
    PROVE  Inv'
<1>1. /\ scope \in Scopes /\ TypeOK /\ registry \in [Records -> Entries \cup {None}]
      /\ pc \in [Procs -> Places] /\ held \in [Procs -> Charters] /\ DOMAIN snap = Procs
      /\ todo \in [Procs -> SUBSET Records] /\ cur \in [Procs -> Records \cup {None}] /\ drift \in [Procs -> BOOLEAN]
      /\ ActiveIsRouted /\ ProcOK(p) /\ (OneShots = {} => AloneOK /\ p = Daemon)
  BY Stands
<1>2. /\ OneShots' = OneShots /\ Requested' = Requested /\ Budget' = Budget /\ Procs' = Procs /\ Evals' = Evals
      /\ Charters' = Charters /\ Entries' = Entries /\ Requested \in Nat /\ Budget \in Nat
  BY <1>1, ScopeFacts
<1> DEFINE r == First(todo[p])
           e == [snap[p][r] EXCEPT !.state = "disabled"]
<1>3. /\ pc[p] = "demoting" /\ todo[p] # {} /\ registry' = [registry EXCEPT ![r] = e]
      /\ todo' = [todo EXCEPT ![p] = @ \ {r}]
      /\ UNCHANGED <<manifest, used, charter, count, pc, held, snap, cur, drift, last>>
  BY DEF Demote, world
<1>4. r \in todo[p] /\ r \in Records
  BY <1>1, <1>3, FirstOf
<1>5. /\ snap[p][r] \in Entries /\ cur[p] \in Records /\ snap[p][cur[p]] \in Entries /\ manifest # None
  BY <1>1, <1>3, <1>4 DEF ProcOK, Promoting
<1> HIDE DEF r
<1>6. e \in Entries /\ e.state = "disabled" /\ e.eval = snap[p][r].eval /\ e.previous = snap[p][r].previous
  BY <1>5 DEF Entries
<1> HIDE DEF e
<1>7. /\ registry' \in [Records -> Entries \cup {None}] /\ registry'[r] = e
      /\ \A s \in Records \ {r} : registry'[s] = registry[s]
      /\ \A s \in Records : registry[s] \in Entries => registry'[s] \in Entries
      /\ \A s \in Records : registry'[s] = None \/ registry'[s] \in Entries
  BY <1>3, <1>4, <1>6, Written
<1>8. todo' \in [Procs -> SUBSET Records] /\ todo'[p] = todo[p] \ {r}
  BY <1>1, <1>3
<1>9. Moves(p) /\ TypeOK'
  BY <1>1, <1>2, <1>3, <1>7, <1>8 DEF Moves, TypeOK
<1>10. ActiveIsRouted' /\ ProcOK(p)'
  BY <1>1, <1>2, <1>3, <1>5, <1>8 DEF ActiveIsRouted, ProcOK, Promoting
<1>11. ASSUME OneShots = {} PROVE AloneOK'
  <2>1. /\ p = Daemon /\ Clean(cur[p]) /\ BeatsNamed(cur[p]) /\ SlotHolders(registry, cur[p]) \subseteq todo[p]
        /\ cur[p] \notin todo[p] /\ snap[p][r] = registry[r] /\ snap[p][cur[p]] = registry[cur[p]]
        /\ \A s \in todo[p] : snap[p][s] = registry[s]
    BY <1>1, <1>3, <1>4, <1>11 DEF AloneOK, ListedOK, DecidedOK, Promoting
  <2>2. \A s \in Records : Is(registry', s, "active") => Is(registry, s, "active") /\ s # r
    BY <1>6, <1>7 DEF Is
  <2>3. r # cur[p]
    BY <2>1, <1>4
  <2>4. registry'[cur[p]] = registry[cur[p]] /\ \A s \in Records : registry'[s].eval = registry[s].eval
    BY <2>1, <2>3, <1>5, <1>6, <1>7
  <2>5. Clean(cur[p])' /\ BeatsNamed(cur[p])'
    BY <2>1, <2>4, <1>2, <1>3, <1>7 DEF Clean, BeatsNamed, Is
  <2>6. SlotHolders(registry, cur[p])' \subseteq todo'[p]
    BY <2>1, <2>2, <1>3, <1>8 DEF SlotHolders, Actives
  <2>7. TrainingOK' /\ ListedOK' /\ DecidedOK'
    BY <1>3, <1>7, <1>8, <1>1, <2>1, <2>4, <2>5, <2>6 DEF TrainingOK, ListedOK, DecidedOK, Promoting
  <2> QED BY <2>2, <2>7, <1>1, <1>2, <1>3, <1>11 DEF AloneOK, Actives
<1> QED BY <1>9, <1>10, <1>11, Frame

LEMMA ActivateStep ==
    ASSUME Inv, NEW p \in Procs, scope' = scope, Activate(p)
    PROVE  Inv'
<1>1. /\ scope \in Scopes /\ TypeOK /\ registry \in [Records -> Entries \cup {None}]
      /\ pc \in [Procs -> Places] /\ held \in [Procs -> Charters] /\ DOMAIN snap = Procs
      /\ todo \in [Procs -> SUBSET Records] /\ cur \in [Procs -> Records \cup {None}] /\ drift \in [Procs -> BOOLEAN]
      /\ ActiveIsRouted /\ ProcOK(p) /\ (OneShots = {} => AloneOK /\ p = Daemon)
  BY Stands
<1>2. /\ OneShots' = OneShots /\ Requested' = Requested /\ Budget' = Budget /\ Procs' = Procs /\ Evals' = Evals
      /\ Charters' = Charters /\ Entries' = Entries /\ Requested \in Nat /\ Budget \in Nat
  BY <1>1, ScopeFacts
<1> DEFINE r == cur[p]
           e == [snap[p][r] EXCEPT !.state = "active"]
<1>3. /\ pc[p] = "demoting" /\ todo[p] = {} /\ registry' = [registry EXCEPT ![r] = e] /\ last' = r
      /\ UNCHANGED <<manifest, used, charter, count>>
  BY DEF Activate, world
<1>4. Hands(p) /\ pc'[p] \in Idle
  BY ReturnHands DEF Activate, Stages
<1>5. r \in Records /\ snap[p][r] \in Entries /\ manifest # None
  BY <1>1, <1>3 DEF ProcOK, Promoting
<1>6. e \in Entries
  BY <1>5 DEF Entries
<1> HIDE DEF e
<1>7. /\ registry' \in [Records -> Entries \cup {None}] /\ registry'[r] = e
      /\ \A s \in Records \ {r} : registry'[s] = registry[s]
      /\ \A s \in Records : registry[s] \in Entries => registry'[s] \in Entries
      /\ \A s \in Records : registry'[s] = None \/ registry'[s] \in Entries
  BY <1>3, <1>5, <1>6, Written
<1>8. Moves(p) /\ TypeOK'
  BY <1>1, <1>2, <1>3, <1>4, <1>5, <1>7 DEF Moves, Hands, TypeOK
<1>9. ActiveIsRouted' /\ ProcOK(p)'
  BY <1>3, <1>4, <1>5 DEF ActiveIsRouted, ProcOK, Idle, Stages, Promoting
<1>10. ASSUME OneShots = {} PROVE AloneOK'
  <2>1. p = Daemon /\ SlotHolders(registry, r) = {}
    BY <1>1, <1>3, <1>10 DEF AloneOK, DecidedOK
  <2>2. TrainingOK' /\ ListedOK' /\ DecidedOK'
    BY <1>4, <2>1 DEF TrainingOK, ListedOK, DecidedOK, Idle, Stages, Promoting
  <2>3. \A s \in Records \ {r} : Is(registry', s, "active") => Is(registry, s, "active") /\ Backend[s] # Backend[r]
    BY <1>7, <2>1 DEF SlotHolders, Actives, Is
  <2>4. \A s, t \in Actives(registry') : Backend[s] = Backend[t] => s = t
    BY <2>3, <1>1, <1>10 DEF AloneOK, Actives
  <2> QED BY <2>2, <2>4, <1>1, <1>2, <1>3, <1>10 DEF AloneOK, Actives, Is
<1> QED BY <1>8, <1>9, <1>10, Frame

-----------------------------------------------------------------------------
LEMMA InitInv == Init => Inv
<1> SUFFICES ASSUME Init PROVE Inv
  OBVIOUS
<1>1. 1 \in Charters /\ Budget \in Nat
  BY TrainerAssumption DEF Init, Charters, Budget
<1>2. \A r \in Records : registry[r] = None
  BY DEF Init
<1>3. TypeOK /\ scope \in Scopes /\ registry \in [Records -> Entries \cup {None}]
  BY <1>1 DEF Init, TypeOK
<1>4. /\ pc \in [Procs -> Places] /\ held \in [Procs -> Charters] /\ DOMAIN snap = Procs
      /\ todo \in [Procs -> SUBSET Records] /\ cur \in [Procs -> Records \cup {None}]
  BY <1>1 DEF Init, Places
<1>5. drift \in [Procs -> BOOLEAN]
  BY DEF Init
<1>6. ActiveIsRouted /\ Actives(registry) = {}
  BY <1>2 DEF ActiveIsRouted, Actives, Is
<1>7. \A p \in Procs : ProcOK(p)
  BY DEF Init, ProcOK, Promoting
<1>8. AloneOK
  <2>1. pc[Daemon] = "off"
    BY DEF Init, Procs
  <2>2. used <= Budget
    BY <1>1 DEF Init
  <2> QED BY <2>1, <2>2, <1>6 DEF AloneOK, TrainingOK, ListedOK, DecidedOK, Promoting
<1> QED BY <1>3, <1>4, <1>5, <1>6, <1>7, <1>8 DEF Inv

LEMMA InvStep == Inv /\ [Next]_<<vars, scope>> => Inv'
<1> SUFFICES ASSUME Inv, [Next]_<<vars, scope>> PROVE Inv'
  OBVIOUS
<1>1. CASE UNCHANGED <<vars, scope>>
  <2>1. /\ scope' = scope /\ scope \in Scopes /\ Daemon \in Procs
        /\ UNCHANGED <<registry, manifest, used, charter, count, pc, held, snap, todo, cur, drift, last>>
    BY <1>1 DEF vars, files, world, hand, Inv, Procs
  <2>2. held \in [Procs -> Charters]
    BY DEF Inv
  <2> QED BY <2>1, <2>2, StutterStep
<1>2. CASE Next
  <2>1. scope' = scope
    BY <1>2 DEF Next
  <2>2. CASE EditCharter \/ Grow \/ WindowSlides \/ Stop
    BY <2>1, <2>2, WorldStep, StopStep
  <2>3. CASE \E p \in Procs : \/ \E s \in Stages : Launch(p, s)
                              \/ Step(p) \/ Crash(p)
                              \/ TrainingFails(p) \/ EvaluationFails(p) \/ RoutingFails(p)
    <3>1. PICK p \in Procs : \/ \E s \in Stages : Launch(p, s)
                             \/ Step(p) \/ Crash(p)
                             \/ TrainingFails(p) \/ EvaluationFails(p) \/ RoutingFails(p)
      BY <2>3
    <3>2. CASE Step(p)
      BY <2>1, <3>2, PassOverStep, StartTrainingStep, EndTrainingStep, PublishStep, StartEvaluatingStep,
         EvaluateStep, FailedStep,
         StartPromotingStep, MarkStep, RouteStep, StartActivatingStep, DemoteStep, ActivateStep DEF Step
    <3>3. CASE ~Step(p)
      BY <2>1, <3>1, <3>3, LaunchStep, CrashStep, FailedStep, EvaluationFailsStep
    <3> QED BY <3>2, <3>3
  <2> QED BY <1>2, <2>2, <2>3 DEF Next
<1> QED BY <1>1, <1>2

LEMMA SpecInv == Spec => []Inv
BY InitInv, InvStep, PTL DEF Spec

-----------------------------------------------------------------------------
(* For any records, backends, charters and crashes: whoever is live can be *)
(* found in the serving manifest, also while one-shot stages put back      *)
(* records they read before; and while the daemon works alone, a slot has  *)
(* one live record and the ledger stays within the budget.                 *)
THEOREM TrainerSafe == Spec => []TrainerInv
<1>1. Inv => TrainerInv
  BY DEF Inv, AloneOK, TrainerInv, OneLive, WithinBudget
<1> QED BY <1>1, SpecInv, PTL

(* While the daemon works alone, a record is activated only if it is clean *)
(* and beats the incumbent its probation marker names, under one anchor    *)
(* model: also when crashes, restarts, failures and charter edits fall     *)
(* between the comparison and the activation.                              *)
THEOREM PromotionsImprove == Spec => PromotionImproves
<1> DEFINE Better == OneShots = {} => \A r \in Records : ~Is(registry, r, "active") /\ Is(registry', r, "active") =>
         /\ registry[r].eval.drift_ok
         /\ registry[r].previous # None =>
               LET i == registry[registry[r].previous].eval
               IN i.model = registry[r].eval.model /\ i.score < registry[r].eval.score
<1>1. Inv /\ [Next]_<<vars, scope>> => [Better]_vars
  <2> SUFFICES ASSUME Inv, Next, OneShots = {}, NEW r \in Records,
                      ~Is(registry, r, "active"), Is(registry', r, "active")
               PROVE  /\ registry[r].eval.drift_ok
                      /\ registry[r].previous # None =>
                            LET i == registry[registry[r].previous].eval
                            IN i.model = registry[r].eval.model /\ i.score < registry[r].eval.score
    BY DEF vars, files
  <2>1. Daemon \in Procs
    BY DEF Procs
  <2>2. /\ registry \in [Records -> Entries \cup {None}] /\ todo \in [Procs -> SUBSET Records] /\ ProcOK(Daemon)
        /\ ListedOK /\ DecidedOK
    BY <2>1, Stands DEF AloneOK
  <2>3. registry' # registry
    OBVIOUS
  <2>4. PICK p \in Procs : \/ publish_candidate(p) \/ (\E s \in Scores : EvaluateRecord(p, s))
                           \/ MarkProbation(p) \/ Demote(p) \/ Activate(p)
    BY <2>3 DEF Next, Step, EditCharter, Grow, WindowSlides, Stop, Launch, PassOver, Cycle, StartTraining,
       EndTraining,
       StartEvaluating, EndEvaluating, StartPromoting, write_serving_entry, StartActivating, Crash,
       TrainingFails, EvaluationFails, RoutingFails, files
  <2>5. p = Daemon
    BY DEF Procs
  <2>6. ~publish_candidate(p)
    <3> SUFFICES ASSUME publish_candidate(p) PROVE FALSE
      OBVIOUS
    <3>1. pc[p] = "publishing" /\ registry' = [registry EXCEPT ![cur[p]] = Candidate]
      BY <2>3 DEF publish_candidate
    <3> QED BY <3>1, <2>2 DEF Is, Candidate
  <2>7. ASSUME NEW s \in Scores PROVE ~EvaluateRecord(p, s)
    <3> SUFFICES ASSUME EvaluateRecord(p, s) PROVE FALSE
      OBVIOUS
    <3> DEFINE f == First(todo[p])
               eval == [fingerprint |-> Fingerprint(held[p]), model |-> AnchorModel[held[p]],
                        score |-> s, drift_ok |-> drift[p]]
    <3>1. pc[p] = "evaluating" /\ todo[p] # {} /\ registry' = [registry EXCEPT ![f] = [snap[p][f] EXCEPT !.eval = eval]]
      BY DEF EvaluateRecord
    <3>2. f \in todo[p] /\ f \in Records
      BY <3>1, <2>2, FirstOf
    <3> HIDE DEF f, eval
    <3>3. snap[p][f] \in Entries /\ snap[p][f] # None /\ snap[p][f] = registry[f]
      BY <3>1, <3>2, <2>2, <2>5 DEF ProcOK, ListedOK
    <3>4. [snap[p][f] EXCEPT !.eval = eval].state = registry[f].state
      BY <3>3 DEF Entries
    <3> QED BY <3>1, <3>2, <3>3, <3>4, <2>2 DEF Is
  <2>8. ~MarkProbation(p)
    <3> SUFFICES ASSUME MarkProbation(p) PROVE FALSE
      OBVIOUS
    <3> DEFINE i == Incumbent(snap[p])
    <3>1. pc[p] = "marking" /\ registry' = [registry EXCEPT ![cur[p]] = [snap[p][cur[p]] EXCEPT !.previous = i]]
      BY DEF MarkProbation
    <3> HIDE DEF i
    <3>2. /\ cur[p] \in Records /\ snap[p][cur[p]] \in Entries /\ snap[p][cur[p]] = registry[cur[p]]
          /\ registry[cur[p]].state = "candidate"
      BY <3>1, <2>2, <2>5 DEF ProcOK, ListedOK, DecidedOK, Promoting, Clean
    <3>3. [snap[p][cur[p]] EXCEPT !.previous = i].state = "candidate"
      BY <3>2 DEF Entries
    <3> QED BY <3>1, <3>2, <3>3, <2>2 DEF Is
  <2>9. ~Demote(p)
    <3> SUFFICES ASSUME Demote(p) PROVE FALSE
      OBVIOUS
    <3> DEFINE f == First(todo[p])
    <3>1. pc[p] = "demoting" /\ todo[p] # {} /\ registry' = [registry EXCEPT ![f] = [snap[p][f] EXCEPT !.state = "disabled"]]
      BY DEF Demote
    <3>2. f \in todo[p] /\ f \in Records
      BY <3>1, <2>2, FirstOf
    <3> HIDE DEF f
    <3>3. snap[p][f] \in Entries
      BY <3>1, <3>2, <2>2, <2>5 DEF ProcOK
    <3>4. [snap[p][f] EXCEPT !.state = "disabled"].state = "disabled"
      BY <3>3 DEF Entries
    <3> QED BY <3>1, <3>2, <3>4, <2>2 DEF Is
  <2>10. CASE Activate(p)
    <3>1. pc[p] = "demoting" /\ registry' = [registry EXCEPT ![cur[p]] = [snap[p][cur[p]] EXCEPT !.state = "active"]]
      BY <2>10 DEF Activate
    <3>2. r = cur[p]
      BY <3>1, <2>2 DEF Is
    <3>3. Clean(r) /\ BeatsNamed(r)
      BY <3>1, <3>2, <2>2, <2>5 DEF DecidedOK, Promoting
    <3> QED BY <3>3 DEF Clean, BeatsNamed
  <2> QED BY <2>4, <2>6, <2>7, <2>8, <2>9, <2>10
<1> QED BY <1>1, SpecInv, PTL DEF Spec, PromotionImproves

=============================================================================
