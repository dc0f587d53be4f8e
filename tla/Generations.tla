------------------------------ MODULE Generations ------------------------------
(***************************************************************************)
(* What the generations of a scenario work on: the run they belong to      *)
(* (GenerationLoop), the playbook they write (PlaybookGate) and the        *)
(* evaluator epochs that score them (EpochRegistry).  Each is kept in      *)
(* files or rows of its own, and none of the three writes those of         *)
(* another.                                                                *)
(***************************************************************************)
EXTENDS GenerationLoop

CONSTANTS GateScopes,  \* of playbooks
          EpochScopes  \* of epochs

(* Numbers and names are not None; versions are kept                       *)
(* (playbook_max_versions is at least 1), and where operations interleave  *)
(* one run writes.                                                         *)
ASSUME GateAssumption ==
    /\ None \notin Nat /\ None # "pending"
    /\ \A s \in GateScopes :
         /\ IsFiniteSet(s.Runs) /\ IsFiniteSet(s.Operators) /\ s.Serial \in BOOLEAN
         /\ s.MaxVersions \in Nat \ {0} /\ s.MaxUpdates \in Nat /\ s.MaxCrashes \in Nat
         /\ ~s.Serial => \A p, q \in s.Runs : p = q

(* Neither are promoters, scores and calls.                                *)
ASSUME EpochAssumption ==
    /\ None \notin {"candidate", "active", "disabled", "activated"}
    /\ \A s \in EpochScopes :
         /\ None \notin s.Promoters /\ s.RequiresApproval \in BOOLEAN
         /\ None \notin [epoch : s.Epochs, mark : BOOLEAN]
         /\ None \notin [epoch : s.Epochs, decision : s.Decisions,
                         report : {None} \cup [epoch : s.Epochs, passes : BOOLEAN], prior : SUBSET s.Runs,
                         outcome : {None, "activated", "pending_review", "rejected", "blocked", "noop"}]

VARIABLES
    live, versions, md, json, synced, at, knows, fate, made, deaths, gate,                         \* of the playbook
    records, decided, lock, where, call, seen, scores, reviewed, calls, losses, faults, trust      \* of the epochs

Gate == INSTANCE PlaybookGate
        WITH Scopes <- GateScopes, pc <- at, loc <- knows, crashes <- deaths, scope <- gate

Registry == INSTANCE EpochRegistry
            WITH Scopes <- EpochScopes, pc <- where, loc <- call, rows <- scores, crashes <- losses, scope <- trust

loop == <<vars, scope>>
books == <<live, versions, md, json, synced, at, knows, fate, made, deaths, gate>>
epochs == <<records, decided, lock, where, call, seen, scores, reviewed, calls, losses, faults, trust>>

\* The held update is one update, until it is decided (PlaybookGate).
GateInv == Gate!GateInv

\* What is approved goes live (PlaybookGate).
DecisionsGoLive == Gate!DecisionsGoLive

\* A scenario has one authority for its scores (EpochRegistry).
EpochInv == Registry!EpochInv

\* In the end a scenario has an active epoch (EpochRegistry).
ActiveInTheEnd == Registry!ActiveInTheEnd

=============================================================================
