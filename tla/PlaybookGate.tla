----------------------------- MODULE PlaybookGate ------------------------------
(***************************************************************************)
(* The playbook of one scenario as files: playbook.md and its archived     *)
(* versions, and the update that is held for approval, playbook.pending.md *)
(* and its provenance playbook.pending.json.  Runs write updates, live or  *)
(* held; operators approve or reject what is held.  There is no lock:      *)
(* every file operation is a step of its own, and a process may die        *)
(* between any two.                                                        *)
(*                                                                         *)
(* An update is a number; files hold the number of the update they come    *)
(* from.                                                                   *)
(***************************************************************************)
EXTENDS Integers, FiniteSets

CONSTANTS Scopes,  \* what a behaviour is about: the fields below
          None

VARIABLES live, versions,  \* playbook.md; number of an archived version -> content
          md, json,        \* the pending pair
          synced,          \* what was approved, with the lessons that went to SKILL.md
          pc, loc,         \* process -> where it is, what it knows
          fate,            \* update -> None, pending, approved, rejected, superseded
          made, crashes,
          scope            \* which of Scopes; it never changes

Runs == scope.Runs                \* processes that write updates
Operators == scope.Operators      \* that decide
MaxVersions == scope.MaxVersions  \* max_playbook_versions
MaxUpdates == scope.MaxUpdates
MaxCrashes == scope.MaxCrashes

files == <<live, versions, md, json, synced>>
vars == <<files, pc, loc, fate, made, crashes>>

Procs == Runs \cup Operators
Updates == 1..MaxUpdates

Init ==
    /\ scope \in Scopes
    /\ live = None /\ versions = [n \in {} |-> None]
    /\ md = None /\ json = None /\ synced = {}
    /\ pc = [p \in Procs |-> "off"] /\ loc = [p \in Procs |-> None]
    /\ fate = [u \in Updates |-> None] /\ made = 0 /\ crashes = 0

Goto(p, l) == pc' = [pc EXCEPT ![p] = l]
Exit(p) == Goto(p, "off") /\ loc' = [loc EXCEPT ![p] = None]

Archived == DOMAIN versions
Newest == CHOOSE n \in Archived : \A m \in Archived : m <= n
Oldest(ns) == CHOOSE n \in ns : \A m \in ns : n <= m

-----------------------------------------------------------------------------
(* A run has a new playbook.  It is held, or goes live.                    *)
write_or_stage_playbook(p, hold) ==
    /\ p \in Runs /\ pc[p] = "off" /\ made < MaxUpdates
    /\ made' = made + 1
    /\ loc' = [loc EXCEPT ![p] = [op |-> IF hold THEN "hold" ELSE "auto", update |-> made + 1,
                                  reads |-> 0, first |-> None, got |-> made + 1, old |-> None, n |-> 0, listed |-> {}]]
    /\ Goto(p, IF hold THEN "read" ELSE "archive")
    /\ UNCHANGED <<files, fate, crashes>>

(* Mutant: what is held is cleared before it is live.                      *)
DecideClearsFirst(p, op) ==
    /\ p \in Operators /\ pc[p] = "off" /\ json # None /\ md # None
    /\ loc' = [loc EXCEPT ![p] = [op |-> op, update |-> None, reads |-> 2, first |-> md, got |-> md,
                                  old |-> None, n |-> 0, listed |-> {}]]
    /\ Goto(p, "clear")
    /\ UNCHANGED <<files, fate, made, crashes>>

(* An operator decides on whatever is held.                                *)
Decide(p, op) ==
    /\ p \in Operators /\ pc[p] = "off" /\ json # None
    /\ loc' = [loc EXCEPT ![p] = [op |-> op, update |-> None, reads |-> 0, first |-> None, got |-> None,
                                  old |-> None, n |-> 0, listed |-> {}]]
    /\ Goto(p, "read")
    /\ UNCHANGED <<files, fate, made, crashes>>

-----------------------------------------------------------------------------
(* read_pending_playbook is over, with an update or with None.  A run that *)
(* holds its update finds one that is waiting, and lets it be; a live      *)
(* update supersedes it.  That and approving read it twice.                *)
HaveRead(p, u) ==
    LET me == loc[p]
        read == [me EXCEPT !.reads = @ + 1, !.first = IF me.reads = 0 THEN u ELSE @, !.got = u] IN
    CASE me.op = "hold" -> IF u # None THEN Exit(p) ELSE Goto(p, "staging") /\ UNCHANGED loc
      [] me.op = "approve" /\ me.reads = 0 -> Goto(p, "read") /\ loc' = [loc EXCEPT ![p] = read]
      [] me.op = "auto" /\ me.reads = 0 /\ u # None -> Goto(p, "read") /\ loc' = [loc EXCEPT ![p] = read]
      [] OTHER ->
           IF u = None THEN Exit(p)
           ELSE Goto(p, IF me.op = "approve" THEN "archive" ELSE "clear") /\ loc' = [loc EXCEPT ![p] = read]

(* The provenance is the commit point ...                                  *)
ReadJson(p) ==
    /\ pc[p] = "read"
    /\ IF json = None THEN HaveRead(p, None) ELSE Goto(p, "read_md") /\ UNCHANGED loc
    /\ UNCHANGED <<files, fate, made, crashes>>

(* ... and means nothing without the content.                              *)
ReadMd(p) ==
    /\ pc[p] = "read_md"
    /\ HaveRead(p, md)
    /\ UNCHANGED <<files, fate, made, crashes>>

-----------------------------------------------------------------------------
(* stage_pending_playbook: a pair that is there is refused, ...            *)
StageLooks(p) ==
    /\ pc[p] = "staging"
    /\ Goto(p, IF json = None THEN "orphan" ELSE "torn") /\ UNCHANGED loc
    /\ UNCHANGED <<files, fate, made, crashes>>

StageFindsPair(p) ==
    /\ pc[p] = "torn"
    /\ IF md # None THEN Exit(p) ELSE Goto(p, "drop") /\ UNCHANGED loc
    /\ UNCHANGED <<files, fate, made, crashes>>

(* ... a provenance without content is dropped, ...                        *)
DropJson(p) ==
    /\ pc[p] = "drop"
    /\ json' = None
    /\ IF json = None THEN Exit(p) ELSE Goto(p, "orphan") /\ UNCHANGED loc
    /\ UNCHANGED <<live, versions, md, synced, fate, made, crashes>>

(* ... and a content without provenance too; ...                           *)
FindOrphan(p) ==
    /\ pc[p] = "orphan"
    /\ Goto(p, IF md = None THEN "write" ELSE "unlink") /\ UNCHANGED loc
    /\ UNCHANGED <<files, fate, made, crashes>>

UnlinkOrphan(p) ==
    /\ pc[p] = "unlink"
    /\ md' = None
    /\ IF md = None THEN Exit(p) ELSE Goto(p, "write") /\ UNCHANGED loc
    /\ UNCHANGED <<live, versions, json, synced, fate, made, crashes>>

(* ... the content is written before the provenance that commits it.       *)
StageMd(p) ==
    /\ pc[p] = "write"
    /\ md' = loc[p].update
    /\ Goto(p, "commit")
    /\ UNCHANGED <<live, versions, json, synced, loc, fate, made, crashes>>

StageJson(p) ==
    /\ pc[p] = "commit"
    /\ json' = loc[p].update
    /\ fate' = [fate EXCEPT ![loc[p].update] = "pending"]
    /\ Exit(p)
    /\ UNCHANGED <<live, versions, md, synced, made, crashes>>

-----------------------------------------------------------------------------
(* VersionedFileStore.write: the current playbook is read and numbered ... *)
NumberVersion(p) ==
    /\ pc[p] = "archive"
    /\ IF live = None THEN Goto(p, "live") /\ UNCHANGED loc
       ELSE Goto(p, "save") /\ loc' = [loc EXCEPT ![p].old = live, ![p].n = Cardinality(Archived) + 1]
    /\ UNCHANGED <<files, fate, made, crashes>>

(* ... archived ...                                                        *)
SaveVersion(p) ==
    /\ pc[p] = "save"
    /\ versions' = [n \in Archived \cup {loc[p].n} |-> IF n = loc[p].n THEN loc[p].old ELSE versions[n]]
    /\ Goto(p, "prune")
    /\ UNCHANGED <<live, md, json, synced, loc, fate, made, crashes>>

(* ... and what is too much is pruned, oldest first, by the list of what   *)
(* was there when pruning began: ...                                       *)
PruneOf(p, listed) ==
    /\ Goto(p, IF Cardinality(listed) > MaxVersions THEN "oldest" ELSE "live")
    /\ loc' = [loc EXCEPT ![p].listed = listed]

_prune(p) ==
    /\ pc[p] = "prune"
    /\ PruneOf(p, Archived)
    /\ UNCHANGED <<files, fate, made, crashes>>

(* ... the write fails when another pruner was there first.                *)
UnlinkOldest(p) ==
    LET oldest == Oldest(loc[p].listed) IN
    /\ pc[p] = "oldest"
    /\ versions' = [n \in Archived \ {oldest} |-> versions[n]]
    /\ IF oldest \in Archived THEN PruneOf(p, loc[p].listed \ {oldest}) ELSE Exit(p)
    /\ UNCHANGED <<live, md, json, synced, fate, made, crashes>>

(* Then the new playbook is written.                                       *)
WriteLive(p) ==
    /\ pc[p] = "live"
    /\ live' = loc[p].got
    /\ Goto(p, IF loc[p].op = "approve" THEN "clear" ELSE "read") /\ UNCHANGED loc
    /\ UNCHANGED <<versions, md, json, synced, fate, made, crashes>>

-----------------------------------------------------------------------------
Verdict == [approve |-> "approved", reject |-> "rejected", auto |-> "superseded"]

(* Mutant: the provenance goes first.                                      *)
ClearCommitFirst(p) ==
    /\ pc[p] = "clear"
    /\ json' = None
    /\ Goto(p, "clear_json")
    /\ UNCHANGED <<live, versions, md, synced, loc, fate, made, crashes>>

(* _clear_pending: the content goes first, ...                             *)
ClearMd(p) ==
    /\ pc[p] = "clear"
    /\ md' = None
    /\ fate' = [u \in Updates |-> IF u = loc[p].got /\ fate[u] = "pending" THEN Verdict[loc[p].op] ELSE fate[u]]
    /\ Goto(p, "clear_json")
    /\ UNCHANGED <<live, versions, json, synced, loc, made, crashes>>

(* ... then the provenance; an approved update's lessons, as they were     *)
(* read first, go to the skill note.                                       *)
ClearJson(p) ==
    /\ pc[p] = "clear_json"
    /\ json' = None
    /\ synced' = IF loc[p].op = "approve" /\ loc[p].first # None
                 THEN synced \cup {[live |-> loc[p].got, lessons |-> loc[p].first]} ELSE synced
    /\ Exit(p)
    /\ UNCHANGED <<live, versions, md, fate, made, crashes>>

Crash(p) ==
    /\ pc[p] # "off" /\ crashes < MaxCrashes
    /\ crashes' = crashes + 1
    /\ Exit(p)
    /\ UNCHANGED <<files, fate, made>>

-----------------------------------------------------------------------------
Step(p) ==
    \/ ReadJson(p) \/ ReadMd(p)
    \/ StageLooks(p) \/ StageFindsPair(p) \/ DropJson(p) \/ FindOrphan(p) \/ UnlinkOrphan(p) \/ StageMd(p) \/ StageJson(p)
    \/ NumberVersion(p) \/ SaveVersion(p) \/ _prune(p) \/ UnlinkOldest(p) \/ WriteLive(p)
    \/ ClearMd(p) \/ ClearJson(p)

Begin(p) ==
    \/ \E hold \in BOOLEAN : write_or_stage_playbook(p, hold)
    \/ \E op \in {"approve", "reject"} : Decide(p, op)

(* One operation at a time, whoever's it is.                               *)
OneAtATime == \A p, q \in Procs : pc[p] # "off" /\ pc[q] # "off" => p = q

Next ==
    /\ \E p \in Procs : Begin(p) \/ Step(p) \/ Crash(p)
    /\ scope' = scope
    /\ scope.Serial => OneAtATime'

Spec == Init /\ [][Next]_<<vars, scope>>

-----------------------------------------------------------------------------
(* Files, processes and fates.                                             *)
TypeOK ==
    /\ {live, md, json} \subseteq Updates \cup {None}
    /\ Archived \subseteq Nat \ {0} /\ {versions[n] : n \in Archived} \subseteq Updates
    /\ synced \subseteq [live : Updates, lessons : Updates]
    /\ \A p \in Procs : pc[p] \in {"off", "read", "read_md", "staging", "torn", "drop", "orphan", "unlink", "write", "commit",
                                   "archive", "save", "prune", "oldest", "live", "clear", "clear_json"}
    /\ \A u \in Updates : fate[u] \in {None, "pending", "approved", "rejected", "superseded"}

(* Whoever sees a pending update sees one update: the content belongs to   *)
(* the provenance beside it.                                               *)
PairIsOne == md # None /\ json # None => md = json

(* An update whose staging was committed is there until it is decided,     *)
(* while the operations come one after the other.                          *)
HeldIsThere == scope.Serial => \A u \in Updates : fate[u] = "pending" => md = u /\ json = u

(* An update counts as approved only when it is the live playbook.         *)
ApprovedIsLive == [][scope.Serial => \A u \in Updates : fate[u] = "pending" /\ fate'[u] = "approved" => live = u]_vars

(* What a write replaces is the newest archived version, so that a         *)
(* rollback restores it, as long as nobody dies and leaves a version too   *)
(* many.                                                                   *)
ReplacedIsArchived ==
    [][scope.Serial /\ MaxCrashes = 0 /\ live' # live /\ live # None => Archived # {} /\ versions[Newest] = live]_vars

(* While the operations come one after the other, only who has not pruned  *)
(* yet, or died then, leaves a version too many.                           *)
FewAreKept ==
    scope.Serial =>
      Cardinality(Archived) <= MaxVersions + Cardinality({p \in Procs : pc[p] \in {"prune", "oldest"}}) + crashes

(* However many prune at once, each by a list of its own, a version that   *)
(* goes leaves a newer one: the newest is never lost.                      *)
NewestStays == [][\A n \in Archived \ Archived' : \E m \in Archived' : n < m]_vars

(* The lessons that go to the skill note are those of the update that went *)
(* live.                                                                   *)
LessonsAreOfTheLive == scope.Serial => \A s \in synced : s.lessons = s.live

(* The held update is one update, there until it is decided, what goes     *)
(* live brings its own lessons, and what it replaces is pruned.            *)
GateInv == TypeOK /\ PairIsOne /\ HeldIsThere /\ LessonsAreOfTheLive /\ FewAreKept

(* What is approved goes live, and what it replaces can be restored.       *)
DecisionsGoLive == ApprovedIsLive /\ ReplacedIsArchived /\ NewestStays

=============================================================================
