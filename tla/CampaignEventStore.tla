-------------------------- MODULE CampaignEventStore -------------------------
(***************************************************************************)
(* CampaignSchedulerEventStore: the append-only JSONL file behind          *)
(* CampaignScheduler._record, its cross-process lock, torn appends and     *)
(* their repair, and the sequence check that fences off an object which    *)
(* has fallen behind.  Events are opaque; a checksummed line is an element *)
(* of `lines`, and bytes after the last line are `tail`.                   *)
(***************************************************************************)
EXTENDS Naturals, Sequences

CONSTANTS
    Instances,  \* CampaignScheduler objects, in one or several processes
    Events,
    MaxEvents,  \* bound on the length of the log
    None

VARIABLES
    lines,      \* terminated records of the file
    tail,       \* what follows them: "clean", "torn", or a whole "record"
    tail_event, \* the event of that record, or None
    flushed,    \* number of lines known to have reached the disk
    holder,     \* who holds the lock for an append, or None
    pending,    \* the event being appended
    stage,      \* "idle", "writing" its line, or its line is "written"
    alive, memory,  \* live objects and the events each has applied
    acked       \* history: the log as of the last append that returned

fileVars == <<lines, tail, tail_event, flushed>>
lockVars == <<holder, pending, stage>>
objectVars == <<alive, memory>>
vars == <<fileVars, lockVars, objectVars, acked>>

Init ==
    /\ lines = << >> /\ tail = "clean" /\ tail_event = None /\ flushed = 0
    /\ holder = None /\ pending = None /\ stage = "idle"
    /\ alive = {} /\ memory = [i \in Instances |-> << >>]
    /\ acked = << >>

-----------------------------------------------------------------------------
(* _read_unlocked: a torn tail is cut off, a record that only lost its     *)
(* newline is kept; either way the file is fsynced.                        *)

Repaired == IF tail = "record" THEN Append(lines, tail_event) ELSE lines

Repair ==
    /\ lines' = Repaired
    /\ tail' = "clean" /\ tail_event' = None
    /\ flushed' = IF tail = "clean" THEN flushed ELSE Len(Repaired)

\* CampaignScheduler.__init__: replay everything.
OpenScheduler(i) ==
    /\ holder = None
    /\ Repair
    /\ alive' = alive \cup {i}
    /\ memory' = [memory EXCEPT ![i] = Repaired]
    /\ UNCHANGED <<lockVars, acked>>

-----------------------------------------------------------------------------
(* append, under the lock *)

\* Mutant: the sequence number is not compared with the file's.
BeginAppendUnchecked(i, e) ==
    /\ i \in alive /\ holder = None
    /\ Len(Repaired) < MaxEvents
    /\ Repair
    /\ holder' = i /\ pending' = e /\ stage' = "writing"
    /\ UNCHANGED <<objectVars, acked>>

\* The event's sequence number is the next one: go on to write it.
BeginAppend(i, e) ==
    /\ i \in alive /\ holder = None
    /\ Len(memory[i]) = Len(Repaired)
    /\ Len(Repaired) < MaxEvents
    /\ Repair
    /\ holder' = i /\ pending' = e /\ stage' = "writing"
    /\ UNCHANGED <<objectVars, acked>>

\* StaleCampaignSchedulerError; the file was read, hence repaired.
RefuseStale(i) ==
    /\ i \in alive /\ holder = None
    /\ Len(memory[i]) # Len(Repaired)
    /\ Repair
    /\ UNCHANGED <<lockVars, objectVars, acked>>

\* os.write may stop anywhere in the line, its newline included.
WritePart(i) ==
    /\ holder = i /\ stage = "writing" /\ tail = "clean"
    /\ tail' = "torn"
    /\ UNCHANGED <<lines, tail_event, flushed, lockVars, objectVars, acked>>

WriteRecord(i) ==
    /\ holder = i /\ stage = "writing" /\ tail # "record"
    /\ tail' = "record" /\ tail_event' = pending
    /\ UNCHANGED <<lines, flushed, lockVars, objectVars, acked>>

WriteLine(i) ==
    /\ holder = i /\ stage = "writing"
    /\ lines' = Append(lines, pending)
    /\ tail' = "clean" /\ tail_event' = None
    /\ stage' = "written"
    /\ UNCHANGED <<flushed, holder, pending, objectVars, acked>>

\* Mutant: append returns without fsync.
AcknowledgeUnflushed(i) ==
    /\ holder = i /\ stage = "written"
    /\ memory' = [memory EXCEPT ![i] = Append(@, pending)]
    /\ acked' = lines
    /\ holder' = None /\ pending' = None /\ stage' = "idle"
    /\ UNCHANGED <<lines, tail, tail_event, flushed, alive>>

\* fsync returns, append returns, _record applies the event.
Acknowledge(i) ==
    /\ holder = i /\ stage = "written"
    /\ flushed' = Len(lines)
    /\ memory' = [memory EXCEPT ![i] = Append(@, pending)]
    /\ acked' = lines
    /\ holder' = None /\ pending' = None /\ stage' = "idle"
    /\ UNCHANGED <<lines, tail, tail_event, alive>>

\* write or fsync raises: the object lives on and has not applied the event.
AppendRaises(i) ==
    /\ holder = i
    /\ flushed' \in IF stage = "written" THEN {flushed, Len(lines)} ELSE {flushed}
    /\ holder' = None /\ pending' = None /\ stage' = "idle"
    /\ UNCHANGED <<lines, tail, tail_event, objectVars, acked>>

-----------------------------------------------------------------------------
(* Failures *)

\* The process dies; the operating system drops its lock and keeps its writes.
Crash(i) ==
    /\ i \in alive
    /\ alive' = alive \ {i}
    /\ memory' = [memory EXCEPT ![i] = << >>]
    /\ IF holder = i THEN holder' = None /\ pending' = None /\ stage' = "idle"
                     ELSE UNCHANGED lockVars
    /\ UNCHANGED <<fileVars, acked>>

\* The machine dies: bytes that were not fsynced may be gone, the last ones
\* first, and the cut may fall inside a line.
PowerLoss ==
    /\ \E n \in flushed .. Len(lines) :
         LET rest == IF n < Len(lines) THEN lines[n + 1] ELSE tail_event IN
         /\ lines' = SubSeq(lines, 1, n)
         /\ flushed' = n
         /\ \/ tail' = "clean" /\ tail_event' = None
            \/ (n < Len(lines) \/ tail # "clean") /\ tail' = "torn" /\ tail_event' = None
            \/ rest # None /\ tail' = "record" /\ tail_event' = rest
    /\ holder' = None /\ pending' = None /\ stage' = "idle"
    /\ alive' = {} /\ memory' = [i \in Instances |-> << >>]
    /\ UNCHANGED acked

Next ==
    \/ \E i \in Instances :
         \/ OpenScheduler(i) \/ RefuseStale(i)
         \/ WritePart(i) \/ WriteRecord(i) \/ WriteLine(i)
         \/ Acknowledge(i) \/ AppendRaises(i) \/ Crash(i)
         \/ \E e \in Events : BeginAppend(i, e)
    \/ PowerLoss

Spec == Init /\ [][Next]_vars

-----------------------------------------------------------------------------
IsPrefixOf(s, t) == Len(s) <= Len(t) /\ \A k \in 1 .. Len(s) : s[k] = t[k]

TypeOK ==
    /\ lines \in Seq(Events) /\ acked \in Seq(Events)
    /\ tail \in {"clean", "torn", "record"}
    /\ tail_event \in Events \cup {None} /\ (tail_event # None <=> tail = "record")
    /\ flushed \in 0 .. Len(lines)
    /\ holder \in Instances \cup {None}
    /\ stage \in {"idle", "writing", "written"} /\ (stage # "idle" <=> holder # None)
    /\ pending \in Events \cup {None} /\ (pending # None <=> holder # None)
    /\ alive \subseteq Instances
    /\ memory \in [Instances -> Seq(Events)]

\* Every object has applied a prefix of the one log.  The sequence check of
\* append compares lengths only; this is why that is enough for two objects
\* never to apply different events under one sequence number.
ViewsArePrefixes == \A i \in Instances : IsPrefixOf(memory[i], lines)

\* What an append acknowledged is in the log for good: no torn append, repair,
\* crash or power loss removes, reorders or replaces it.
AcknowledgedSurvive == IsPrefixOf(acked, lines) /\ Len(acked) <= flushed

\* The object that holds the lock is alive and has applied everything but the
\* event it is appending, which is the last line once it is complete and
\* which nobody else has applied either.
HolderIsCurrent ==
    /\ stage = "written" => /\ tail = "clean"
                            /\ \A i \in Instances : Len(memory[i]) < Len(lines)
    /\ holder # None =>
         /\ holder \in alive
         /\ Len(lines) = Len(memory[holder]) + (IF stage = "written" THEN 1 ELSE 0)
         /\ stage = "written" => lines[Len(lines)] = pending
         /\ tail = "record" => tail_event = pending

\* The inductive invariant behind the two above.
StoreInv == TypeOK /\ ViewsArePrefixes /\ AcknowledgedSurvive /\ HolderIsCurrent

\* The log a scheduler opened now would replay, and who has applied it.
CommittedLog == Repaired
Log == INSTANCE CampaignLog WITH
         log <- CommittedLog,
         synced <- {i \in alive : memory[i] = CommittedLog},
         writer <- IF stage = "written" \/ (stage = "writing" /\ tail = "record") THEN holder ELSE None,
         stable <- flushed

\* The file implements the log that CampaignScheduler assumes.
ImplementsLog == Log!Spec

=============================================================================
