----------------------------- MODULE CampaignLog -----------------------------
(***************************************************************************)
(* What the campaign scheduler needs of its event log, and all it uses: a  *)
(* sequence of events that only an object which has applied all of it may  *)
(* extend.  CampaignEventStore, the JSONL file, implements this.           *)
(***************************************************************************)
EXTENDS Naturals, Sequences

CONSTANTS Instances, Events, None

VARIABLES
    log,        \* the events a scheduler opened now would replay
    synced,     \* the objects that have applied exactly these
    writer,     \* the object whose append is not acknowledged yet, or None
    stable      \* how many events no failure can take back

vars == <<log, synced, writer, stable>>

Init == /\ log = << >> /\ synced = {} /\ writer = None /\ stable = 0

Open(i) == /\ writer = None
           /\ synced' = synced \cup {i}
           /\ stable' \in stable .. Len(log)
           /\ UNCHANGED <<log, writer>>

Commit(i, e) == /\ writer = None /\ i \in synced
                /\ log' = Append(log, e)
                /\ synced' = {}
                /\ writer' = i
                /\ UNCHANGED stable

Acknowledge(i) == /\ writer = i
                  /\ synced' = {i}
                  /\ writer' = None
                  /\ stable' = Len(log)
                  /\ UNCHANGED log

\* The append raised after its event was written: nobody is synced.
Abandon(i) == /\ writer = i
              /\ writer' = None
              /\ stable' \in stable .. Len(log)
              /\ UNCHANGED <<log, synced>>

Lose(i) == /\ i \in synced
           /\ synced' = synced \ {i}
           /\ UNCHANGED <<log, writer, stable>>

\* An append that is refused may still have completed an earlier one.
Refuse == /\ writer = None
          /\ stable' \in stable .. Len(log)
          /\ UNCHANGED <<log, synced, writer>>

\* Every process dies and what was not stable may be gone.
PowerLoss == /\ \E n \in stable .. Len(log) : log' = SubSeq(log, 1, n)
             /\ synced' = {} /\ writer' = None
             /\ stable' \in stable .. Len(log')

Next == \/ \E i \in Instances : Open(i) \/ Acknowledge(i) \/ Abandon(i) \/ Lose(i)
        \/ \E i \in Instances, e \in Events : Commit(i, e)
        \/ Refuse \/ PowerLoss

Spec == Init /\ [][Next]_vars
=============================================================================
