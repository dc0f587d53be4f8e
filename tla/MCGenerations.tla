----------------------------- MODULE MCGenerations -----------------------------
(* Instances of Generations.                                               *)
EXTENDS Generations

(* One process at a time, two at the same run, and a worker that is        *)
(* resumed until the run is over.                                          *)
Serial  == [Commands |-> {"a"}, Workers |-> {"w"}, MaxTarget |-> 3, MaxFailures |-> 2, MaxCrashes |-> 2,
            Serial |-> TRUE, Resumed |-> FALSE]
Shared  == [Serial EXCEPT !.MaxTarget = 1, !.MaxFailures = 1, !.MaxCrashes = 1, !.Serial = FALSE]
Settles == [Serial EXCEPT !.Commands = {}, !.Resumed = TRUE]
NoRun   == [Serial EXCEPT !.Commands = {}, !.Workers = {}, !.MaxTarget = 1]

MCScopes == {Serial, Shared, Settles, NoRun}

(* Two operators against a run, crashes between two steps, and more        *)
(* versions than are kept.                                                 *)
Racing    == [Runs |-> {"r"}, Operators |-> {"o", "q"}, MaxVersions |-> 1, MaxUpdates |-> 2, MaxCrashes |-> 1,
              Serial |-> FALSE]
Crashing  == [Racing EXCEPT !.Operators = {"o"}, !.MaxVersions = 2, !.MaxUpdates = 4, !.MaxCrashes = 2, !.Serial = TRUE]
Versioned == [Crashing EXCEPT !.MaxUpdates = 6, !.MaxCrashes = 0]
NoBook    == [Racing EXCEPT !.Runs = {}, !.Operators = {}, !.MaxUpdates = 1]

MCGateScopes == {Racing, Crashing, Versioned, NoBook}

(* Reviewers who approve and reject, calibration on its own, and promoters *)
(* that die.                                                               *)
Reviewed   == [Epochs |-> {1, 2}, Runs |-> {"r", "s"}, Promoters |-> {"p", "q"},
               Decisions |-> {"approved", "rejected", None}, RequiresApproval |-> TRUE,
               MaxCalls |-> 2, MaxCrashes |-> 0, MaxFaults |-> 1]
Calibrated == [Reviewed EXCEPT !.Decisions = {None}, !.RequiresApproval = FALSE, !.MaxFaults = 0]
Dying      == [Reviewed EXCEPT !.Decisions = {"approved"}, !.MaxCrashes = 2, !.MaxFaults = 0]
NoEpoch    == [Reviewed EXCEPT !.Epochs = {}, !.Runs = {}, !.Promoters = {}]

MCEpochScopes == {Reviewed, Calibrated, Dying, NoEpoch}

-----------------------------------------------------------------------------
(* A behaviour is about a run, a playbook or the epochs of a scenario.     *)
MCInit ==
    /\ Init /\ Gate!Init /\ Registry!Init
    /\ \/ gate = NoBook /\ trust = NoEpoch
       \/ scope = NoRun /\ trust = NoEpoch
       \/ scope = NoRun /\ gate = NoBook

MCNext ==
    \/ Next /\ UNCHANGED <<books, epochs>>
    \/ Gate!Next /\ UNCHANGED <<loop, epochs>>
    \/ Registry!Next /\ UNCHANGED <<loop, books>>

MCSpec == MCInit /\ [][MCNext]_<<loop, books, epochs>> /\ Fairness /\ Registry!Fairness
=============================================================================
