------------------------------ MODULE MCRunServer ------------------------------
(* Instances of RunServer.                                                 *)
EXTENDS RunServer

Quiet == [Callers |-> {}, MaxRuns |-> 2, MaxValues |-> 0, MaxPauses |-> 0, MaxDeaths |-> 0, MaxErrors |-> 0,
          MaxStalls |-> 0, MaxKillFailures |-> 0, Served |-> FALSE]

(* Children that cannot be killed, two chats, subscribers that block,      *)
(* values and pauses, and one run with all of its troubles that ends.      *)
Stubborn == [Quiet EXCEPT !.Callers = {"u"}, !.MaxDeaths = 1, !.MaxErrors = 1, !.MaxKillFailures = 1]
Chatting == [Quiet EXCEPT !.Callers = {"u", "v"}, !.MaxRuns = 1, !.MaxDeaths = 1, !.MaxErrors = 1]
Stalling == [Quiet EXCEPT !.MaxErrors = 1, !.MaxStalls = 2]
Steered  == [Quiet EXCEPT !.MaxValues = 2, !.MaxPauses = 1, !.MaxErrors = 1]
Released == [Quiet EXCEPT !.Callers = {"u"}, !.MaxRuns = 1, !.MaxDeaths = 1, !.MaxErrors = 1, !.MaxStalls = 1,
                          !.MaxKillFailures = 1, !.Served = TRUE]

MCScopes == {Stubborn, Chatting, Stalling, Steered, Released}
=============================================================================
