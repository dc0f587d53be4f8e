---------------------------- MODULE MCPrimeClient ----------------------------
(***************************************************************************)
(* Instances of the remote client: two processes on one request.           *)
(***************************************************************************)
EXTENDS PrimeClient

CONSTANTS p1, p2

\* Cancel calls, a retry, failing transactions and a client without a sink.
Failing == [Sinkless |-> {p2}, MaxRetries |-> 1, StoreFails |-> TRUE, MaxCrashes |-> 0, MaxSlow |-> 0, Retried |-> FALSE,
            Cancels |-> {p1}]

\* Deliveries that take longer than their lease.
Slow == [Failing EXCEPT !.Sinkless = {}, !.MaxRetries = 0, !.StoreFails = FALSE, !.MaxCrashes = 0, !.MaxSlow = 2,
                         !.Cancels = {}]

\* A request that is executed until it is delivered, through the death of a process.
Redelivered == [Slow EXCEPT !.MaxCrashes = 1, !.MaxSlow = 0, !.Cancels = {p1}, !.Retried = TRUE]

PrimeScopes == {Failing, Slow, Redelivered}

=============================================================================
