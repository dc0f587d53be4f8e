------------------------- MODULE ExternalEvalOutbox -------------------------
(***************************************************************************)
(* ExternalEvalOutbox (external_eval_outbox.py): the durable row of one    *)
(* remote evaluation.  The row is claimed before a provider is paid, holds *)
(* the result once it is known, and is delivered to a ledger sink under a  *)
(* lease.  Every operation is one immediate SQLite transaction; each is    *)
(* given here by the cases its caller tells apart and by the row it leaves.*)
(* Identities, digests and the codec are abstracted: all calls are about   *)
(* the same request.                                                       *)
(***************************************************************************)
CONSTANTS Procs, None

VARIABLE row

\* No row yet: what select_claim_row returns None for.
NoRow == [state |-> "none", result |-> None, delivered |-> FALSE, token |-> None, expired |-> FALSE]

-----------------------------------------------------------------------------
(* replay, claim and commit *)

\* _claim_from_existing_row: a completed row is returned, a claimed one raises.
Replayable == row.state = "completed"
Pending == row.state = "claimed"

\* claim: the row is inserted when there is none.
Claimed == [NoRow EXCEPT !.state = "claimed"]

\* commit: fills a claimed row, accepts its own content again, refuses other content.
CommitAccepts(result) == row.state = "claimed" \/ (row.state = "completed" /\ row.result = result)
Committed(result, sinkRequired) ==
    IF row.state = "completed" THEN row
    ELSE [row EXCEPT !.state = "completed", !.result = result, !.delivered = ~sinkRequired]

-----------------------------------------------------------------------------
(* The delivery lease. A token is named by the process that holds its reservation. *)

\* Mutant: an expired reservation is not taken over.
ReservableFree == row.state = "completed" /\ ~row.delivered /\ row.token = None

\* reserve_sink_delivery
Reservable == row.state = "completed" /\ ~row.delivered /\ (row.token = None \/ row.expired)
Reserved(p) == [row EXCEPT !.token = p, !.expired = FALSE]

\* mark_sink_delivered and record_sink_failure, by the token the row still has.
OwnsLease(p) == ~row.delivered /\ row.token = p
Acknowledged == [row EXCEPT !.delivered = TRUE, !.token = None, !.expired = FALSE]
Released == [row EXCEPT !.token = None, !.expired = FALSE]

\* delivery_lease_expires_at passes.
Lapsed == [row EXCEPT !.expired = TRUE]

=============================================================================
