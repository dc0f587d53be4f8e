--------------------------- MODULE PaidEvaluation ---------------------------
(***************************************************************************)
(* What the remote client and its outbox promise about one request: it is  *)
(* claimed before any of it is paid for, at most one command is ever       *)
(* dispatched for it, its verdict is written once, and the ledger sink     *)
(* hears that verdict only.                                                *)
(***************************************************************************)
EXTENDS Naturals

CONSTANTS Verdicts, Undecided

VARIABLES
    claimed,    \* the request is durably claimed
    commands,   \* commands the provider accepted for it
    verdict,    \* the committed result, or Undecided
    heard       \* verdicts the sink was given

vars == <<claimed, commands, verdict, heard>>

Init == claimed = FALSE /\ commands = 0 /\ verdict = Undecided /\ heard = {}

Claim == ~claimed /\ claimed' = TRUE /\ UNCHANGED <<commands, verdict, heard>>

Pay ==
    /\ claimed /\ verdict = Undecided /\ commands = 0
    /\ commands' = 1 /\ UNCHANGED <<claimed, verdict, heard>>

\* Only a request that was paid for succeeds.
Decide(v) ==
    /\ claimed /\ verdict = Undecided /\ (v.status = "success" => commands = 1)
    /\ verdict' = v /\ UNCHANGED <<claimed, commands, heard>>

Hear == verdict # Undecided /\ heard' = {verdict} /\ UNCHANGED <<claimed, commands, verdict>>

Next == Claim \/ Pay \/ (\E v \in Verdicts : Decide(v)) \/ Hear

Spec == Init /\ [][Next]_vars

=============================================================================
