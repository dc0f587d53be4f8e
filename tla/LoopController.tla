---------------------------- MODULE LoopController -----------------------------
(***************************************************************************)
(* The control interface between an interactive server and the run it      *)
(* watches: pause, stop, one-shot values (a hint, a gate override) and     *)
(* chats.  Every method holds the controller's lock, so the controller is  *)
(* one record and a method is an operator from record to record.           *)
(*                                                                         *)
(* Taking a one-shot value or a chat is a transaction around a message to  *)
(* the run's process: reserve, send, commit or roll back.  A version       *)
(* counter is kept as whether it moved since the reservation, a queue of   *)
(* requests as the sequence of their callers.                              *)
(***************************************************************************)
EXTENDS Naturals, Sequences

CONSTANT None

Slots == {"hint", "gate"}
Empty == [value |-> None, reserved |-> None]

Fresh == [paused |-> FALSE, stop |-> None, slot |-> [k \in Slots |-> Empty],
          pending |-> <<>>, reserved |-> None, inflight |-> <<>>, answering |-> None, abort |-> FALSE]

(* Everyone who waits for an answer of this controller.                    *)
Waiters(c) ==
    {c.pending[i] : i \in 1..Len(c.pending)} \cup {c.inflight[i] : i \in 1..Len(c.inflight)}
      \cup (IF c.reserved = None THEN {} ELSE {c.reserved})

-----------------------------------------------------------------------------
(* Mutant: the reservation is committed as if nothing had been put since.  *)
CommitLatest(c, k, s) == [c EXCEPT !.slot[k] = Empty]

(* inject_hint, set_gate_override.                                         *)
put_value(c, k, v) ==
    [c EXCEPT !.slot[k] = [value |-> v,
                           reserved |-> IF @.reserved = None THEN None
                                        ELSE [run |-> @.reserved.run, moved |-> TRUE]]]

reserve_value(c, k, s) == [c EXCEPT !.slot[k].reserved = [run |-> s, moved |-> FALSE]]

IsReserved(c, k, s) == c.slot[k].reserved # None /\ c.slot[k].reserved.run = s

(* A value that was put since the reservation stays.                       *)
commit_value(c, k, s) ==
    IF c.slot[k].reserved.moved THEN [c EXCEPT !.slot[k].reserved = None]
    ELSE [c EXCEPT !.slot[k] = Empty]

rollback_value(c, k, s) == [c EXCEPT !.slot[k].reserved = None]

-----------------------------------------------------------------------------
admit_chat(c, w) == [c EXCEPT !.pending = Append(@, w)]

reserve_chat(c) == [c EXCEPT !.reserved = Head(c.pending), !.pending = Tail(@)]

commit_chat(c) == [c EXCEPT !.inflight = Append(@, c.reserved), !.reserved = None]

rollback_chat(c) == [c EXCEPT !.pending = <<c.reserved>> \o @, !.reserved = None]

reserve_chat_response(c) == [c EXCEPT !.answering = Head(c.inflight)]

commit_chat_response(c) == [c EXCEPT !.answering = None, !.inflight = Tail(@)]

rollback_chat_response(c) == [c EXCEPT !.answering = None]

-----------------------------------------------------------------------------
(* _drain_chat_requests_locked: who is woken when the chats are dropped.   *)
Drained(c) == Waiters(c)

(* The chats, the one-shot values and their reservations are gone, and a   *)
(* paused run goes on.                                                     *)
abort_pending_chats(c) == [Fresh EXCEPT !.stop = c.stop, !.abort = TRUE]

begin_run_session(c) == Fresh

(* request_stop wakes a paused run.                                        *)
request_stop(c, s) == [c EXCEPT !.stop = s, !.paused = FALSE]

=============================================================================
