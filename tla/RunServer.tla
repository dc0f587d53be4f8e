------------------------------- MODULE RunServer -------------------------------
(***************************************************************************)
(* The interactive server's RunManager: one run at a time, each in a child *)
(* process of its own, watched by a monitor thread and steered through one *)
(* LoopController that all runs share.  Clients start runs, stop, pause    *)
(* and resume them, put hints and chat; a shutdown can come at any time.   *)
(*                                                                         *)
(* The manager's lock makes each of these one step.  Reaping a child,      *)
(* repairing its row and releasing the manager hold the cleanup lock       *)
(* throughout: one step too, because a run that is still active lets no    *)
(* other begin and its commands are closed by then.                        *)
(*                                                                         *)
(* The child is the generation loop as far as it calls the controller.     *)
(* Deadlines are nondeterminism: what waits for one may go on at any time. *)
(* A process handle is named by its session.                               *)
(***************************************************************************)
EXTENDS LoopController, Integers, FiniteSets

CONSTANT Scopes    \* what a behaviour is about: the fields below

ASSUME ServerAssumption ==
    /\ \A s \in Scopes :
          /\ IsFiniteSet(s.Callers) /\ None \notin s.Callers
          /\ {s.MaxRuns, s.MaxValues, s.MaxPauses, s.MaxDeaths, s.MaxErrors, s.MaxStalls, s.MaxKillFailures} \subseteq Nat
    /\ None # "running" /\ None \notin [run : Nat, moved : BOOLEAN]

VARIABLES active, open,     \* _active, _commands_open
          session, process, \* _run_session, _process
          cleanup,          \* _cleanup_thread: the reaper it is, or None
          down,             \* _shutdown_requested
          stopped,          \* _processed_stop_command_ids holds an id
          ctl,              \* the controller
          starter,          \* where start_run is: off, reserved, unwinding
          closer,           \* where shutdown is, and what it remembers
          child,            \* session -> none, running, exited, reaped or closed
          call,             \* session -> the call the child is at
          row,              \* session -> None, running, ended or failed
          mon,              \* session -> its monitor: where it is, what it knows
          relay,            \* session -> off, on, blocked or done
          reapers,          \* session -> reaper threads that are alive
          chat,             \* caller -> what it waits for or got
          given,            \* one-shot values the current child was given
          asked,            \* slot -> the last value accepted for the current run
          used,             \* bounds spent, by name
          scope             \* which of Scopes; it never changes

Callers == scope.Callers  \* client connections that chat
MaxRuns == scope.MaxRuns  \* bound: runs

manager == <<active, open, session, process, cleanup, down, stopped>>
runs == <<child, call, row>>
vars == <<manager, ctl, starter, closer, runs, mon, relay, reapers, chat, given, asked, used>>

Sessions == 1..MaxRuns
Calls == {"paused", "stop", "chat", "answer"} \cup Slots
Bounds == [values |-> scope.MaxValues,  \* hints and overrides put
           pauses |-> scope.MaxPauses, deaths |-> scope.MaxDeaths, errors |-> scope.MaxErrors,
           stalls |-> scope.MaxStalls, kills |-> scope.MaxKillFailures]

Init ==
    /\ scope \in Scopes
    /\ active = FALSE /\ open = FALSE /\ session = 0 /\ process = None /\ cleanup = None /\ down = FALSE
    /\ stopped = FALSE
    /\ ctl = Fresh
    /\ starter = "off" /\ closer = [at |-> "up", process |-> None, session |-> 0]
    /\ child = [s \in Sessions |-> "none"] /\ call = [s \in Sessions |-> "boot"]
    /\ row = [s \in Sessions |-> None]
    /\ mon = [s \in Sessions |-> [at |-> "off", exited |-> FALSE, reaped |-> FALSE, quiet |-> TRUE, held |-> None]]
    /\ relay = [s \in Sessions |-> "off"] /\ reapers = [s \in Sessions |-> {}]
    /\ chat = [w \in Callers |-> [at |-> "idle", run |-> 0, by |-> 0]]
    /\ given = <<>> /\ asked = [k \in Slots |-> None]
    /\ used = [b \in DOMAIN Bounds |-> 0]

Spend(b) == used[b] < Bounds[b] /\ used' = [used EXCEPT ![b] = @ + 1]

Monitor(s, at) == mon' = [mon EXCEPT ![s].at = at]

(* Everyone in ws is woken with an error.                                  *)
Wake(ws) == chat' = [w \in Callers |-> IF w \in ws THEN [at |-> "refused", run |-> 0, by |-> 0] ELSE chat[w]]

-----------------------------------------------------------------------------
(* _close_run_commands, also when they are closed already.                 *)
CloseNow ==
    /\ open' = FALSE
    /\ ctl' = abort_pending_chats(ctl)
    /\ Wake(Drained(ctl))
    /\ asked' = [k \in Slots |-> None]

(* For a process, only if it is the manager's.                             *)
CloseFor(s) ==
    IF process = s /\ session = s THEN CloseNow ELSE UNCHANGED <<open, ctl, chat, asked>>

(* What _terminate_run_process can do to a child: a handle that was closed *)
(* is done with, one whose exit was collected is not owned any more, any   *)
(* other is killed and reaped, or a signal is denied or late.              *)
Outcomes(s) ==
    CASE child[s] = "closed" -> {[ok |-> TRUE, child |-> "closed"]}
      [] child[s] = "reaped" -> {[ok |-> FALSE, child |-> "reaped"]}
      [] OTHER -> {[ok |-> TRUE, child |-> "reaped"]} \cup
                  (IF used.kills < Bounds.kills THEN {[ok |-> FALSE, child |-> child[s]]} ELSE {})

Terminated(s, o) ==
    used' = IF ~o.ok /\ child[s] \in {"running", "exited"} THEN [used EXCEPT !.kills = @ + 1] ELSE used

(* Mutant: a row that is running stays.                                    *)
RepairNothing(s) == row

(* _repair_interrupted_run_state.                                          *)
Repaired(s) == IF s = session /\ row[s] = "running" THEN [row EXCEPT ![s] = "failed"] ELSE row

(* Mutant: the handle is closed, the manager kept.                         *)
FinalizeHandle(s, me) ==
    /\ child' = [child EXCEPT ![s] = "closed"]
    /\ UNCHANGED <<open, ctl, chat, asked, active, process, cleanup, stopped>>

(* _finalize_reaped_process, by the thread `me'.                           *)
Finalize(s, me) ==
    /\ child' = [child EXCEPT ![s] = "closed"]
    /\ IF s = session /\ process \in {None, s}
       THEN CloseNow /\ active' = FALSE /\ process' = None /\ stopped' = FALSE
            /\ cleanup' = IF cleanup = me THEN None ELSE cleanup
       ELSE UNCHANGED <<open, ctl, chat, asked, active, process, cleanup, stopped>>

(* _retain_unreaped_process: the manager stays taken and a thread keeps    *)
(* trying, unless one already does.                                        *)
Retain(s) ==
    LET mine == s = session /\ process = s IN
    /\ IF mine THEN CloseNow ELSE UNCHANGED <<open, ctl, chat, asked>>
    /\ IF mine /\ cleanup # None /\ cleanup.kind \in reapers[cleanup.run]
       THEN UNCHANGED <<reapers, cleanup>>
       ELSE /\ reapers' = [reapers EXCEPT ![s] = @ \cup {"process"}]
            /\ cleanup' = IF mine THEN [kind |-> "process", run |-> s] ELSE cleanup
    /\ UNCHANGED <<active, process, stopped>>

(* _retain_stalled_event_relay: so it does until the subscriber returns.   *)
RetainRelay(s) ==
    LET mine == s = session /\ process = s IN
    /\ reapers' = [reapers EXCEPT ![s] = @ \cup {"relay"}]
    /\ IF mine THEN process' = None /\ cleanup' = [kind |-> "relay", run |-> s]
       ELSE UNCHANGED <<process, cleanup>>
    /\ UNCHANGED <<open, ctl, chat, asked, active, stopped>>

-----------------------------------------------------------------------------
(* start_run takes the manager and begins a session.                       *)
ReserveRun ==
    /\ starter = "off" /\ ~active /\ ~down /\ session < MaxRuns
    /\ session' = session + 1 /\ active' = TRUE /\ open' = FALSE /\ stopped' = FALSE
    /\ ctl' = begin_run_session(ctl) /\ Wake(Drained(ctl))
    /\ given' = <<>> /\ asked' = [k \in Slots |-> None]
    /\ starter' = "reserved"
    /\ UNCHANGED <<process, cleanup, down, closer, runs, mon, relay, reapers, used>>

(* It starts the child and its monitor ...                                 *)
Spawn ==
    /\ starter = "reserved" /\ ~down
    /\ child' = [child EXCEPT ![session] = "running"]
    /\ process' = session /\ open' = TRUE
    /\ Monitor(session, "watch") /\ relay' = [relay EXCEPT ![session] = "on"]
    /\ starter' = "off"
    /\ UNCHANGED <<active, session, cleanup, down, stopped, ctl, closer, call, row, reapers, chat, given, asked, used>>

(* ... or fails before there is a child, as it does after a shutdown ...   *)
SpawnFails ==
    /\ starter = "reserved"
    /\ IF down THEN UNCHANGED used ELSE Spend("errors")
    /\ CloseNow /\ active' = FALSE /\ process' = None /\ stopped' = FALSE
    /\ starter' = "off"
    /\ UNCHANGED <<session, cleanup, down, closer, runs, mon, relay, reapers, given>>

(* ... or when the child is there and nobody watches it,                   *)
MonitorStartFails ==
    /\ starter = "reserved" /\ ~down /\ Spend("errors")
    /\ child' = [child EXCEPT ![session] = "running"] /\ process' = session
    /\ starter' = "unwinding"
    /\ UNCHANGED <<active, open, session, cleanup, down, stopped, ctl, closer, call, row, mon, relay, reapers, chat,
                   given, asked>>

(* and then takes it down again.                                           *)
Unwind ==
    /\ starter = "unwinding" /\ starter' = "off"
    /\ \E o \in Outcomes(session) :
       /\ Terminated(session, o)
       /\ IF o.ok
          THEN /\ row' = Repaired(session)
               /\ Finalize(session, [kind |-> "starter", run |-> session]) /\ UNCHANGED reapers
          ELSE Retain(session) /\ UNCHANGED <<row, child>>
    /\ UNCHANGED <<session, down, closer, call, mon, relay, given>>

-----------------------------------------------------------------------------
(* Commands of clients are for an active run that is open to them, and are *)
(* addressed to it.                                                        *)
Accepts == active /\ open

pause ==
    /\ Accepts /\ ~ctl.paused /\ Spend("pauses")
    /\ ctl' = [ctl EXCEPT !.paused = TRUE]
    /\ UNCHANGED <<manager, starter, closer, runs, mon, relay, reapers, chat, given, asked>>

resume ==
    /\ Accepts /\ ctl.paused
    /\ ctl' = [ctl EXCEPT !.paused = FALSE]
    /\ UNCHANGED <<manager, starter, closer, runs, mon, relay, reapers, chat, given, asked, used>>

Put(k) ==
    /\ Accepts /\ Spend("values")
    /\ LET v == [run |-> session, n |-> used.values + 1] IN
       ctl' = put_value(ctl, k, v) /\ asked' = [asked EXCEPT ![k] = v]
    /\ UNCHANGED <<manager, starter, closer, runs, mon, relay, reapers, chat, given>>

(* A stop that carries an id is a duplicate once one did.                  *)
stop_run(named) ==
    /\ Accepts /\ ~(named /\ stopped)
    /\ stopped' = (stopped \/ named)
    /\ ctl' = request_stop(ctl, session)
    /\ UNCHANGED <<active, open, session, process, cleanup, down, starter, closer, runs, mon, relay, reapers, chat,
                   given, asked, used>>

(* A chat is bound to the run while the command is read ...                *)
prepare_chat_run(w) ==
    /\ chat[w].at \in {"idle", "refused", "answered"} /\ Accepts
    /\ chat' = [chat EXCEPT ![w] = [at |-> "prepared", run |-> session, by |-> 0]]
    /\ UNCHANGED <<manager, ctl, starter, closer, runs, mon, relay, reapers, given, asked, used>>

(* ... and admitted by another thread, if that run is still there.         *)
chat_run(w) ==
    /\ chat[w].at = "prepared"
    /\ IF Accepts /\ chat[w].run = session
       THEN ctl' = admit_chat(ctl, w) /\ chat' = [chat EXCEPT ![w].at = "waiting"]
       ELSE UNCHANGED ctl /\ chat' = [chat EXCEPT ![w].at = "refused"]
    /\ UNCHANGED <<manager, starter, closer, runs, mon, relay, reapers, given, asked, used>>

-----------------------------------------------------------------------------
(* The child: it opens its row and calls the controller at the top of each *)
(* generation, for chats and for the gate.                                 *)
ChildBoots(s) ==
    /\ child[s] = "running" /\ call[s] = "boot"
    /\ row' = [row EXCEPT ![s] = "running"] /\ call' = [call EXCEPT ![s] = "paused"]
    /\ UNCHANGED <<manager, ctl, starter, closer, child, mon, relay, reapers, chat, given, asked, used>>

(* Stopped, completed or failed: the row says which.                       *)
ChildEnds(s) ==
    /\ child[s] = "running" /\ call[s] = "ending"
    /\ row' = [row EXCEPT ![s] = "ended"] /\ call' = [call EXCEPT ![s] = "ended"]
    /\ UNCHANGED <<manager, ctl, starter, closer, child, mon, relay, reapers, chat, given, asked, used>>

send_result(s) ==
    /\ child[s] = "running" /\ call[s] = "ended"
    /\ call' = [call EXCEPT ![s] = "reported"]
    /\ UNCHANGED <<manager, ctl, starter, closer, child, row, mon, relay, reapers, chat, given, asked, used>>

ChildExits(s) ==
    /\ child[s] = "running" /\ call[s] = "reported"
    /\ child' = [child EXCEPT ![s] = "exited"]
    /\ UNCHANGED <<manager, ctl, starter, closer, call, row, mon, relay, reapers, chat, given, asked, used>>

ChildDies(s) ==
    /\ child[s] = "running" /\ Spend("deaths")
    /\ child' = [child EXCEPT ![s] = "exited"]
    /\ UNCHANGED <<manager, ctl, starter, closer, call, row, mon, relay, reapers, chat, given, asked>>

(* Nobody is at the other end of its calls any more.                       *)
ChildLosesServer(s) ==
    /\ child[s] = "running" /\ call[s] \in Calls
    /\ (mon[s].at \in {"cleaning", "done"}) \/ (mon[s].at = "off" /\ starter # "unwinding")
    /\ call' = [call EXCEPT ![s] = "ending"]
    /\ UNCHANGED <<manager, ctl, starter, closer, child, row, mon, relay, reapers, chat, given, asked, used>>

-----------------------------------------------------------------------------
(* What the monitor answers to a call, and where the child goes from there. *)
Answer(s, took, value, next) == [call |-> call[s], took |-> took, value |-> value, next |-> next]

(* dispatch_control_request: the answer is prepared, with a reservation if *)
(* the call takes something ...                                            *)
Dispatch(s) ==
    LET c == call[s]
        hold(a) == mon' = [mon EXCEPT ![s].at = "sending", ![s].held = a] IN
    /\ mon[s].at = "watch" /\ child[s] = "running" /\ c \in Calls
    /\ CASE c = "paused" ->
              hold(Answer(s, FALSE, None, {IF ctl.paused THEN "paused" ELSE "stop"})) /\ UNCHANGED ctl
         [] c = "stop" ->
              hold(Answer(s, FALSE, None, {IF ctl.stop # None THEN "ending" ELSE "hint"})) /\ UNCHANGED ctl
         [] c \in Slots ->
              /\ hold(Answer(s, TRUE, ctl.slot[c].value, {IF c = "hint" THEN "chat" ELSE "paused", "ending"}))
              /\ ctl' = reserve_value(ctl, c, s)
         [] c = "chat" ->
              IF ctl.pending = <<>>
              THEN hold(Answer(s, FALSE, None, {"gate", "ending"})) /\ UNCHANGED ctl
              ELSE hold(Answer(s, TRUE, Head(ctl.pending), {"answer"})) /\ ctl' = reserve_chat(ctl)
         [] c = "answer" ->
              IF ctl.inflight = <<>>
              THEN hold(Answer(s, FALSE, None, {"ending"})) /\ UNCHANGED ctl
              ELSE hold(Answer(s, TRUE, Head(ctl.inflight), {"gate", "ending"})) /\ ctl' = reserve_chat_response(ctl)
    /\ UNCHANGED <<manager, starter, closer, runs, relay, reapers, chat, given, asked, used>>

(* ... sent ...                                                            *)
Send(s) ==
    LET a == mon[s].held IN
    /\ mon[s].at = "sending" /\ child[s] = "running"
    /\ \E n \in a.next : call' = [call EXCEPT ![s] = n]
    /\ given' = IF a.call \in Slots /\ a.value # None THEN Append(given, a.value) ELSE given
    /\ mon' = IF a.took THEN [mon EXCEPT ![s].at = "sent"] ELSE [mon EXCEPT ![s].at = "watch", ![s].held = None]
    /\ UNCHANGED <<manager, ctl, starter, closer, child, row, relay, reapers, chat, asked, used>>

(* What the monitor reserved is still reserved.                            *)
StillHeld(s) ==
    LET a == mon[s].held IN
    CASE a.call \in Slots -> IsReserved(ctl, a.call, s)
      [] a.call = "chat" -> ctl.reserved = a.value
      [] a.call = "answer" -> ctl.answering = a.value

(* ... or not, and then given back, which ends the monitor ...             *)
Unsent(s) ==
    LET a == mon[s].held IN
    /\ mon[s].at = "sending"
    /\ IF child[s] = "running" THEN Spend("errors") ELSE UNCHANGED used
    /\ ctl' = IF ~a.took \/ ~StillHeld(s) THEN ctl
              ELSE CASE a.call \in Slots -> rollback_value(ctl, a.call, s)
                     [] a.call = "chat" -> rollback_chat(ctl)
                     [] a.call = "answer" -> rollback_chat_response(ctl)
    /\ mon' = [mon EXCEPT ![s].at = "leaving", ![s].held = None]
    /\ UNCHANGED <<manager, starter, closer, runs, relay, reapers, chat, given, asked>>

(* ... and committed, unless the commands were closed meanwhile.           *)
Commit(s) ==
    LET a == mon[s].held IN
    /\ mon[s].at = "sent"
    /\ mon' = [mon EXCEPT ![s].at = IF StillHeld(s) THEN "watch" ELSE "leaving", ![s].held = None]
    /\ ctl' = IF ~StillHeld(s) THEN ctl
              ELSE CASE a.call \in Slots -> commit_value(ctl, a.call, s)
                     [] a.call = "chat" -> commit_chat(ctl)
                     [] a.call = "answer" -> commit_chat_response(ctl)
    /\ chat' = IF a.call = "answer" /\ StillHeld(s)
               THEN [chat EXCEPT ![a.value] = [@ EXCEPT !.at = "answered", !.by = s]] ELSE chat
    /\ UNCHANGED <<manager, starter, closer, runs, relay, reapers, given, asked, used>>

(* The terminal result closes the commands, as the exit does.              *)
SeeResult(s) ==
    /\ mon[s].at = "watch" /\ call[s] = "reported" /\ open /\ process = s
    /\ CloseFor(s)
    /\ UNCHANGED <<active, session, process, cleanup, down, stopped, starter, closer, runs, mon, relay, reapers, given, used>>

SeeExit(s) ==
    /\ mon[s].at = "watch" /\ child[s] = "exited" /\ ~mon[s].exited
    /\ mon' = [mon EXCEPT ![s].exited = TRUE]
    /\ CloseFor(s)
    /\ UNCHANGED <<active, session, process, cleanup, down, stopped, starter, closer, runs, relay, reapers, given, used>>

(* Anything the protocol forbids, a subscriber that takes too long, a      *)
(* child that goes on after its result or that somebody else reaped.       *)
Fail(s) ==
    /\ mon[s].at = "watch"
    /\ IF child[s] # "running" \/ call[s] = "reported" \/ relay[s] = "blocked" THEN UNCHANGED used ELSE Spend("errors")
    /\ Monitor(s, "leaving")
    /\ UNCHANGED <<manager, ctl, starter, closer, runs, relay, reapers, chat, given, asked>>

(* The child exited and its channels are drained.                          *)
Reap(s) ==
    /\ mon[s].at = "watch" /\ mon[s].exited /\ relay[s] = "on"
    /\ \E o \in Outcomes(s) :
       /\ Terminated(s, o)
       /\ child' = [child EXCEPT ![s] = o.child]
       /\ mon' = [mon EXCEPT ![s].at = "leaving", ![s].reaped = o.ok]
    /\ UNCHANGED <<manager, ctl, starter, closer, call, row, relay, reapers, chat, given, asked>>

(* finally: the commands are closed, the relay is asked to stop ...        *)
Leave(s) ==
    /\ mon[s].at = "leaving"
    /\ CloseFor(s)
    /\ mon' = [mon EXCEPT ![s].at = "cleaning", ![s].quiet = relay[s] = "on"]
    /\ relay' = [relay EXCEPT ![s] = IF @ = "on" THEN "done" ELSE @]
    /\ UNCHANGED <<active, session, process, cleanup, down, stopped, starter, closer, runs, reapers, given, used>>

(* ... and the child is reaped, if it is not yet, its row repaired and the *)
(* manager released, or kept by whoever is to finish that.                 *)
Cleanup(s) ==
    /\ mon[s].at = "cleaning" /\ Monitor(s, "done")
    /\ \E o \in IF mon[s].reaped THEN {[ok |-> TRUE, child |-> child[s]]} ELSE Outcomes(s) :
       /\ Terminated(s, o)
       /\ IF o.ok
          THEN /\ row' = Repaired(s)
               /\ IF mon[s].quiet
                  THEN Finalize(s, [kind |-> "monitor", run |-> s]) /\ UNCHANGED reapers
                  ELSE RetainRelay(s) /\ child' = [child EXCEPT ![s] = o.child]
          ELSE Retain(s) /\ UNCHANGED <<row, child>>
    /\ UNCHANGED <<session, down, starter, closer, call, relay, given>>

(* _retry_unreaped_process_cleanup.                                        *)
RetryReap(s) ==
    /\ "process" \in reapers[s]
    /\ \E o \in Outcomes(s) :
       /\ Terminated(s, o)
       /\ IF o.ok
          THEN /\ row' = Repaired(s)
               /\ Finalize(s, [kind |-> "process", run |-> s])
               /\ reapers' = [reapers EXCEPT ![s] = @ \ {"process"}]
          ELSE UNCHANGED <<row, child, reapers, open, ctl, chat, asked, active, process, cleanup, stopped>>
    /\ UNCHANGED <<session, down, starter, closer, call, mon, relay, given>>

(* finish_after_relay.                                                     *)
FinishAfterRelay(s) ==
    /\ "relay" \in reapers[s] /\ relay[s] = "done"
    /\ Finalize(s, [kind |-> "relay", run |-> s])
    /\ reapers' = [reapers EXCEPT ![s] = @ \ {"relay"}]
    /\ UNCHANGED <<session, down, starter, closer, call, row, mon, relay, given, used>>

SubscriberBlocks(s) ==
    /\ relay[s] = "on" /\ Spend("stalls")
    /\ relay' = [relay EXCEPT ![s] = "blocked"]
    /\ UNCHANGED <<manager, ctl, starter, closer, runs, mon, reapers, chat, given, asked>>

SubscriberReturns(s) ==
    /\ relay[s] = "blocked"
    /\ relay' = [relay EXCEPT ![s] = IF mon[s].at \in {"cleaning", "done"} THEN "done" ELSE "on"]
    /\ UNCHANGED <<manager, ctl, starter, closer, runs, mon, reapers, chat, given, asked, used>>

-----------------------------------------------------------------------------
(* shutdown closes everything and, if there is a child, ...                *)
ShutdownBegins ==
    /\ closer.at = "up"
    /\ down' = TRUE /\ CloseNow
    /\ closer' = [at |-> IF process = None THEN "down" ELSE "stopping", process |-> process, session |-> session]
    /\ UNCHANGED <<active, session, process, cleanup, stopped, starter, runs, mon, relay, reapers, given, used>>

(* ... asks it to stop ...                                                 *)
ShutdownStops ==
    /\ closer.at = "stopping" /\ closer' = [closer EXCEPT !.at = "joining"]
    /\ ctl' = request_stop(ctl, closer.session)
    /\ UNCHANGED <<manager, starter, runs, mon, relay, reapers, chat, given, asked, used>>

(* ... and takes it down when the monitor did not do so in time.           *)
ShutdownCleans ==
    LET s == closer.session IN
    /\ closer.at = "joining" /\ closer' = [closer EXCEPT !.at = "down"]
    /\ IF process = closer.process
       THEN \E o \in Outcomes(s) :
            /\ Terminated(s, o)
            /\ IF o.ok THEN row' = Repaired(s) /\ Finalize(s, [kind |-> "shutdown", run |-> s]) /\ UNCHANGED reapers
               ELSE /\ IF cleanup = None THEN Retain(s)
                       ELSE UNCHANGED <<reapers, open, ctl, chat, asked, active, process, cleanup, stopped>>
                    /\ UNCHANGED <<row, child>>
       ELSE UNCHANGED <<row, child, reapers, open, ctl, chat, asked, active, process, cleanup, stopped, used>>
    /\ UNCHANGED <<session, down, starter, call, mon, relay, given>>

-----------------------------------------------------------------------------
Starting == ReserveRun \/ Spawn \/ SpawnFails \/ MonitorStartFails \/ Unwind

Clients ==
    \/ pause \/ resume
    \/ \E k \in Slots : Put(k)
    \/ \E named \in BOOLEAN : stop_run(named)
    \/ \E w \in Callers : prepare_chat_run(w) \/ chat_run(w)

ChildStep(s) == ChildBoots(s) \/ ChildEnds(s) \/ send_result(s) \/ ChildExits(s) \/ ChildLosesServer(s)

MonitorStep(s) ==
    \/ Dispatch(s) \/ Send(s) \/ Unsent(s) \/ Commit(s)
    \/ SeeResult(s) \/ SeeExit(s) \/ Fail(s) \/ Reap(s) \/ Leave(s) \/ Cleanup(s)

Reaping(s) == RetryReap(s) \/ FinishAfterRelay(s)

Closing == ShutdownBegins \/ ShutdownStops \/ ShutdownCleans

Next ==
    /\ \/ Starting \/ Clients \/ Closing
       \/ \E s \in Sessions :
            ChildStep(s) \/ ChildDies(s) \/ MonitorStep(s) \/ Reaping(s) \/ SubscriberBlocks(s) \/ SubscriberReturns(s)
    /\ scope' = scope

(* Threads of the server and the child take their steps, and a subscriber  *)
(* that blocks returns.  Nobody has to send a command.  It matters where   *)
(* runs are to end.                                                        *)
Served(s) == scope.Served /\ s \in Sessions

Fairness ==
    /\ WF_vars(scope.Served /\ (Spawn \/ SpawnFails \/ Unwind))
    /\ WF_vars(scope.Served /\ (ShutdownStops \/ ShutdownCleans))
    /\ \A s \in UNION {1..c.MaxRuns : c \in Scopes} :
         /\ WF_vars(Served(s) /\ ChildStep(s)) /\ WF_vars(Served(s) /\ MonitorStep(s)) /\ WF_vars(Served(s) /\ RetryReap(s))
         /\ WF_vars(Served(s) /\ FinishAfterRelay(s)) /\ WF_vars(Served(s) /\ SubscriberReturns(s))
    /\ \A w \in UNION {s.Callers : s \in Scopes} : WF_vars(scope.Served /\ w \in Callers /\ chat_run(w))

Spec == Init /\ [][Next]_<<vars, scope>> /\ Fairness

-----------------------------------------------------------------------------
Values == [run : Sessions, n : 1..Bounds.values]

(* The manager, the controller, the monitors and the callers.              *)
TypeOK ==
    /\ active \in BOOLEAN /\ open \in BOOLEAN /\ down \in BOOLEAN /\ stopped \in BOOLEAN
    /\ session \in 0..MaxRuns /\ process \in Sessions \cup {None}
    /\ cleanup \in [kind : {"process", "relay"}, run : Sessions] \cup {None}
    /\ starter \in {"off", "reserved", "unwinding"} /\ closer.at \in {"up", "stopping", "joining", "down"}
    /\ ctl.stop \in Sessions \cup {None} /\ ctl.paused \in BOOLEAN
    /\ \A k \in Slots : ctl.slot[k].value \in Values \cup {None}
    /\ \A s \in Sessions : /\ child[s] \in {"none", "running", "exited", "reaped", "closed"}
                           /\ call[s] \in Calls \cup {"boot", "ending", "ended", "reported"}
                           /\ row[s] \in {None, "running", "ended", "failed"}
                           /\ mon[s].at \in {"off", "watch", "sending", "sent", "leaving", "cleaning", "done"}
                           /\ relay[s] \in {"off", "on", "blocked", "done"}
                           /\ reapers[s] \subseteq {"process", "relay"}
    /\ Len(ctl.pending) + Len(ctl.inflight) <= Cardinality(Callers)
    /\ \A w \in Callers : chat[w].at \in {"idle", "prepared", "waiting", "answered", "refused"}

(* A child that was not reaped belongs to the current run, and the manager *)
(* is taken: no two runs overlap, however their cleanup went.              *)
OneChild == \A s \in Sessions : child[s] \in {"running", "exited"} => active /\ session = s

(* When the manager is free no run it ever started is left as running in   *)
(* the database, whether its child finished, died or was killed.           *)
ReleasedIsRepaired == ~active => \A s \in Sessions : row[s] # "running"

(* No subscriber is still being told of an earlier run when a run begins,  *)
(* as long as children can be killed at once: a thread that reaps one      *)
(* later releases the manager without waiting for the relay.               *)
RelayIsOver == scope.MaxKillFailures = 0 => \A s \in Sessions : s < session => relay[s] # "blocked"

(* Whoever waits for an answer is known to the controller, and somebody is *)
(* there only while a run takes commands: it is answered or woken.         *)
WaitingIsHeld ==
    /\ {w \in Callers : chat[w].at = "waiting"} = Waiters(ctl)
    /\ Waiters(ctl) # {} => active /\ open

(* An answer comes from the run the chat was meant for.                    *)
AnsweredByItsRun == \A w \in Callers : chat[w].at = "answered" => chat[w].by = chat[w].run

(* A stop and the one-shot values are for the run that gets them, and a    *)
(* value is given once.                                                    *)
SteeredByItsOwn ==
    /\ ctl.stop \in {None, session}
    /\ \A i \in 1..Len(given) : given[i].run = session
    /\ \A i, j \in 1..Len(given) : given[i] = given[j] => i = j

(* The last hint, and the last override, that was accepted is waiting or   *)
(* was given, as long as the run takes commands.                           *)
NoValueLost ==
    open => \A k \in Slots :
        asked[k] \in {None, ctl.slot[k].value} \cup {given[i] : i \in 1..Len(given)}

Left(s) == child[s] \in {"exited", "reaped"} \/ (child[s] = "closed" /\ row[s] = "running")

(* In the end a child that exited is reaped, its row repaired and the      *)
(* manager released, and after a shutdown no caller is left waiting.       *)
EverythingIsReleased ==
    <>[](scope.Served => /\ \A s \in Sessions : ~Left(s)
                         /\ down => ~active /\ \A w \in Callers : chat[w].at \notin {"prepared", "waiting"})

(* Runs do not overlap: neither their children, nor their rows, nor their  *)
(* events.                                                                 *)
ServerInv == TypeOK /\ OneChild /\ ReleasedIsRepaired /\ RelayIsOver

(* What clients ask for reaches the run it was meant for, and is not lost. *)
SteeringInv == WaitingIsHeld /\ AnsweredByItsRun /\ SteeredByItsOwn /\ NoValueLost

=============================================================================
