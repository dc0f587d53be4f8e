--------------------------- MODULE RunServerProofs -----------------------------
(***************************************************************************)
(* Proofs about RunServer and its LoopController, for any callers, number  *)
(* of runs, values, and failures of children, subscribers and signals.     *)
(***************************************************************************)
EXTENDS RunServer, FiniteSetTheorems, SequenceTheorems, TLAPS

-----------------------------------------------------------------------------
(* Types.                                                                  *)
Replies == [call : Calls, took : BOOLEAN, value : Values \cup Callers \cup {None}, next : SUBSET (Calls \cup {"ending"})]
Monitors == [at : {"off", "watch", "sending", "sent", "leaving", "cleaning", "done"},
             exited : BOOLEAN, reaped : BOOLEAN, quiet : BOOLEAN, held : Replies \cup {None}]
SlotStates == [value : Values \cup {None}, reserved : [run : Sessions, moved : BOOLEAN] \cup {None}]
Controllers == [paused : BOOLEAN, stop : Sessions \cup {None}, slot : [Slots -> SlotStates],
                pending : Seq(Callers), reserved : Callers \cup {None},
                inflight : Seq(Callers), answering : Callers \cup {None}, abort : BOOLEAN]
Chats == [at : {"idle", "prepared", "waiting", "answered", "refused"}, run : 0..MaxRuns, by : 0..MaxRuns]

ManagerTypes ==
    /\ active \in BOOLEAN /\ open \in BOOLEAN /\ down \in BOOLEAN /\ stopped \in BOOLEAN
    /\ session \in 0..MaxRuns /\ process \in Sessions \cup {None}
    /\ cleanup \in [kind : {"process", "relay"}, run : Sessions] \cup {None}
    /\ starter \in {"off", "reserved", "unwinding"}
    /\ closer \in [at : {"up", "stopping", "joining", "down"}, process : Sessions \cup {None}, session : 0..MaxRuns]

RunTypes ==
    /\ child \in [Sessions -> {"none", "running", "exited", "reaped", "closed"}]
    /\ call \in [Sessions -> Calls \cup {"boot", "ending", "ended", "reported"}]
    /\ row \in [Sessions -> {None, "running", "ended", "failed"}]
    /\ relay \in [Sessions -> {"off", "on", "blocked", "done"}]
    /\ reapers \in [Sessions -> SUBSET {"process", "relay"}]
    /\ used \in [DOMAIN Bounds -> Nat]

SteerTypes ==
    /\ ctl \in Controllers /\ chat \in [Callers -> Chats]
    /\ given \in Seq(Values) /\ asked \in [Slots -> Values \cup {None}]

Types == scope \in Scopes /\ ManagerTypes /\ RunTypes /\ mon \in [Sessions -> Monitors] /\ SteerTypes

-----------------------------------------------------------------------------
(* The manager, its children, their rows, monitors, relays and reapers.    *)
Live(m) == m.at \notin {"off", "done"}
Holding(m) == m.at \in {"sending", "sent"}

(* The manager that has a process is taken by the run of that process.     *)
ManagerOK ==
    /\ process # None => process = session /\ active
    /\ active => session \in Sessions

(* A start that is under way is nobody else's.                             *)
StarterOK ==
    /\ starter # "off" => session \in Sessions /\ mon[session].at = "off"
    /\ starter = "reserved" => active /\ process = None /\ child[session] = "none" /\ reapers[session] = {}

(* A shutdown remembers the run that stays the last.                       *)
CloserOK ==
    /\ down = (closer.at # "up")
    /\ closer.at \in {"stopping", "joining"} =>
          closer.session = session /\ session \in Sessions /\ starter # "reserved"

(* What has not begun has left nothing behind.                             *)
FutureOK(s) == s > session => child[s] = "none" /\ mon[s].at = "off" /\ reapers[s] = {}

ChildOK(s) ==
    /\ child[s] \in {"running", "exited"} => active /\ session = s
    /\ row[s] = "running" => active /\ session = s /\ child[s] # "none"
    /\ child[s] = "reaped" => mon[s].at = "done" \/ mon[s].reaped
    /\ mon[s].reaped => mon[s].at \in {"leaving", "cleaning", "done"} /\ child[s] \in {"reaped", "closed"}

(* A monitor at work watches the current run, and until a shutdown nobody  *)
(* else takes the run down.                                                *)
MonitorOK(s) ==
    /\ Live(mon[s]) => session = s /\ (~down => active)
    /\ ~down /\ reapers[s] # {} => ~Live(mon[s])
    /\ "relay" \in reapers[s] => row[s] # "running" /\ child[s] \in {"reaped", "closed"}

RelayOK(s) ==
    /\ relay[s] = "on" => mon[s].at \in {"watch", "sending", "sent", "leaving"}
    /\ mon[s].at = "off" => relay[s] = "off"
    /\ mon[s].at = "cleaning" /\ mon[s].quiet => relay[s] = "done"
    /\ scope.MaxKillFailures = 0 =>
          /\ relay[s] \in {"on", "blocked"} => session = s /\ (~down => active)
          /\ ~down => "process" \notin reapers[s]

LifeAt(s) == FutureOK(s) /\ ChildOK(s) /\ MonitorOK(s) /\ RelayOK(s)

Life == ManagerOK /\ StarterOK /\ CloserOK /\ \A s \in Sessions : LifeAt(s)

-----------------------------------------------------------------------------
(* Chats.                                                                  *)
Elems(q) == {q[i] : i \in 1..Len(q)}
Once(q) == \A i, j \in 1..Len(q) : q[i] = q[j] => i = j

(* A caller is in one place of the controller.                             *)
QueuesOK ==
    /\ Once(ctl.pending) /\ Once(ctl.inflight)
    /\ Elems(ctl.pending) \cap Elems(ctl.inflight) = {}
    /\ ctl.reserved \notin Elems(ctl.pending) \cup Elems(ctl.inflight)

(* A chat that is being handed over is in the monitor's hand; the one that *)
(* is being answered is the first.                                         *)
ReservedOK ==
    /\ ctl.reserved # None =>
          /\ session \in Sessions /\ Holding(mon[session])
          /\ mon[session].held.took /\ mon[session].held.call = "chat" /\ mon[session].held.value = ctl.reserved
    /\ ctl.answering # None => ctl.inflight # <<>> /\ Head(ctl.inflight) = ctl.answering

ChatsOK ==
    /\ QueuesOK /\ ReservedOK
    /\ WaitingIsHeld /\ AnsweredByItsRun
    /\ \A w \in Callers : chat[w].at = "waiting" => chat[w].run = session

(* What a monitor has in its hand.                                         *)
HandOK(s) ==
    LET a == mon[s].held IN
    Holding(mon[s]) =>
        /\ a \in Replies
        /\ mon[s].at = "sent" => a.took
        /\ a.call \in Slots => a.took /\ a.value \in Values \cup {None}
        /\ a.took => a.call \in Slots \/ (a.call \in {"chat", "answer"} /\ a.value \in Callers)

-----------------------------------------------------------------------------
(* One-shot values.                                                        *)
Given == {given[i] : i \in 1..Len(given)}

(* A value of this run that was put already.                               *)
Mine(v) == v.run = session /\ v.n <= used.values

(* The reservation holds, and nothing was put since.                       *)
Unmoved(k) == IsReserved(ctl, k, session) /\ ~ctl.slot[k].reserved.moved

SlotsOK ==
    /\ \A k \in Slots : ctl.slot[k].value # None => Mine(ctl.slot[k].value)
    /\ \A k, l \in Slots : ctl.slot[k].value = ctl.slot[l].value => k = l \/ ctl.slot[k].value = None

GivenOK ==
    /\ ctl.stop \in {None, session}
    /\ \A v \in Given : Mine(v)
    /\ Once(given)

(* A value that is given and not yet gone is in the monitor's hand.        *)
GoneOK ==
    \A k \in Slots : ctl.slot[k].value # None /\ ctl.slot[k].value \in Given =>
        /\ mon[session].at = "sent" /\ mon[session].held.call = k
        /\ mon[session].held.value = ctl.slot[k].value /\ session \in Sessions

(* The value in its hand: it was given if it was sent, and it is in the    *)
(* slot as long as nothing was put since.                                  *)
HeldOK(m) ==
    m.held.call \in Slots =>
        /\ m.held.value # None => Mine(m.held.value) /\ (m.held.value \in Given <=> m.at = "sent")
        /\ \A k \in Slots : m.held.value # None /\ ctl.slot[k].value = m.held.value => k = m.held.call /\ Unmoved(k)
        /\ Unmoved(m.held.call) => ctl.slot[m.held.call].value = m.held.value

ValuesOK ==
    /\ SlotsOK /\ GivenOK /\ GoneOK
    /\ session \in Sessions /\ Holding(mon[session]) => HeldOK(mon[session])
    /\ ~open => \A k \in Slots : asked[k] = None
    /\ NoValueLost

HandsOK == \A s \in Sessions : HandOK(s)

(* The inductive invariant.                                                *)
Inv == Types /\ Life /\ HandsOK /\ ChatsOK /\ ValuesOK

-----------------------------------------------------------------------------
(* The scope does not change.                                              *)
LEMMA ScopeStays ==
    ASSUME scope' = scope
    PROVE  /\ Sessions' = Sessions /\ Callers' = Callers /\ MaxRuns' = MaxRuns /\ Bounds' = Bounds
           /\ Values' = Values /\ Monitors' = Monitors /\ Controllers' = Controllers /\ Chats' = Chats
           /\ Replies' = Replies /\ SlotStates' = SlotStates
BY DEF Sessions, Callers, MaxRuns, Bounds, Values, Monitors, Controllers, Chats, Replies, SlotStates

Names == {"values", "pauses", "deaths", "errors", "stalls", "kills"}

LEMMA ScopeFacts ==
    ASSUME scope \in Scopes
    PROVE  /\ MaxRuns \in Nat /\ Sessions = 1..MaxRuns /\ IsFiniteSet(Callers) /\ None \notin Callers
           /\ DOMAIN Bounds = Names /\ \A b \in Names : Bounds[b] \in Nat
           /\ Bounds.values \in Nat /\ Bounds.kills = scope.MaxKillFailures
BY ServerAssumption DEF MaxRuns, Sessions, Callers, Bounds, Names

-----------------------------------------------------------------------------
(* Queues of callers.                                                      *)
LEMMA AppendQueue ==
    ASSUME NEW S, NEW q \in Seq(S), NEW w \in S
    PROVE  /\ Append(q, w) \in Seq(S) /\ Append(q, w) # <<>>
           /\ Elems(Append(q, w)) = Elems(q) \cup {w}
           /\ Once(q) /\ w \notin Elems(q) => Once(Append(q, w))
           /\ q # <<>> => Head(Append(q, w)) = Head(q)
<1>1. /\ Append(q, w) \in Seq(S) /\ Append(q, w) # <<>> /\ Len(Append(q, w)) = Len(q) + 1
      /\ \A i \in 1..Len(q) : Append(q, w)[i] = q[i]
      /\ Append(q, w)[Len(q) + 1] = w
  BY AppendProperties
<1>2. Len(q) \in Nat
  OBVIOUS
<1>3. Elems(Append(q, w)) = Elems(q) \cup {w}
  <2>1. Elems(Append(q, w)) \subseteq Elems(q) \cup {w}
    BY <1>1, <1>2 DEF Elems
  <2>2. ASSUME NEW x \in Elems(q) PROVE x \in Elems(Append(q, w))
    <3>1. PICK i \in 1..Len(q) : x = q[i]
      BY DEF Elems
    <3>2. i \in 1..Len(Append(q, w)) /\ Append(q, w)[i] = x
      BY <1>1, <1>2, <3>1
    <3> QED BY <3>2 DEF Elems
  <2>3. w \in Elems(Append(q, w))
    <3>1. Len(q) + 1 \in 1..Len(Append(q, w))
      BY <1>1, <1>2
    <3> QED BY <1>1, <3>1 DEF Elems
  <2> QED BY <2>1, <2>2, <2>3
<1>4. ASSUME Once(q), w \notin Elems(q), NEW i \in 1..Len(q) + 1, NEW j \in 1..Len(q) + 1, Append(q, w)[i] = Append(q, w)[j]
      PROVE i = j
  <2>1. (i \in 1..Len(q) \/ i = Len(q) + 1) /\ (j \in 1..Len(q) \/ j = Len(q) + 1)
    BY <1>2
  <2> QED BY <1>1, <1>4, <2>1 DEF Once, Elems
<1>5. q # <<>> => Head(Append(q, w)) = Head(q)
  BY <1>1, <1>2
<1> QED BY <1>1, <1>3, <1>4, <1>5 DEF Once

LEMMA TailQueue ==
    ASSUME NEW S, NEW q \in Seq(S), q # <<>>
    PROVE  /\ Tail(q) \in Seq(S) /\ Head(q) \in S /\ Head(q) \in Elems(q)
           /\ Elems(q) = Elems(Tail(q)) \cup {Head(q)}
           /\ Once(q) => Head(q) \notin Elems(Tail(q)) /\ Once(Tail(q))
<1>1. /\ Head(q) \in S /\ Tail(q) \in Seq(S) /\ Len(Tail(q)) = Len(q) - 1
      /\ \A i \in 1..Len(Tail(q)) : Tail(q)[i] = q[i + 1]
  BY HeadTailProperties
<1>2. Len(q) \in Nat \ {0} /\ Head(q) = q[1]
  BY EmptySeq
<1>3. Head(q) \in Elems(q)
  BY <1>2 DEF Elems
<1>4. Elems(q) = Elems(Tail(q)) \cup {Head(q)}
  <2>1. ASSUME NEW x \in Elems(q), x # Head(q) PROVE x \in Elems(Tail(q))
    <3>1. PICK i \in 1..Len(q) : x = q[i]
      BY DEF Elems
    <3>2. i # 1
      BY <1>2, <2>1, <3>1
    <3>3. i - 1 \in 1..Len(Tail(q)) /\ Tail(q)[i - 1] = x
      BY <1>1, <1>2, <3>1, <3>2
    <3> QED BY <3>3 DEF Elems
  <2>2. Elems(Tail(q)) \subseteq Elems(q)
    <3>1. \A i \in 1..Len(Tail(q)) : i + 1 \in 1..Len(q)
      BY <1>1, <1>2
    <3> QED BY <1>1, <3>1 DEF Elems
  <2> QED BY <1>3, <2>1, <2>2
<1>5. ASSUME Once(q) PROVE Head(q) \notin Elems(Tail(q)) /\ Once(Tail(q))
  <2>1. \A i \in 1..Len(Tail(q)) : i + 1 \in 1..Len(q) /\ 1 \in 1..Len(q) /\ i + 1 # 1
    BY <1>1, <1>2
  <2>2. Head(q) \notin Elems(Tail(q))
    BY <1>1, <1>2, <1>5, <2>1 DEF Elems, Once
  <2>3. ASSUME NEW i \in 1..Len(Tail(q)), NEW j \in 1..Len(Tail(q)), Tail(q)[i] = Tail(q)[j] PROVE i = j
    <3>1. q[i + 1] = q[j + 1]
      BY <1>1, <2>3
    <3>2. i + 1 = j + 1
      BY <1>5, <2>1, <3>1 DEF Once
    <3> QED BY <3>2
  <2> QED BY <2>2, <2>3 DEF Once
<1> QED BY <1>1, <1>3, <1>4, <1>5

LEMMA PushQueue ==
    ASSUME NEW S, NEW q \in Seq(S), NEW w \in S
    PROVE  /\ <<w>> \o q \in Seq(S)
           /\ Elems(<<w>> \o q) = Elems(q) \cup {w}
           /\ Once(q) /\ w \notin Elems(q) => Once(<<w>> \o q)
<1> DEFINE p == <<w>> \o q
<1>1. /\ p \in Seq(S) /\ Len(p) = Len(q) + 1 /\ Len(q) \in Nat
      /\ \A i \in 1..Len(q) + 1 : p[i] = IF i <= 1 THEN w ELSE q[i - 1]
  <2>1. <<w>> \in Seq(S) /\ Len(<<w>>) = 1 /\ <<w>>[1] = w
    OBVIOUS
  <2>2. /\ p \in Seq(S) /\ Len(p) = 1 + Len(q)
        /\ \A i \in 1..1 + Len(q) : p[i] = IF i <= 1 THEN <<w>>[i] ELSE q[i - 1]
    BY <2>1, ConcatProperties
  <2>3. Len(q) \in Nat
    OBVIOUS
  <2> HIDE DEF p
  <2>4. 1 + Len(q) = Len(q) + 1 /\ \A i \in 1..Len(q) + 1 : i <= 1 => i = 1
    BY <2>3
  <2> QED BY <2>1, <2>2, <2>3, <2>4
<1> HIDE DEF p
<1>2. Elems(p) = Elems(q) \cup {w}
  <2>1. Elems(p) \subseteq Elems(q) \cup {w}
    <3>1. \A i \in 1..Len(q) + 1 : i <= 1 \/ i - 1 \in 1..Len(q)
      BY <1>1
    <3> QED BY <1>1, <3>1 DEF Elems
  <2>2. w \in Elems(p)
    BY <1>1 DEF Elems
  <2>3. ASSUME NEW x \in Elems(q) PROVE x \in Elems(p)
    <3>1. PICK i \in 1..Len(q) : x = q[i]
      BY DEF Elems
    <3>2. i + 1 \in 1..Len(p) /\ p[i + 1] = x
      BY <1>1, <3>1
    <3> QED BY <3>2 DEF Elems
  <2> QED BY <2>1, <2>2, <2>3
<1>3. ASSUME Once(q), w \notin Elems(q), NEW i \in 1..Len(q) + 1, NEW j \in 1..Len(q) + 1, p[i] = p[j] PROVE i = j
  <2>1. (i <= 1 \/ i - 1 \in 1..Len(q)) /\ (j <= 1 \/ j - 1 \in 1..Len(q))
    BY <1>1
  <2>2. CASE i <= 1 /\ j <= 1
    BY <2>2
  <2>3. CASE ~(i <= 1) /\ ~(j <= 1)
    <3>1. q[i - 1] = q[j - 1]
      BY <1>1, <1>3, <2>3
    <3>2. i - 1 = j - 1
      BY <1>3, <2>1, <2>3, <3>1 DEF Once
    <3> QED BY <3>2
  <2>4. CASE i <= 1 /\ ~(j <= 1)
    BY <1>1, <1>3, <2>1, <2>4 DEF Elems
  <2>5. CASE ~(i <= 1) /\ j <= 1
    BY <1>1, <1>3, <2>1, <2>5 DEF Elems
  <2> QED BY <2>2, <2>3, <2>4, <2>5
<1> QED BY <1>1, <1>2, <1>3 DEF Once, p

(* Two queues that share nobody hold no more than there are.               *)
LEMMA QueueBound ==
    ASSUME NEW S, IsFiniteSet(S), NEW p \in Seq(S), NEW q \in Seq(S), Once(p), Once(q), Elems(p) \cap Elems(q) = {}
    PROVE  Len(p) + Len(q) <= Cardinality(S)
<1> DEFINE n == Len(p) + Len(q)
           f == [i \in 1..n |-> IF i <= Len(p) THEN p[i] ELSE q[i - Len(p)]]
<1>1. Len(p) \in Nat /\ Len(q) \in Nat
  OBVIOUS
<1>2. \A i \in 1..n : (i <= Len(p) /\ i \in 1..Len(p)) \/ (~(i <= Len(p)) /\ i - Len(p) \in 1..Len(q))
  BY <1>1
<1>3. f \in [1..n -> S]
  BY <1>2
<1>4. ASSUME NEW i \in 1..n, NEW j \in 1..n, f[i] = f[j] PROVE i = j
  <2>1. CASE i <= Len(p) /\ j <= Len(p)
    BY <1>2, <1>4, <2>1 DEF Once
  <2>2. CASE ~(i <= Len(p)) /\ ~(j <= Len(p))
    <3>1. i - Len(p) = j - Len(p)
      BY <1>2, <1>4, <2>2 DEF Once
    <3> QED BY <1>1, <3>1
  <2>3. CASE i <= Len(p) /\ ~(j <= Len(p))
    BY <1>2, <1>4, <2>3 DEF Elems
  <2>4. CASE ~(i <= Len(p)) /\ j <= Len(p)
    BY <1>2, <1>4, <2>4 DEF Elems
  <2> QED BY <2>1, <2>2, <2>3, <2>4
<1>5. n \in Nat
  BY <1>1
<1> HIDE DEF f, n
<1>6. f \in Injection(1..n, S)
  BY <1>3, <1>4 DEF Injection, IsInjective
<1>7. Cardinality(1..n) <= Cardinality(S)
  BY <1>6, FS_Injection
<1>8. Cardinality(1..n) = n
  BY <1>5, FS_Interval
<1> QED BY <1>7, <1>8 DEF n

-----------------------------------------------------------------------------
(* What the controller's methods do.                                       *)
SameChats(c, d) == d.pending = c.pending /\ d.reserved = c.reserved /\ d.inflight = c.inflight /\ d.answering = c.answering

LEMMA FreshController ==
    /\ Fresh \in Controllers /\ Fresh.stop = None /\ Fresh.reserved = None /\ Fresh.answering = None
    /\ Fresh.pending = <<>> /\ Fresh.inflight = <<>> /\ \A k \in Slots : Fresh.slot[k].value = None /\ Fresh.slot[k].reserved = None
BY DEF Fresh, Controllers, SlotStates, Empty

LEMMA Aborted ==
    ASSUME NEW c \in Controllers
    PROVE  LET d == abort_pending_chats(c) IN
           /\ d \in Controllers /\ d.stop = c.stop /\ d.reserved = None /\ d.answering = None
           /\ d.pending = <<>> /\ d.inflight = <<>> /\ \A k \in Slots : d.slot[k].value = None /\ d.slot[k].reserved = None
<1> DEFINE d == abort_pending_chats(c)
<1>1. /\ d.paused = Fresh.paused /\ d.slot = Fresh.slot /\ d.pending = Fresh.pending /\ d.reserved = Fresh.reserved
      /\ d.inflight = Fresh.inflight /\ d.answering = Fresh.answering /\ d.stop = c.stop /\ d.abort = TRUE
  BY DEF abort_pending_chats, Fresh
<1>2. d \in Controllers
  <2>1. Fresh \in Controllers /\ c.stop \in Sessions \cup {None}
    BY FreshController DEF Controllers
  <2> QED BY <2>1 DEF abort_pending_chats, Controllers
<1> HIDE DEF d
<1>3. /\ d \in Controllers /\ d.stop = c.stop /\ d.reserved = None /\ d.answering = None
      /\ d.pending = <<>> /\ d.inflight = <<>> /\ \A k \in Slots : d.slot[k].value = None /\ d.slot[k].reserved = None
  BY <1>1, <1>2, FreshController
<1> QED BY <1>3 DEF d

LEMMA Controlled ==
    ASSUME NEW c \in Controllers
    PROVE  /\ c.slot \in [Slots -> SlotStates] /\ \A k \in Slots : c.slot[k] \in SlotStates
           /\ c.pending \in Seq(Callers) /\ c.inflight \in Seq(Callers)
           /\ c.reserved \in Callers \cup {None} /\ c.answering \in Callers \cup {None} /\ c.stop \in Sessions \cup {None}
           /\ \A k \in Slots : c.slot[k].value \in Values \cup {None}
           /\ \A k \in Slots : c.slot[k].reserved \in [run : Sessions, moved : BOOLEAN] \cup {None}
BY DEF Controllers, SlotStates

(* A slot is replaced.                                                     *)
LEMMA SlotReplaced ==
    ASSUME NEW c \in Controllers, NEW k \in Slots, NEW x \in SlotStates
    PROVE  LET d == [c EXCEPT !.slot[k] = x] IN
           /\ d \in Controllers /\ d.stop = c.stop /\ SameChats(c, d)
           /\ d.slot[k] = x /\ \A l \in Slots \ {k} : d.slot[l] = c.slot[l]
<1>1. [c.slot EXCEPT ![k] = x] \in [Slots -> SlotStates]
  BY Controlled
<1>2. [c EXCEPT !.slot[k] = x] = [c EXCEPT !.slot = [c.slot EXCEPT ![k] = x]]
  BY DEF Controllers
<1> DEFINE t == [c.slot EXCEPT ![k] = x]
<1>3. t[k] = x /\ \A l \in Slots \ {k} : t[l] = c.slot[l]
  BY Controlled
<1> HIDE DEF t
<1>4. LET d == [c EXCEPT !.slot = t] IN d \in Controllers /\ d.stop = c.stop /\ SameChats(c, d) /\ d.slot = t
  BY <1>1 DEF Controllers, SameChats, t
<1> QED BY <1>2, <1>3, <1>4 DEF t

LEMMA PutValue ==
    ASSUME scope \in Scopes, NEW c \in Controllers, NEW k \in Slots, NEW v \in Values
    PROVE  LET d == put_value(c, k, v) IN
           /\ d \in Controllers /\ d.stop = c.stop /\ SameChats(c, d)
           /\ d.slot[k].value = v /\ \A l \in Slots \ {k} : d.slot[l] = c.slot[l]
           /\ d.slot[k].reserved # None => d.slot[k].reserved.moved = TRUE
<1> DEFINE x == [value |-> v, reserved |-> IF c.slot[k].reserved = None THEN None
                                           ELSE [run |-> c.slot[k].reserved.run, moved |-> TRUE]]
<1>1. put_value(c, k, v) = [c EXCEPT !.slot[k] = x]
  BY DEF put_value, Controllers
<1>2. c.slot[k].reserved # None => c.slot[k].reserved.run \in Sessions
  BY Controlled
<1>3. x \in SlotStates /\ x.value = v /\ (x.reserved # None => x.reserved.moved = TRUE)
  BY <1>2 DEF SlotStates
<1> HIDE DEF x
<1> QED BY <1>1, <1>3, SlotReplaced

LEMMA ReserveValue ==
    ASSUME scope \in Scopes, NEW c \in Controllers, NEW k \in Slots, NEW s \in Sessions
    PROVE  LET d == reserve_value(c, k, s) IN
           /\ d \in Controllers /\ d.stop = c.stop /\ SameChats(c, d)
           /\ d.slot[k].value = c.slot[k].value /\ \A l \in Slots \ {k} : d.slot[l] = c.slot[l]
           /\ IsReserved(d, k, s) /\ ~d.slot[k].reserved.moved
<1> DEFINE r == [run |-> s, moved |-> FALSE]
           x == [value |-> c.slot[k].value, reserved |-> r]
<1>0. r \in [run : Sessions, moved : BOOLEAN] /\ r.run = s /\ r.moved = FALSE
  OBVIOUS
<1>1. reserve_value(c, k, s) = [c EXCEPT !.slot[k] = x]
  <2>1. [c.slot[k] EXCEPT !.reserved = r] = x
    <3> HIDE DEF r
    <3> QED BY <1>0, Controlled DEF SlotStates
  <2>2. reserve_value(c, k, s) = [c EXCEPT !.slot[k] = [c.slot[k] EXCEPT !.reserved = r]]
    BY DEF reserve_value, Controllers
  <2> QED BY <2>1, <2>2
<1>2. x \in SlotStates /\ x.value = c.slot[k].value /\ x.reserved = r
  BY Controlled DEF SlotStates
<1>3. r # None
  <2>1. s \in Nat
    BY ScopeFacts
  <2>2. r \in [run : Nat, moved : BOOLEAN]
    BY <2>1
  <2> QED BY <2>2, ServerAssumption
<1> HIDE DEF x, r
<1> QED BY <1>0, <1>1, <1>2, <1>3, SlotReplaced DEF IsReserved

LEMMA RollbackValue ==
    ASSUME NEW c \in Controllers, NEW k \in Slots, NEW s
    PROVE  LET d == rollback_value(c, k, s) IN
           /\ d \in Controllers /\ d.stop = c.stop /\ SameChats(c, d)
           /\ d.slot[k].value = c.slot[k].value /\ \A l \in Slots \ {k} : d.slot[l] = c.slot[l]
           /\ d.slot[k].reserved = None
<1> DEFINE x == [value |-> c.slot[k].value, reserved |-> None]
<1>1. rollback_value(c, k, s) = [c EXCEPT !.slot[k] = x]
  <2>1. [c.slot[k] EXCEPT !.reserved = None] = x
    BY Controlled DEF SlotStates
  <2>2. rollback_value(c, k, s) = [c EXCEPT !.slot[k] = [c.slot[k] EXCEPT !.reserved = None]]
    BY DEF rollback_value, Controllers
  <2> QED BY <2>1, <2>2
<1>2. x \in SlotStates /\ x.value = c.slot[k].value /\ x.reserved = None
  BY Controlled DEF SlotStates
<1> HIDE DEF x
<1> QED BY <1>1, <1>2, SlotReplaced

LEMMA CommitValue ==
    ASSUME NEW c \in Controllers, NEW k \in Slots, NEW s
    PROVE  LET d == commit_value(c, k, s) IN
           /\ d \in Controllers /\ d.stop = c.stop /\ SameChats(c, d)
           /\ d.slot[k].value = (IF c.slot[k].reserved.moved THEN c.slot[k].value ELSE None)
           /\ \A l \in Slots \ {k} : d.slot[l] = c.slot[l]
           /\ d.slot[k].reserved = None
<1>1. CASE c.slot[k].reserved.moved
  <2>1. commit_value(c, k, s) = rollback_value(c, k, s)
    BY <1>1 DEF commit_value, rollback_value
  <2> QED BY <1>1, <2>1, RollbackValue
<1>2. CASE ~c.slot[k].reserved.moved
  <2>1. commit_value(c, k, s) = [c EXCEPT !.slot[k] = Empty]
    BY <1>2 DEF commit_value
  <2>2. Empty \in SlotStates /\ Empty.value = None /\ Empty.reserved = None
    BY DEF Empty, SlotStates
  <2> HIDE DEF Empty
  <2> QED BY <1>2, <2>1, <2>2, SlotReplaced
<1> QED BY <1>1, <1>2

(* The methods about chats leave the slots alone.                          *)
SameSlots(c, d) == d.slot = c.slot /\ d.stop = c.stop

LEMMA ChatMethods ==
    ASSUME NEW c \in Controllers
    PROVE  /\ \A w \in Callers : LET d == admit_chat(c, w) IN
                /\ d \in Controllers /\ SameSlots(c, d) /\ d.inflight = c.inflight /\ d.reserved = c.reserved
                /\ d.answering = c.answering /\ d.pending = Append(c.pending, w)
           /\ c.pending # <<>> => LET d == reserve_chat(c) IN
                /\ d \in Controllers /\ SameSlots(c, d) /\ d.inflight = c.inflight /\ d.reserved = Head(c.pending)
                /\ d.answering = c.answering /\ d.pending = Tail(c.pending)
           /\ c.reserved # None => LET d == commit_chat(c) IN
                /\ d \in Controllers /\ SameSlots(c, d) /\ d.inflight = Append(c.inflight, c.reserved) /\ d.reserved = None
                /\ d.answering = c.answering /\ d.pending = c.pending
           /\ c.reserved # None => LET d == rollback_chat(c) IN
                /\ d \in Controllers /\ SameSlots(c, d) /\ d.inflight = c.inflight /\ d.reserved = None
                /\ d.answering = c.answering /\ d.pending = <<c.reserved>> \o c.pending
           /\ c.inflight # <<>> => LET d == reserve_chat_response(c) IN
                /\ d \in Controllers /\ SameSlots(c, d) /\ d.inflight = c.inflight /\ d.reserved = c.reserved
                /\ d.answering = Head(c.inflight) /\ d.pending = c.pending
           /\ c.inflight # <<>> => LET d == commit_chat_response(c) IN
                /\ d \in Controllers /\ SameSlots(c, d) /\ d.inflight = Tail(c.inflight) /\ d.reserved = c.reserved
                /\ d.answering = None /\ d.pending = c.pending
           /\ LET d == rollback_chat_response(c) IN
                /\ d \in Controllers /\ SameSlots(c, d) /\ d.inflight = c.inflight /\ d.reserved = c.reserved
                /\ d.answering = None /\ d.pending = c.pending
<1>0. /\ c.pending \in Seq(Callers) /\ c.inflight \in Seq(Callers) /\ c.reserved \in Callers \cup {None}
  BY Controlled
<1> USE DEF SameSlots, Controllers
<1>1. ASSUME NEW w \in Callers
      PROVE  LET d == admit_chat(c, w) IN
                /\ d \in Controllers /\ SameSlots(c, d) /\ d.inflight = c.inflight /\ d.reserved = c.reserved
                /\ d.answering = c.answering /\ d.pending = Append(c.pending, w)
  <2>1. Append(c.pending, w) \in Seq(Callers)
    BY <1>0
  <2> QED BY <2>1 DEF admit_chat
<1>2. ASSUME c.pending # <<>>
      PROVE  LET d == reserve_chat(c) IN
                /\ d \in Controllers /\ SameSlots(c, d) /\ d.inflight = c.inflight /\ d.reserved = Head(c.pending)
                /\ d.answering = c.answering /\ d.pending = Tail(c.pending)
  <2>1. Tail(c.pending) \in Seq(Callers) /\ Head(c.pending) \in Callers
    BY <1>0, <1>2, TailQueue
  <2> QED BY <2>1 DEF reserve_chat
<1>3. ASSUME c.reserved # None
      PROVE  LET d == commit_chat(c) IN
                /\ d \in Controllers /\ SameSlots(c, d) /\ d.inflight = Append(c.inflight, c.reserved) /\ d.reserved = None
                /\ d.answering = c.answering /\ d.pending = c.pending
  <2>1. Append(c.inflight, c.reserved) \in Seq(Callers)
    BY <1>0, <1>3
  <2> QED BY <2>1 DEF commit_chat
<1>4. ASSUME c.reserved # None
      PROVE  LET d == rollback_chat(c) IN
                /\ d \in Controllers /\ SameSlots(c, d) /\ d.inflight = c.inflight /\ d.reserved = None
                /\ d.answering = c.answering /\ d.pending = <<c.reserved>> \o c.pending
  <2>1. <<c.reserved>> \o c.pending \in Seq(Callers)
    BY <1>0, <1>4, PushQueue
  <2> QED BY <2>1 DEF rollback_chat
<1>5. ASSUME c.inflight # <<>>
      PROVE  LET d == reserve_chat_response(c) IN
                /\ d \in Controllers /\ SameSlots(c, d) /\ d.inflight = c.inflight /\ d.reserved = c.reserved
                /\ d.answering = Head(c.inflight) /\ d.pending = c.pending
  <2>1. Head(c.inflight) \in Callers
    BY <1>0, <1>5, TailQueue
  <2> QED BY <2>1 DEF reserve_chat_response
<1>6. ASSUME c.inflight # <<>>
      PROVE  LET d == commit_chat_response(c) IN
                /\ d \in Controllers /\ SameSlots(c, d) /\ d.inflight = Tail(c.inflight) /\ d.reserved = c.reserved
                /\ d.answering = None /\ d.pending = c.pending
  <2>1. Tail(c.inflight) \in Seq(Callers)
    BY <1>0, <1>6, TailQueue
  <2> QED BY <2>1 DEF commit_chat_response
<1>7. LET d == rollback_chat_response(c) IN
                /\ d \in Controllers /\ SameSlots(c, d) /\ d.inflight = c.inflight /\ d.reserved = c.reserved
                /\ d.answering = None /\ d.pending = c.pending
  BY DEF rollback_chat_response
<1> HIDE DEF SameSlots, Controllers
<1> QED BY <1>1, <1>2, <1>3, <1>4, <1>5, <1>6, <1>7

-----------------------------------------------------------------------------
(* Helpers of the actions.                                                 *)
Kept == UNCHANGED <<open, ctl, chat, asked>>

LEMMA Closes ==
    ASSUME Types, CloseNow, scope' = scope
    PROVE  /\ open' = FALSE
           /\ ctl' \in Controllers /\ ctl'.stop = ctl.stop /\ ctl'.reserved = None /\ ctl'.answering = None
           /\ ctl'.pending = <<>> /\ ctl'.inflight = <<>>
           /\ \A k \in Slots : ctl'.slot[k].value = None /\ ctl'.slot[k].reserved = None
           /\ chat' \in [Callers -> Chats] /\ asked' = [k \in Slots |-> None]
           /\ \A w \in Callers : IF w \in Waiters(ctl) THEN chat'[w].at = "refused" ELSE chat'[w] = chat[w]
<1>1. ctl \in Controllers /\ chat \in [Callers -> Chats] /\ scope \in Scopes
  BY DEF Types, SteerTypes
<1>2. ctl' = abort_pending_chats(ctl) /\ open' = FALSE /\ asked' = [k \in Slots |-> None] /\ Wake(Waiters(ctl)) /\ Callers' = Callers
  BY ScopeStays DEF CloseNow, Drained
<1>3. /\ ctl' \in Controllers /\ ctl'.stop = ctl.stop /\ ctl'.reserved = None /\ ctl'.answering = None
      /\ ctl'.pending = <<>> /\ ctl'.inflight = <<>>
      /\ \A k \in Slots : ctl'.slot[k].value = None /\ ctl'.slot[k].reserved = None
  BY <1>1, <1>2, Aborted
<1>4. [at |-> "refused", run |-> 0, by |-> 0] \in Chats
  BY <1>1, ScopeFacts DEF Chats
<1>5. chat' = [w \in Callers |-> IF w \in Waiters(ctl) THEN [at |-> "refused", run |-> 0, by |-> 0] ELSE chat[w]]
  BY <1>2 DEF Wake
<1>6. chat' \in [Callers -> Chats] /\ \A w \in Callers : IF w \in Waiters(ctl) THEN chat'[w].at = "refused" ELSE chat'[w] = chat[w]
  BY <1>1, <1>4, <1>5
<1> QED BY <1>2, <1>3, <1>6

LEMMA MayClose ==
    ASSUME Types, CloseNow \/ Kept, scope' = scope
    PROVE  open' \in BOOLEAN /\ ctl' \in Controllers /\ chat' \in [Callers -> Chats] /\ asked' \in [Slots -> Values \cup {None}]
<1>1. CASE CloseNow
  BY <1>1, Closes
<1>2. CASE Kept
  BY <1>2 DEF Kept, Types, ManagerTypes, SteerTypes
<1> QED BY <1>1, <1>2

LEMMA ClosesFor ==
    ASSUME NEW s, CloseFor(s)
    PROVE  CloseNow \/ Kept
BY DEF CloseFor, Kept

Releases == CloseNow /\ active' = FALSE /\ process' = None /\ stopped' = FALSE /\ cleanup' \in {cleanup, None}

LEMMA Finalizes ==
    ASSUME ManagerOK, NEW s, NEW me, Finalize(s, me)
    PROVE  /\ child' = [child EXCEPT ![s] = "closed"]
           /\ \/ s = session /\ Releases
              \/ s # session /\ Kept /\ UNCHANGED <<active, process, cleanup, stopped>>
<1>1. s = session => process \in {None, s}
  BY DEF ManagerOK
<1>2. CASE s = session
  BY <1>1, <1>2 DEF Finalize, Releases
<1>3. CASE s # session
  BY <1>3 DEF Finalize, Kept
<1> QED BY <1>2, <1>3 DEF Finalize

LEMMA Retains ==
    ASSUME NEW s, Retain(s)
    PROVE  /\ CloseNow \/ Kept
           /\ reapers' = reapers \/ reapers' = [reapers EXCEPT ![s] = @ \cup {"process"}]
           /\ cleanup' \in {cleanup, [kind |-> "process", run |-> s]}
           /\ UNCHANGED <<active, process, stopped>>
<1>1. CloseNow \/ Kept
  BY DEF Retain, Kept
<1>2. UNCHANGED <<active, process, stopped>>
  BY DEF Retain
<1>3. /\ reapers' = reapers \/ reapers' = [reapers EXCEPT ![s] = @ \cup {"process"}]
      /\ cleanup' \in {cleanup, [kind |-> "process", run |-> s]}
  BY DEF Retain
<1> QED BY <1>1, <1>2, <1>3

LEMMA RetainsRelay ==
    ASSUME NEW s, RetainRelay(s)
    PROVE  /\ Kept /\ UNCHANGED <<active, stopped>>
           /\ reapers' = [reapers EXCEPT ![s] = @ \cup {"relay"}]
           /\ process' \in {process, None} /\ cleanup' \in {cleanup, [kind |-> "relay", run |-> s]}
BY DEF RetainRelay, Kept

(* What killing a child can do.                                            *)
LEMMA Kills ==
    ASSUME Types, NEW s \in Sessions, NEW o \in Outcomes(s), Terminated(s, o), scope' = scope
    PROVE  /\ o.ok \in BOOLEAN /\ used' \in [DOMAIN Bounds -> Nat] /\ used'.values = used.values
           /\ o.ok => o.child \in {"reaped", "closed"}
           /\ ~o.ok => o.child = child[s] /\ (child[s] = "reaped" \/ scope.MaxKillFailures # 0)
           /\ o.child = "closed" => child[s] = "closed"
<1>1. child[s] \in {"none", "running", "exited", "reaped", "closed"} /\ scope \in Scopes
  BY DEF Types, RunTypes
<1>2. DOMAIN Bounds = Names /\ used \in [Names -> Nat] /\ Bounds.kills = scope.MaxKillFailures
  BY <1>1, ScopeFacts DEF Types, RunTypes
<1>3. used.kills \in Nat
  BY <1>2 DEF Names
<1>4. \/ child[s] = "closed" /\ o = [ok |-> TRUE, child |-> "closed"]
      \/ child[s] = "reaped" /\ o = [ok |-> FALSE, child |-> "reaped"]
      \/ child[s] \notin {"closed", "reaped"} /\ o = [ok |-> TRUE, child |-> "reaped"]
      \/ child[s] \notin {"closed", "reaped"} /\ used.kills < Bounds.kills /\ o = [ok |-> FALSE, child |-> child[s]]
  BY <1>1 DEF Outcomes
<1>5. used' = used \/ used' = [used EXCEPT !.kills = @ + 1]
  BY DEF Terminated
<1>6. used' \in [Names -> Nat] /\ used'.values = used.values
  BY <1>2, <1>3, <1>5 DEF Names
<1>7. used.kills < Bounds.kills => scope.MaxKillFailures # 0
  BY <1>2, <1>3
<1>8. /\ o.ok \in BOOLEAN
      /\ o.ok => o.child \in {"reaped", "closed"}
      /\ ~o.ok => o.child = child[s] /\ (child[s] = "reaped" \/ scope.MaxKillFailures # 0)
      /\ o.child = "closed" => child[s] = "closed"
  <2>1. CASE child[s] = "closed" /\ o = [ok |-> TRUE, child |-> "closed"]
    BY <2>1
  <2>2. CASE child[s] = "reaped" /\ o = [ok |-> FALSE, child |-> "reaped"]
    BY <2>2
  <2>3. CASE child[s] \notin {"closed", "reaped"} /\ o = [ok |-> TRUE, child |-> "reaped"]
    BY <2>3
  <2>4. CASE child[s] \notin {"closed", "reaped"} /\ used.kills < Bounds.kills /\ o = [ok |-> FALSE, child |-> child[s]]
    BY <1>7, <2>4
  <2> QED BY <1>4, <2>1, <2>2, <2>3, <2>4
<1> QED BY <1>2, <1>6, <1>8

LEMMA Spends ==
    ASSUME Types, NEW b \in Names, Spend(b), scope' = scope
    PROVE  used' \in [DOMAIN Bounds -> Nat] /\ (b # "values" => used'.values = used.values)
<1>1. DOMAIN Bounds = Names /\ used \in [Names -> Nat]
  BY ScopeFacts DEF Types, RunTypes
<1>2. used' = [used EXCEPT ![b] = @ + 1]
  BY DEF Spend
<1>3. used[b] + 1 \in Nat
  BY <1>1
<1> QED BY <1>1, <1>2, <1>3 DEF Names

(* A monitor goes elsewhere.                                               *)
LEMMA Goes ==
    ASSUME Types, NEW s \in Sessions,
           NEW at \in {"off", "watch", "sending", "sent", "leaving", "cleaning", "done"}, Monitor(s, at)
    PROVE  /\ mon' \in [Sessions -> Monitors] /\ \A t \in Sessions \ {s} : mon'[t] = mon[t]
           /\ mon'[s] = [mon[s] EXCEPT !.at = at]
           /\ mon'[s].at = at /\ mon'[s].exited = mon[s].exited /\ mon'[s].reaped = mon[s].reaped
           /\ mon'[s].quiet = mon[s].quiet /\ mon'[s].held = mon[s].held
BY DEF Types, Monitor, Monitors

-----------------------------------------------------------------------------
(* Steps that leave the manager, its children and their threads as they    *)
(* are, but for a monitor that serves its child.                           *)
Serving == {"watch", "sending", "sent"}

LEMMA LifeFrame ==
    ASSUME Types, Life, UNCHANGED <<active, session, process, starter, closer, down, child, row, relay, reapers, scope>>,
           \A t \in Sessions :
              /\ mon'[t].reaped = mon[t].reaped /\ mon'[t].quiet = mon[t].quiet
              /\ mon'[t].at = mon[t].at \/ (mon[t].at \in Serving /\ mon'[t].at \in Serving \cup {"leaving"})
    PROVE  Life'
<1>0. Sessions' = Sessions
  BY ScopeStays
<1>1. ManagerOK'
  BY <1>0 DEF Life, ManagerOK
<1>2. StarterOK'
  BY <1>0 DEF Life, StarterOK, Serving, Types
<1>3. CloserOK'
  BY <1>0 DEF Life, CloserOK
<1>4. ASSUME NEW t \in Sessions PROVE LifeAt(t)'
  <2>0. LifeAt(t)
    BY DEF Life
  <2>1. FutureOK(t)'
    BY <2>0 DEF LifeAt, FutureOK, Serving
  <2>2. ChildOK(t)'
    BY <2>0 DEF LifeAt, ChildOK, Serving
  <2>3. MonitorOK(t)'
    BY <2>0 DEF LifeAt, MonitorOK, Live, Serving
  <2>4. RelayOK(t)'
    BY <2>0 DEF LifeAt, RelayOK, Serving
  <2> QED BY <2>1, <2>2, <2>3, <2>4 DEF LifeAt
<1> QED BY <1>0, <1>1, <1>2, <1>3, <1>4 DEF Life

(* Nothing that clients ask for changes, or it is dropped altogether.      *)
Alike ==
    /\ SameChats(ctl, ctl') /\ ctl'.slot = ctl.slot /\ ctl'.stop \in {ctl.stop, session}
    /\ UNCHANGED <<open, chat, asked>>

HandsStay == \A t \in Sessions : mon'[t] = mon[t] \/ (~Holding(mon[t]) /\ ~Holding(mon'[t]))

LEMMA HandsFrame ==
    ASSUME HandsOK, HandsStay, scope' = scope
    PROVE  HandsOK'
<1>1. ASSUME NEW t \in Sessions PROVE HandOK(t)'
  BY <1>1, ScopeStays DEF HandsOK, HandOK, HandsStay, Holding
<1> QED BY <1>1, ScopeStays DEF HandsOK

LEMMA WaitersNone ==
    ASSUME NEW c, c.pending = <<>>, c.inflight = <<>>, c.reserved = None
    PROVE  Waiters(c) = {}
BY DEF Waiters

LEMMA WaitersAre ==
    ASSUME NEW c, c.pending \in Seq(Callers), c.inflight \in Seq(Callers)
    PROVE  Waiters(c) = Elems(c.pending) \cup Elems(c.inflight) \cup (IF c.reserved = None THEN {} ELSE {c.reserved})
BY DEF Waiters, Elems

LEMMA EmptyQueue == Elems(<<>>) = {} /\ Once(<<>>)
BY DEF Elems, Once

(* Whoever waits is woken.                                                 *)
Dropped ==
    /\ ctl'.reserved = None /\ ctl'.answering = None /\ ctl'.pending = <<>> /\ ctl'.inflight = <<>>
    /\ \A w \in Callers : IF w \in Waiters(ctl) THEN chat'[w].at = "refused" ELSE chat'[w] = chat[w]

LEMMA ChatsDropped ==
    ASSUME Types, ChatsOK, Dropped, scope' = scope
    PROVE  ChatsOK'
<1>0. Callers' = Callers
  BY ScopeStays
<1>2. QueuesOK' /\ ReservedOK'
  BY EmptyQueue DEF QueuesOK, ReservedOK, Dropped
<1>3. Waiters(ctl') = {}
  BY WaitersNone DEF Dropped
<1>4. \A w \in Callers : chat'[w].at # "waiting"
  BY DEF ChatsOK, WaitingIsHeld, Dropped
<1>5. WaitingIsHeld'
  BY <1>0, <1>3, <1>4 DEF WaitingIsHeld
<1>6. AnsweredByItsRun'
  BY <1>0 DEF ChatsOK, AnsweredByItsRun, Dropped
<1> QED BY <1>0, <1>2, <1>4, <1>5, <1>6 DEF ChatsOK

LEMMA ChatsClosed ==
    ASSUME Types, ChatsOK, CloseNow, scope' = scope
    PROVE  ChatsOK'
<1>1. Dropped
  BY Closes DEF Dropped
<1> QED BY <1>1, ChatsDropped

LEMMA ChatsFrame ==
    ASSUME Types, ChatsOK, Alike, HandsStay, UNCHANGED <<session, scope>>, active' = active
    PROVE  ChatsOK'
<1>0. Callers' = Callers /\ Sessions' = Sessions
  BY ScopeStays
<1>1. QueuesOK'
  BY DEF ChatsOK, QueuesOK, Alike, SameChats
<1>2. ReservedOK'
  BY <1>0 DEF ChatsOK, ReservedOK, Alike, SameChats, HandsStay
<1>3. Waiters(ctl') = Waiters(ctl)
  BY DEF Waiters, Alike, SameChats
<1>4. WaitingIsHeld'
  BY <1>0, <1>3 DEF ChatsOK, WaitingIsHeld, Alike
<1>5. AnsweredByItsRun'
  BY <1>0 DEF ChatsOK, AnsweredByItsRun, Alike
<1> QED BY <1>0, <1>1, <1>2, <1>4, <1>5 DEF ChatsOK, Alike

LEMMA ValuesClosed ==
    ASSUME Types, ValuesOK, CloseNow, HandsStay, UNCHANGED <<session, scope, given>>, used'.values = used.values
    PROVE  ValuesOK'
<1>0. Sessions' = Sessions /\ Given' = Given /\ \A v : Mine(v)' = Mine(v)
  BY ScopeStays DEF Given, Mine
<1>1. /\ ctl'.stop = ctl.stop /\ open' = FALSE /\ asked' = [k \in Slots |-> None]
      /\ \A k \in Slots : ctl'.slot[k].value = None /\ ctl'.slot[k].reserved = None
  BY Closes
<1>2. SlotsOK'
  BY <1>1 DEF SlotsOK
<1>3. GivenOK'
  BY <1>0, <1>1 DEF ValuesOK, GivenOK
<1>4. GoneOK'
  BY <1>1 DEF GoneOK
<1>5. ASSUME session \in Sessions, Holding(mon'[session]) PROVE HeldOK(mon[session])'
  <2>1. mon'[session] = mon[session] /\ HeldOK(mon[session])
    BY <1>5 DEF HandsStay, ValuesOK
  <2>2. \A k \in Slots : ~Unmoved(k)'
    BY <1>1 DEF Unmoved, IsReserved
  <2> QED BY <1>0, <1>1, <2>1, <2>2 DEF HeldOK
<1>6. NoValueLost' /\ \A k \in Slots : asked'[k] = None
  BY <1>1 DEF NoValueLost
<1> QED BY <1>0, <1>2, <1>3, <1>4, <1>5, <1>6 DEF ValuesOK

LEMMA ValuesStay ==
    ASSUME Types, ValuesOK, ctl'.slot = ctl.slot, ctl'.stop \in {ctl.stop, session}, UNCHANGED <<open, asked>>,
           HandsStay, UNCHANGED <<session, scope, given>>, used'.values = used.values
    PROVE  ValuesOK'
<1>0. Sessions' = Sessions /\ Given' = Given /\ (\A v : Mine(v)' = Mine(v)) /\ \A k : Unmoved(k)' = Unmoved(k)
  BY ScopeStays DEF Given, Mine, Unmoved, IsReserved
<1>2. SlotsOK'
  BY <1>0 DEF ValuesOK, SlotsOK
<1>3. GivenOK'
  BY <1>0 DEF ValuesOK, GivenOK
<1>4. GoneOK'
  <2>1. ASSUME NEW k \in Slots, ctl'.slot[k].value # None, ctl'.slot[k].value \in Given'
        PROVE  /\ mon[session].at = "sent" /\ mon[session].held.call = k
               /\ mon[session].held.value = ctl.slot[k].value /\ session \in Sessions
    BY <1>0, <2>1 DEF ValuesOK, GoneOK
  <2>2. ASSUME NEW k \in Slots, ctl'.slot[k].value # None, ctl'.slot[k].value \in Given'
        PROVE  mon'[session] = mon[session]
    BY <2>1, <2>2 DEF HandsStay, Holding
  <2> QED BY <1>0, <2>1, <2>2 DEF GoneOK
<1>5. ASSUME session \in Sessions, Holding(mon'[session]) PROVE HeldOK(mon[session])'
  <2>1. mon'[session] = mon[session] /\ HeldOK(mon[session])
    BY <1>5 DEF HandsStay, ValuesOK
  <2> QED BY <1>0, <2>1 DEF HeldOK
<1>6. NoValueLost' /\ (~open' => \A k \in Slots : asked'[k] = None)
  BY DEF ValuesOK, NoValueLost
<1> QED BY <1>0, <1>2, <1>3, <1>4, <1>5, <1>6 DEF ValuesOK

LEMMA ValuesFrame ==
    ASSUME Types, ValuesOK, Alike, HandsStay, UNCHANGED <<session, scope, given>>, used'.values = used.values
    PROVE  ValuesOK'
BY ValuesStay DEF Alike

LEMMA ValuesUntouched ==
    ASSUME Types, ValuesOK, ctl'.slot = ctl.slot, ctl'.stop = ctl.stop, UNCHANGED <<open, asked, mon, session, scope, given, used>>
    PROVE  ValuesOK'
<1>1. HandsStay
  BY DEF HandsStay
<1> QED BY <1>1, ValuesStay

LEMMA SteerFrame ==
    ASSUME Inv, CloseNow \/ (Alike /\ active' = active), HandsStay, UNCHANGED <<session, scope, given>>, used'.values = used.values
    PROVE  HandsOK' /\ ChatsOK' /\ ValuesOK'
BY HandsFrame, ChatsClosed, ChatsFrame, ValuesClosed, ValuesFrame DEF Inv

LEMMA KeptAlike == Kept => Alike
BY DEF Kept, Alike, SameChats

-----------------------------------------------------------------------------
(* Steps of the manager's life.                                            *)

(* The monitor of s stays where it is or is done.                          *)
Retires(s) ==
    \A t \in Sessions :
        /\ mon'[t].reaped = mon[t].reaped /\ mon'[t].quiet = mon[t].quiet
        /\ mon'[t].at = mon[t].at \/ (t = s /\ mon[t].at = "cleaning" /\ mon'[t].at = "done")

(* The shutdown stays where it is or is over.                              *)
ClosesDown == closer' = closer \/ (closer.at = "joining" /\ closer' = [closer EXCEPT !.at = "down"])

(* A child is done with; if it is the current one the manager is free.     *)
LEMMA LifeReleased ==
    ASSUME Types, Life, NEW s \in Sessions, s <= session, s = session => starter # "reserved",
           starter' \in {starter, "off"}, ClosesDown, Retires(s), ~down => ~Live(mon'[s]),
           UNCHANGED <<session, down, relay, scope>>,
           child' = [child EXCEPT ![s] = "closed"],
           \/ s = session /\ active' = FALSE /\ process' = None
           \/ s # session /\ UNCHANGED <<active, process>>,
           \A t \in Sessions : row'[t] = "running" => t # s /\ row[t] = "running",
           reapers' = reapers \/ \E x : reapers' = [reapers EXCEPT ![s] = @ \ {x}],
           scope.MaxKillFailures = 0 /\ ~down => relay[s] \notin {"on", "blocked"}
    PROVE  Life'
<1>0. Sessions' = Sessions /\ MaxRuns \in Nat /\ Sessions = 1..MaxRuns /\ session \in 0..MaxRuns
  BY ScopeStays, ScopeFacts DEF Types, ManagerTypes
<1>a. /\ \A t \in Sessions : child'[t] = IF t = s THEN "closed" ELSE child[t]
      /\ \A t \in Sessions : reapers'[t] \subseteq reapers[t] /\ (t # s => reapers'[t] = reapers[t])
  BY DEF Types, RunTypes
<1>1. ManagerOK'
  BY <1>0, <1>a DEF Life, ManagerOK, Retires, ClosesDown
<1>2. StarterOK'
  BY <1>0, <1>a DEF Life, StarterOK, Types, RunTypes, Retires, ClosesDown
<1>3. CloserOK'
  BY <1>0, <1>a DEF Life, CloserOK, Types, ManagerTypes, Retires, ClosesDown
<1>4. ASSUME NEW t \in Sessions PROVE LifeAt(t)'
  <2>0. LifeAt(t)
    BY DEF Life
  <2>1. FutureOK(t)'
    BY <1>0, <1>a, <2>0 DEF LifeAt, FutureOK, Types, RunTypes, Retires, ClosesDown
  <2>2. ChildOK(t)'
    BY <1>0, <1>a, <2>0 DEF LifeAt, ChildOK, Types, RunTypes, Retires, ClosesDown
  <2>3. MonitorOK(t)'
    BY <1>0, <1>a, <2>0 DEF LifeAt, MonitorOK, Live, Types, RunTypes, Retires, ClosesDown
  <2>4. RelayOK(t)'
    BY <1>0, <1>a, <2>0 DEF LifeAt, RelayOK, Types, RunTypes, Retires, ClosesDown
  <2> QED BY <2>1, <2>2, <2>3, <2>4 DEF LifeAt
<1> QED BY <1>0, <1>1, <1>2, <1>3, <1>4 DEF Life

(* A child could not be killed.                                            *)
LEMMA LifeRetained ==
    ASSUME Types, Life, NEW s \in Sessions, s <= session, s = session => starter # "reserved",
           starter' \in {starter, "off"}, ClosesDown, Retires(s), ~down => ~Live(mon'[s]),
           UNCHANGED <<active, process, session, down, child, row, relay, scope>>,
           reapers' = reapers \/ reapers' = [reapers EXCEPT ![s] = @ \cup {"process"}],
           ~down => scope.MaxKillFailures # 0
    PROVE  Life'
<1>0. Sessions' = Sessions /\ MaxRuns \in Nat /\ Sessions = 1..MaxRuns /\ session \in 0..MaxRuns
  BY ScopeStays, ScopeFacts DEF Types, ManagerTypes
<1>a. /\ \A t \in Sessions : reapers[t] \subseteq reapers'[t] /\ reapers'[t] \subseteq reapers[t] \cup {"process"}
      /\ \A t \in Sessions : t # s => reapers'[t] = reapers[t]
  BY DEF Types, RunTypes
<1>1. ManagerOK'
  BY <1>0, <1>a DEF Life, ManagerOK, Retires, ClosesDown
<1>2. StarterOK'
  BY <1>0, <1>a DEF Life, StarterOK, Types, RunTypes, Retires, ClosesDown
<1>3. CloserOK'
  BY <1>0, <1>a DEF Life, CloserOK, Types, ManagerTypes, Retires, ClosesDown
<1>4. ASSUME NEW t \in Sessions PROVE LifeAt(t)'
  <2>0. LifeAt(t)
    BY DEF Life
  <2>1. FutureOK(t)'
    BY <1>0, <1>a, <2>0 DEF LifeAt, FutureOK, Types, RunTypes, Retires, ClosesDown
  <2>2. ChildOK(t)'
    BY <1>0, <1>a, <2>0 DEF LifeAt, ChildOK, Types, RunTypes, Retires, ClosesDown
  <2>3. MonitorOK(t)'
    BY <1>0, <1>a, <2>0 DEF LifeAt, MonitorOK, Live, Types, RunTypes, Retires, ClosesDown
  <2>4. RelayOK(t)'
    BY <1>0, <1>a, <2>0 DEF LifeAt, RelayOK, Types, RunTypes, Retires, ClosesDown
  <2> QED BY <2>1, <2>2, <2>3, <2>4 DEF LifeAt
<1> QED BY <1>0, <1>1, <1>2, <1>3, <1>4 DEF Life

(* A child is gone, a subscriber is not.                                   *)
LEMMA LifeHeldForRelay ==
    ASSUME Types, Life, NEW s \in Sessions, mon[s].at = "cleaning", mon'[s].at = "done", Retires(s),
           UNCHANGED <<active, session, down, relay, starter, closer, scope>>, process' \in {process, None},
           NEW c \in {"reaped", "closed"}, child' = [child EXCEPT ![s] = c],
           \A t \in Sessions : row'[t] = "running" => t # s /\ row[t] = "running",
           reapers' = [reapers EXCEPT ![s] = @ \cup {"relay"}]
    PROVE  Life'
<1>0. Sessions' = Sessions /\ MaxRuns \in Nat /\ Sessions = 1..MaxRuns /\ session \in 0..MaxRuns
  BY ScopeStays, ScopeFacts DEF Types, ManagerTypes
<1>a. /\ \A t \in Sessions : child'[t] = IF t = s THEN c ELSE child[t]
      /\ \A t \in Sessions : reapers'[t] = IF t = s THEN reapers[t] \cup {"relay"} ELSE reapers[t]
  BY DEF Types, RunTypes
<1>1. ManagerOK'
  BY <1>0, <1>a DEF Life, ManagerOK, Retires
<1>2. StarterOK'
  BY <1>0, <1>a DEF Life, StarterOK, Types, RunTypes, Retires
<1>3. CloserOK'
  BY <1>0, <1>a DEF Life, CloserOK, Types, ManagerTypes, Retires
<1>4. ASSUME NEW t \in Sessions PROVE LifeAt(t)'
  <2>0. LifeAt(t)
    BY DEF Life
  <2>1. FutureOK(t)'
    BY <1>0, <1>a, <2>0 DEF LifeAt, FutureOK, Types, RunTypes, Retires
  <2>2. ChildOK(t)'
    BY <1>0, <1>a, <2>0 DEF LifeAt, ChildOK, Types, RunTypes, Retires
  <2>3. MonitorOK(t)'
    BY <1>0, <1>a, <2>0 DEF LifeAt, MonitorOK, Live, Types, RunTypes, Retires
  <2>4. RelayOK(t)'
    BY <1>0, <1>a, <2>0 DEF LifeAt, RelayOK, Types, RunTypes, Retires
  <2> QED BY <2>1, <2>2, <2>3, <2>4 DEF LifeAt
<1> QED BY <1>0, <1>1, <1>2, <1>3, <1>4 DEF Life

-----------------------------------------------------------------------------
(* Starting a run.                                                         *)
LEMMA ReserveRunLife ==
    ASSUME Types, Life, ReserveRun, scope' = scope
    PROVE  Life'
<1>0. Sessions' = Sessions /\ MaxRuns \in Nat /\ Sessions = 1..MaxRuns /\ session \in 0..MaxRuns
  BY ScopeStays, ScopeFacts DEF Types, ManagerTypes
<1>a. /\ ~active /\ ~down /\ starter = "off" /\ session < MaxRuns /\ session' = session + 1 /\ active' = TRUE /\ starter' = "reserved"
      /\ UNCHANGED <<process, down, closer, child, row, mon, relay, reapers>>
  BY DEF ReserveRun, runs
<1>b. process = None /\ session' \in Sessions /\ session' > session
  BY <1>0, <1>a DEF Life, ManagerOK
<1>c. LifeAt(session')
  BY <1>b DEF Life
<1>1. ManagerOK'
  BY <1>0, <1>a, <1>b DEF ManagerOK
<1>2. StarterOK'
  BY <1>0, <1>a, <1>b, <1>c DEF LifeAt, FutureOK, StarterOK
<1>3. CloserOK'
  BY <1>0, <1>a, <1>b DEF Life, CloserOK
<1>4. ASSUME NEW t \in Sessions PROVE LifeAt(t)'
  <2>0. LifeAt(t)
    BY DEF Life
  <2>1. FutureOK(t)'
    BY <1>0, <1>a, <2>0 DEF LifeAt, FutureOK, Types, RunTypes
  <2>2. ChildOK(t)'
    BY <1>0, <1>a, <2>0 DEF LifeAt, ChildOK, Types, RunTypes
  <2>3. MonitorOK(t)'
    BY <1>0, <1>a, <2>0 DEF LifeAt, MonitorOK, Live, Types, RunTypes
  <2>4. RelayOK(t)'
    BY <1>0, <1>a, <2>0 DEF LifeAt, RelayOK, Types, RunTypes
  <2> QED BY <2>1, <2>2, <2>3, <2>4 DEF LifeAt
<1> QED BY <1>0, <1>1, <1>2, <1>3, <1>4 DEF Life

LEMMA ReserveRunStep ==
    ASSUME Inv, ReserveRun, scope' = scope
    PROVE  Inv'
<1>0. /\ session < MaxRuns /\ session' = session + 1 /\ active' = TRUE /\ open' = FALSE /\ stopped' = FALSE
      /\ ctl' = Fresh /\ Wake(Waiters(ctl)) /\ given' = <<>> /\ asked' = [k \in Slots |-> None] /\ starter' = "reserved"
      /\ UNCHANGED <<process, cleanup, down, closer, child, call, row, mon, relay, reapers, used>>
  BY DEF ReserveRun, begin_run_session, Drained, runs
<1>1. /\ MaxRuns \in Nat /\ Sessions = 1..MaxRuns /\ session \in 0..MaxRuns /\ Callers' = Callers
      /\ chat \in [Callers -> Chats] /\ Sessions' = Sessions
  BY ScopeStays, ScopeFacts DEF Inv, Types, ManagerTypes, SteerTypes
<1>2. session' \in Sessions /\ session' > session /\ session' \in 0..MaxRuns
  BY <1>0, <1>1
<1>3. [at |-> "refused", run |-> 0, by |-> 0] \in Chats
  BY <1>1 DEF Chats
<1>4. chat' = [w \in Callers |-> IF w \in Waiters(ctl) THEN [at |-> "refused", run |-> 0, by |-> 0] ELSE chat[w]]
  BY <1>0, <1>1 DEF Wake
<1>5. chat' \in [Callers -> Chats] /\ \A w \in Callers : IF w \in Waiters(ctl) THEN chat'[w].at = "refused" ELSE chat'[w] = chat[w]
  BY <1>1, <1>3, <1>4
<1>6. Types'
  <2>1. ManagerTypes'
    BY <1>0, <1>2, ScopeStays DEF Inv, Types, ManagerTypes
  <2>2. RunTypes' /\ mon' \in [Sessions' -> Monitors'] /\ scope' \in Scopes
    BY <1>0, ScopeStays DEF Inv, Types, RunTypes
  <2>3. SteerTypes'
    BY <1>0, <1>5, FreshController, ScopeStays DEF SteerTypes
  <2> QED BY <2>1, <2>2, <2>3 DEF Types
<1>7. Life'
  BY ReserveRunLife DEF Inv
<1>8. HandsOK'
  BY <1>0, HandsFrame DEF Inv, HandsStay
<1>9. ChatsOK'
  <2>1. Dropped
    BY <1>0, <1>5, FreshController DEF Dropped
  <2> QED BY <2>1, ChatsDropped DEF Inv
<1>10. ValuesOK'
  <2>1. mon'[session'].at = "off"
    BY <1>0, <1>2 DEF Inv, Life, LifeAt, FutureOK
  <2>2. Given' = {} /\ Once(given')
    BY <1>0, EmptyQueue DEF Given, Elems
  <2>3. \A k \in Slots : ctl'.slot[k].value = None /\ asked'[k] = None
    BY <1>0, FreshController
  <2>4. SlotsOK' /\ GoneOK'
    BY <2>2, <2>3 DEF SlotsOK, GoneOK
  <2>5. GivenOK'
    BY <1>0, <2>2, FreshController DEF GivenOK
  <2>6. ~Holding(mon[session])'
    BY <2>1 DEF Holding
  <2>7. NoValueLost'
    BY <1>0 DEF NoValueLost
  <2> QED BY <2>3, <2>4, <2>5, <2>6, <2>7 DEF ValuesOK
<1> QED BY <1>6, <1>7, <1>8, <1>9, <1>10 DEF Inv

LEMMA SpawnLife ==
    ASSUME Types, Life, Spawn, scope' = scope
    PROVE  Life'
<1>0. Sessions' = Sessions /\ MaxRuns \in Nat /\ Sessions = 1..MaxRuns /\ session \in 0..MaxRuns
  BY ScopeStays, ScopeFacts DEF Types, ManagerTypes
<1>a. /\ starter = "reserved" /\ ~down /\ child' = [child EXCEPT ![session] = "running"] /\ process' = session
      /\ Monitor(session, "watch") /\ relay' = [relay EXCEPT ![session] = "on"] /\ starter' = "off"
      /\ UNCHANGED <<active, session, down, closer, row, reapers>>
  BY DEF Spawn
<1>b. /\ session \in Sessions /\ active /\ reapers[session] = {} /\ mon[session].at = "off"
      /\ child[session] = "none"
  BY <1>a DEF Life, StarterOK
<1>c. /\ mon'[session].at = "watch" /\ mon'[session].reaped = mon[session].reaped
      /\ \A t \in Sessions \ {session} : mon'[t] = mon[t]
  BY <1>a, <1>b, Goes
<1>d. /\ child'[session] = "running" /\ relay'[session] = "on"
      /\ \A t \in Sessions \ {session} : child'[t] = child[t] /\ relay'[t] = relay[t]
  BY <1>a, <1>b DEF Types, RunTypes
<1>1. ManagerOK'
  BY <1>0, <1>a, <1>b, <1>c, <1>d DEF Life, ManagerOK
<1>2. StarterOK'
  BY <1>0, <1>a, <1>b, <1>c, <1>d DEF Life, StarterOK, Types, RunTypes
<1>3. CloserOK'
  BY <1>0, <1>a, <1>b, <1>c, <1>d DEF Life, CloserOK, Types, ManagerTypes
<1>4. ASSUME NEW t \in Sessions PROVE LifeAt(t)'
  <2>0. LifeAt(t)
    BY DEF Life
  <2>1. FutureOK(t)'
    BY <1>0, <1>a, <1>b, <1>c, <1>d, <2>0 DEF LifeAt, FutureOK, Types, RunTypes
  <2>2. ChildOK(t)'
    BY <1>0, <1>a, <1>b, <1>c, <1>d, <2>0 DEF LifeAt, ChildOK, Types, RunTypes
  <2>3. MonitorOK(t)'
    BY <1>0, <1>a, <1>b, <1>c, <1>d, <2>0 DEF LifeAt, MonitorOK, Live, Types, RunTypes
  <2>4. RelayOK(t)'
    BY <1>0, <1>a, <1>b, <1>c, <1>d, <2>0 DEF LifeAt, RelayOK, Types, RunTypes
  <2> QED BY <2>1, <2>2, <2>3, <2>4 DEF LifeAt
<1> QED BY <1>0, <1>1, <1>2, <1>3, <1>4 DEF Life

LEMMA SpawnStep ==
    ASSUME Inv, Spawn, scope' = scope
    PROVE  Inv'
<1>0. /\ starter = "reserved" /\ ~down /\ child' = [child EXCEPT ![session] = "running"] /\ process' = session
      /\ Monitor(session, "watch") /\ relay' = [relay EXCEPT ![session] = "on"] /\ starter' = "off" /\ open' = TRUE
      /\ UNCHANGED <<active, session, cleanup, down, stopped, ctl, closer, call, row, reapers, chat, given, asked, used>>
  BY DEF Spawn
<1>1. session \in Sessions /\ active /\ mon[session].at = "off"
  BY <1>0 DEF Inv, Life, StarterOK
<1>2. /\ mon'[session].at = "watch" /\ mon' \in [Sessions -> Monitors]
      /\ \A t \in Sessions \ {session} : mon'[t] = mon[t]
  BY <1>0, <1>1, Goes DEF Inv
<1>3. Types'
  <2>1. ManagerTypes' /\ scope' \in Scopes
    BY <1>0, <1>1, ScopeStays DEF Inv, Types, ManagerTypes
  <2>2. RunTypes' /\ mon' \in [Sessions' -> Monitors']
    BY <1>0, <1>2, ScopeStays DEF Inv, Types, RunTypes
  <2>3. SteerTypes'
    BY <1>0, ScopeStays DEF Inv, Types, SteerTypes
  <2> QED BY <2>1, <2>2, <2>3 DEF Types
<1>4. Life'
  BY SpawnLife DEF Inv
<1>5. HandsStay
  BY <1>1, <1>2 DEF HandsStay, Holding
<1>6. HandsOK'
  BY <1>5, HandsFrame DEF Inv
<1>7. ctl.reserved = None
  BY <1>1 DEF Inv, ChatsOK, ReservedOK, Holding
<1>8. ChatsOK'
  <2>1. QueuesOK' /\ ReservedOK'
    BY <1>0, <1>7 DEF Inv, ChatsOK, QueuesOK, ReservedOK
  <2>2. WaitingIsHeld' /\ AnsweredByItsRun'
    BY <1>0, <1>1, ScopeStays DEF Inv, ChatsOK, WaitingIsHeld, AnsweredByItsRun
  <2> QED BY <1>0, <2>1, <2>2, ScopeStays DEF Inv, ChatsOK
<1>9. ValuesOK'
  <2>1. Given' = Given /\ (\A v : Mine(v)' = Mine(v))
    BY <1>0 DEF Given, Mine
  <2>2. SlotsOK' /\ GivenOK'
    BY <1>0, <2>1 DEF Inv, ValuesOK, SlotsOK, GivenOK
  <2>3. GoneOK'
    BY <1>0, <1>1, <2>1 DEF Inv, ValuesOK, GoneOK
  <2>4. ~Holding(mon[session])'
    BY <1>0, <1>2 DEF Holding
  <2>5. \A k \in Slots : asked[k] = None \/ asked[k] \in {None, ctl.slot[k].value} \cup {given[i] : i \in 1..Len(given)}
    BY DEF Inv, ValuesOK, NoValueLost
  <2>6. NoValueLost'
    BY <1>0, <2>5 DEF NoValueLost
  <2> QED BY <1>0, <2>2, <2>3, <2>4, <2>6 DEF ValuesOK
<1> QED BY <1>3, <1>4, <1>6, <1>8, <1>9 DEF Inv

LEMMA TakeDownTypes ==
    ASSUME Types, CloseNow \/ Kept, NEW s \in Sessions, active' \in BOOLEAN, stopped' \in BOOLEAN, process' \in {process, None},
           cleanup' \in {cleanup, None, [kind |-> "process", run |-> s], [kind |-> "relay", run |-> s]},
           starter' \in {starter, "off"}, closer' \in {closer, [closer EXCEPT !.at = "down"]},
           UNCHANGED <<session, down, call, relay, given, scope>>,
           child' = child \/ \E c \in {"running", "exited", "reaped", "closed"} : child' = [child EXCEPT ![s] = c],
           row' \in [Sessions -> {None, "running", "ended", "failed"}],
           reapers' \in [Sessions -> SUBSET {"process", "relay"}], used' \in [DOMAIN Bounds -> Nat],
           mon' \in [Sessions -> Monitors]
    PROVE  Types'
<1>1. open' \in BOOLEAN /\ ctl' \in Controllers /\ chat' \in [Callers -> Chats] /\ asked' \in [Slots -> Values \cup {None}]
  BY MayClose
<1>2. ManagerTypes' /\ scope' \in Scopes
  <2>1. cleanup' \in [kind : {"process", "relay"}, run : Sessions] \cup {None}
    BY DEF Types, ManagerTypes
  <2>2. closer' \in [at : {"up", "stopping", "joining", "down"}, process : Sessions \cup {None}, session : 0..MaxRuns]
    BY DEF Types, ManagerTypes
  <2> QED BY <1>1, <2>1, <2>2, ScopeStays DEF Types, ManagerTypes
<1>3. RunTypes'
  BY ScopeStays DEF Types, RunTypes
<1>4. SteerTypes' /\ mon' \in [Sessions' -> Monitors']
  BY <1>1, ScopeStays DEF Types, SteerTypes
<1> QED BY <1>2, <1>3, <1>4 DEF Types

LEMMA Repairs ==
    ASSUME Types, Life, NEW s \in Sessions, row' = Repaired(s)
    PROVE  /\ row' \in [Sessions -> {None, "running", "ended", "failed"}]
           /\ \A t \in Sessions : row'[t] = "running" => t # s /\ row[t] = "running"
<1>1. row \in [Sessions -> {None, "running", "ended", "failed"}]
  BY DEF Types, RunTypes
<1>2. s # session => row[s] # "running"
  BY DEF Life, LifeAt, ChildOK
<1> QED BY <1>1, <1>2 DEF Repaired

LEMMA SpawnFailsLife ==
    ASSUME Types, Life, SpawnFails, scope' = scope
    PROVE  Life'
<1>0. Sessions' = Sessions /\ MaxRuns \in Nat /\ Sessions = 1..MaxRuns /\ session \in 0..MaxRuns
  BY ScopeStays, ScopeFacts DEF Types, ManagerTypes
<1>a. /\ starter = "reserved" /\ active' = FALSE /\ process' = None /\ starter' = "off"
      /\ UNCHANGED <<session, down, closer, child, row, mon, relay, reapers>>
  BY DEF SpawnFails, runs
<1>b. /\ session \in Sessions /\ active /\ reapers[session] = {} /\ mon[session].at = "off"
      /\ child[session] = "none" /\ relay[session] = "off"
  BY <1>a DEF Life, StarterOK, LifeAt, RelayOK
<1>1. ManagerOK'
  BY <1>0, <1>a, <1>b DEF Life, ManagerOK
<1>2. StarterOK'
  BY <1>0, <1>a, <1>b DEF Life, StarterOK, Types, RunTypes
<1>3. CloserOK'
  BY <1>0, <1>a, <1>b DEF Life, CloserOK, Types, ManagerTypes
<1>4. ASSUME NEW t \in Sessions PROVE LifeAt(t)'
  <2>0. LifeAt(t)
    BY DEF Life
  <2>1. FutureOK(t)'
    BY <1>0, <1>a, <1>b, <2>0 DEF LifeAt, FutureOK, Types, RunTypes
  <2>2. ChildOK(t)'
    BY <1>0, <1>a, <1>b, <2>0 DEF LifeAt, ChildOK, Types, RunTypes
  <2>3. MonitorOK(t)'
    BY <1>0, <1>a, <1>b, <2>0 DEF LifeAt, MonitorOK, Live, Types, RunTypes
  <2>4. RelayOK(t)'
    BY <1>0, <1>a, <1>b, <2>0 DEF LifeAt, RelayOK, Types, RunTypes
  <2> QED BY <2>1, <2>2, <2>3, <2>4 DEF LifeAt
<1> QED BY <1>0, <1>1, <1>2, <1>3, <1>4 DEF Life

LEMMA SpawnFailsStep ==
    ASSUME Inv, SpawnFails, scope' = scope
    PROVE  Inv'
<1>0. /\ starter = "reserved" /\ active' = FALSE /\ process' = None /\ stopped' = FALSE /\ starter' = "off" /\ CloseNow
      /\ UNCHANGED <<session, cleanup, down, closer, child, call, row, mon, relay, reapers, given>>
      /\ used' = used \/ Spend("errors")
  BY DEF SpawnFails, runs
<1>1. session \in Sessions /\ Types
  BY <1>0 DEF Inv, Life, StarterOK
<1>2. used' \in [DOMAIN Bounds -> Nat] /\ used'.values = used.values
  BY <1>0, <1>1, Spends DEF Names, Types, RunTypes
<1>3. Types'
  BY <1>0, <1>1, <1>2, TakeDownTypes DEF Types, RunTypes
<1>4. Life'
  BY SpawnFailsLife DEF Inv
<1>5. HandsOK' /\ ChatsOK' /\ ValuesOK'
  BY <1>0, <1>2, SteerFrame DEF HandsStay
<1> QED BY <1>3, <1>4, <1>5 DEF Inv

LEMMA MonitorStartFailsLife ==
    ASSUME Types, Life, MonitorStartFails, scope' = scope
    PROVE  Life'
<1>0. Sessions' = Sessions /\ MaxRuns \in Nat /\ Sessions = 1..MaxRuns /\ session \in 0..MaxRuns
  BY ScopeStays, ScopeFacts DEF Types, ManagerTypes
<1>a. /\ starter = "reserved" /\ ~down /\ child' = [child EXCEPT ![session] = "running"] /\ process' = session
      /\ starter' = "unwinding"
      /\ UNCHANGED <<active, session, down, closer, row, mon, relay, reapers>>
  BY DEF MonitorStartFails
<1>b. session \in Sessions /\ active /\ mon[session].at = "off" /\ child[session] = "none" /\ relay[session] = "off"
  BY <1>a DEF Life, StarterOK, LifeAt, RelayOK
<1>c. child'[session] = "running" /\ \A t \in Sessions \ {session} : child'[t] = child[t]
  BY <1>a, <1>b DEF Types, RunTypes
<1>1. ManagerOK'
  BY <1>0, <1>a, <1>b, <1>c DEF Life, ManagerOK
<1>2. StarterOK'
  BY <1>0, <1>a, <1>b, <1>c DEF Life, StarterOK, Types, RunTypes
<1>3. CloserOK'
  BY <1>0, <1>a, <1>b, <1>c DEF Life, CloserOK, Types, ManagerTypes
<1>4. ASSUME NEW t \in Sessions PROVE LifeAt(t)'
  <2>0. LifeAt(t)
    BY DEF Life
  <2>1. FutureOK(t)'
    BY <1>0, <1>a, <1>b, <1>c, <2>0 DEF LifeAt, FutureOK, Types, RunTypes
  <2>2. ChildOK(t)'
    BY <1>0, <1>a, <1>b, <1>c, <2>0 DEF LifeAt, ChildOK, Types, RunTypes
  <2>3. MonitorOK(t)'
    BY <1>0, <1>a, <1>b, <1>c, <2>0 DEF LifeAt, MonitorOK, Live, Types, RunTypes
  <2>4. RelayOK(t)'
    BY <1>0, <1>a, <1>b, <1>c, <2>0 DEF LifeAt, RelayOK, Types, RunTypes
  <2> QED BY <2>1, <2>2, <2>3, <2>4 DEF LifeAt
<1> QED BY <1>0, <1>1, <1>2, <1>3, <1>4 DEF Life

LEMMA MonitorStartFailsStep ==
    ASSUME Inv, MonitorStartFails, scope' = scope
    PROVE  Inv'
<1>0. /\ starter = "reserved" /\ child' = [child EXCEPT ![session] = "running"] /\ process' = session
      /\ starter' = "unwinding" /\ Spend("errors")
      /\ UNCHANGED <<active, open, session, cleanup, down, stopped, ctl, closer, call, row, mon, relay, reapers, chat,
                     given, asked>>
  BY DEF MonitorStartFails
<1>1. session \in Sessions /\ Types
  BY <1>0 DEF Inv, Life, StarterOK
<1>2. used' \in [DOMAIN Bounds -> Nat] /\ used'.values = used.values
  BY <1>0, <1>1, Spends DEF Names
<1>3. Types'
  <2>1. ManagerTypes' /\ scope' \in Scopes
    BY <1>0, <1>1, ScopeStays DEF Types, ManagerTypes
  <2>2. RunTypes' /\ mon' \in [Sessions' -> Monitors']
    BY <1>0, <1>1, <1>2, ScopeStays DEF Types, RunTypes
  <2>3. SteerTypes'
    BY <1>0, <1>1, ScopeStays DEF Types, SteerTypes
  <2> QED BY <2>1, <2>2, <2>3 DEF Types
<1>4. Life'
  BY MonitorStartFailsLife DEF Inv
<1>5. HandsOK' /\ ChatsOK' /\ ValuesOK'
  BY <1>0, <1>2, KeptAlike, SteerFrame DEF HandsStay, Kept
<1> QED BY <1>3, <1>4, <1>5 DEF Inv

LEMMA UnwindStep ==
    ASSUME Inv, Unwind, scope' = scope
    PROVE  Inv'
<1>0. starter = "unwinding" /\ starter' = "off" /\ UNCHANGED <<session, down, closer, call, mon, relay, given>>
  BY DEF Unwind
<1>1. /\ session \in Sessions /\ Types /\ Life /\ ManagerOK /\ mon[session].at = "off" /\ relay[session] = "off"
      /\ session <= session /\ child[session] # "reaped" /\ ~Live(mon[session])
  <2>1. session \in Sessions /\ Types /\ Life /\ ManagerOK /\ mon[session].at = "off"
    BY <1>0 DEF Inv, Life, StarterOK
  <2>2. LifeAt(session) /\ session \in Nat
    BY <2>1, ScopeFacts DEF Life, Types
  <2> QED BY <2>1, <2>2 DEF LifeAt, RelayOK, ChildOK, Live
<1>2. PICK o \in Outcomes(session) :
         /\ Terminated(session, o)
         /\ IF o.ok
            THEN /\ row' = Repaired(session)
                 /\ Finalize(session, [kind |-> "starter", run |-> session]) /\ UNCHANGED reapers
            ELSE Retain(session) /\ UNCHANGED <<row, child>>
  BY DEF Unwind
<1>3. /\ used' \in [DOMAIN Bounds -> Nat] /\ used'.values = used.values
      /\ ~o.ok => scope.MaxKillFailures # 0
  BY <1>1, <1>2, Kills
<1>4. Retires(session) /\ ClosesDown /\ HandsStay
  BY <1>0 DEF Retires, ClosesDown, HandsStay
<1>5. CASE o.ok
  <2>1. /\ child' = [child EXCEPT ![session] = "closed"] /\ Releases /\ reapers' = reapers
    BY <1>1, <1>2, <1>5, Finalizes
  <2>2. /\ row' \in [Sessions -> {None, "running", "ended", "failed"}]
        /\ \A t \in Sessions : row'[t] = "running" => t # session /\ row[t] = "running"
    BY <1>1, <1>2, <1>5, Repairs
  <2>3. Types'
    BY <1>0, <1>1, <1>3, <2>1, <2>2, TakeDownTypes DEF Releases, Types, RunTypes
  <2>4. Life'
    BY <1>0, <1>1, <1>4, <2>1, <2>2, LifeReleased DEF Releases
  <2>5. HandsOK' /\ ChatsOK' /\ ValuesOK'
    BY <1>0, <1>3, <1>4, <2>1, SteerFrame DEF Releases
  <2> QED BY <2>3, <2>4, <2>5 DEF Inv
<1>6. CASE ~o.ok
  <2>1. /\ CloseNow \/ Kept
        /\ reapers' = reapers \/ reapers' = [reapers EXCEPT ![session] = @ \cup {"process"}]
        /\ cleanup' \in {cleanup, [kind |-> "process", run |-> session]}
        /\ UNCHANGED <<active, process, stopped, row, child>>
    BY <1>2, <1>6, Retains
  <2>2. reapers' \in [Sessions -> SUBSET {"process", "relay"}]
    BY <1>1, <2>1 DEF Types, RunTypes
  <2>3. Types'
    <3>1. active' \in BOOLEAN /\ stopped' \in BOOLEAN /\ row' \in [Sessions -> {None, "running", "ended", "failed"}] /\ mon' \in [Sessions -> Monitors]
      BY <1>0, <1>1, <2>1 DEF Types, ManagerTypes, RunTypes
    <3> QED BY <1>0, <1>1, <1>3, <2>1, <2>2, <3>1, TakeDownTypes
  <2>4. Life'
    BY <1>0, <1>1, <1>3, <1>4, <1>6, <2>1, LifeRetained
  <2>5. HandsOK' /\ ChatsOK' /\ ValuesOK'
    BY <1>0, <1>3, <1>4, <2>1, KeptAlike, SteerFrame
  <2> QED BY <2>3, <2>4, <2>5 DEF Inv
<1> QED BY <1>5, <1>6

-----------------------------------------------------------------------------
(* The child and its subscriber.                                           *)

LEMMA ChildBootsLife ==
    ASSUME Types, Life, NEW s \in Sessions, child[s] = "running", row' = [row EXCEPT ![s] = "running"], UNCHANGED <<child, relay>>,
           UNCHANGED <<active, session, process, starter, closer, down, mon, reapers, scope>>
    PROVE  Life'
<1>0. Sessions' = Sessions /\ MaxRuns \in Nat /\ Sessions = 1..MaxRuns /\ session \in 0..MaxRuns
  BY ScopeStays, ScopeFacts DEF Types, ManagerTypes
<1>a. \A t \in Sessions : row'[t] = IF t = s THEN "running" ELSE row[t]
  BY DEF Types, RunTypes
<1>1. ManagerOK'
  BY <1>0, <1>a DEF Life, ManagerOK
<1>2. StarterOK'
  BY <1>0, <1>a DEF Life, StarterOK, Types, RunTypes
<1>3. CloserOK'
  BY <1>0, <1>a DEF Life, CloserOK, Types, ManagerTypes
<1>4. ASSUME NEW t \in Sessions PROVE LifeAt(t)'
  <2>0. LifeAt(t)
    BY DEF Life
  <2>1. FutureOK(t)'
    BY <1>0, <1>a, <2>0 DEF LifeAt, FutureOK, Types, RunTypes
  <2>2. ChildOK(t)'
    BY <1>0, <1>a, <2>0 DEF LifeAt, ChildOK, Types, RunTypes
  <2>3. MonitorOK(t)'
    BY <1>0, <1>a, <2>0 DEF LifeAt, MonitorOK, Live, Types, RunTypes
  <2>4. RelayOK(t)'
    BY <1>0, <1>a, <2>0 DEF LifeAt, RelayOK, Types, RunTypes
  <2> QED BY <2>1, <2>2, <2>3, <2>4 DEF LifeAt
<1> QED BY <1>0, <1>1, <1>2, <1>3, <1>4 DEF Life

LEMMA ChildBootsStep ==
    ASSUME Inv, NEW s \in Sessions, ChildBoots(s), scope' = scope
    PROVE  Inv'
<1>0. /\ child[s] = "running" /\ row' = [row EXCEPT ![s] = "running"] /\ call' = [call EXCEPT ![s] = "paused"]
      /\ UNCHANGED <<active, open, session, process, cleanup, down, stopped, ctl, starter, closer, mon, reapers, chat, given, asked, child, relay, used>>
  BY DEF ChildBoots, manager
<1>1. Types /\ Life /\ mon \in [Sessions -> Monitors]
  BY DEF Inv, Types
<1>2. used'.values = used.values
  BY <1>0
<1>3. Types'
  <2>1. ManagerTypes' /\ scope' \in Scopes
    BY <1>0, <1>1, ScopeStays DEF Types, ManagerTypes
  <2>2. RunTypes' /\ mon' \in [Sessions' -> Monitors']
    BY <1>0, <1>1, <1>2, ScopeStays DEF Types, RunTypes, Calls
  <2>3. SteerTypes'
    BY <1>0, <1>1, ScopeStays DEF Types, SteerTypes
  <2> QED BY <2>1, <2>2, <2>3 DEF Types
<1>4. Life'
  BY <1>0, <1>1, ChildBootsLife
<1>5. HandsOK' /\ ChatsOK' /\ ValuesOK'
  BY <1>0, <1>2, KeptAlike, SteerFrame DEF HandsStay, Kept
<1> QED BY <1>3, <1>4, <1>5 DEF Inv

LEMMA ChildEndsLife ==
    ASSUME Types, Life, NEW s \in Sessions, row' = [row EXCEPT ![s] = "ended"], UNCHANGED <<child, relay>>,
           UNCHANGED <<active, session, process, starter, closer, down, mon, reapers, scope>>
    PROVE  Life'
<1>0. Sessions' = Sessions /\ MaxRuns \in Nat /\ Sessions = 1..MaxRuns /\ session \in 0..MaxRuns
  BY ScopeStays, ScopeFacts DEF Types, ManagerTypes
<1>a. \A t \in Sessions : row'[t] = IF t = s THEN "ended" ELSE row[t]
  BY DEF Types, RunTypes
<1>1. ManagerOK'
  BY <1>0, <1>a DEF Life, ManagerOK
<1>2. StarterOK'
  BY <1>0, <1>a DEF Life, StarterOK, Types, RunTypes
<1>3. CloserOK'
  BY <1>0, <1>a DEF Life, CloserOK, Types, ManagerTypes
<1>4. ASSUME NEW t \in Sessions PROVE LifeAt(t)'
  <2>0. LifeAt(t)
    BY DEF Life
  <2>1. FutureOK(t)'
    BY <1>0, <1>a, <2>0 DEF LifeAt, FutureOK, Types, RunTypes
  <2>2. ChildOK(t)'
    BY <1>0, <1>a, <2>0 DEF LifeAt, ChildOK, Types, RunTypes
  <2>3. MonitorOK(t)'
    BY <1>0, <1>a, <2>0 DEF LifeAt, MonitorOK, Live, Types, RunTypes
  <2>4. RelayOK(t)'
    BY <1>0, <1>a, <2>0 DEF LifeAt, RelayOK, Types, RunTypes
  <2> QED BY <2>1, <2>2, <2>3, <2>4 DEF LifeAt
<1> QED BY <1>0, <1>1, <1>2, <1>3, <1>4 DEF Life

LEMMA ChildEndsStep ==
    ASSUME Inv, NEW s \in Sessions, ChildEnds(s), scope' = scope
    PROVE  Inv'
<1>0. /\ row' = [row EXCEPT ![s] = "ended"] /\ call' = [call EXCEPT ![s] = "ended"]
      /\ UNCHANGED <<active, open, session, process, cleanup, down, stopped, ctl, starter, closer, mon, reapers, chat, given, asked, child, relay, used>>
  BY DEF ChildEnds, manager
<1>1. Types /\ Life /\ mon \in [Sessions -> Monitors]
  BY DEF Inv, Types
<1>2. used'.values = used.values
  BY <1>0
<1>3. Types'
  <2>1. ManagerTypes' /\ scope' \in Scopes
    BY <1>0, <1>1, ScopeStays DEF Types, ManagerTypes
  <2>2. RunTypes' /\ mon' \in [Sessions' -> Monitors']
    BY <1>0, <1>1, <1>2, ScopeStays DEF Types, RunTypes
  <2>3. SteerTypes'
    BY <1>0, <1>1, ScopeStays DEF Types, SteerTypes
  <2> QED BY <2>1, <2>2, <2>3 DEF Types
<1>4. Life'
  BY <1>0, <1>1, ChildEndsLife
<1>5. HandsOK' /\ ChatsOK' /\ ValuesOK'
  BY <1>0, <1>2, KeptAlike, SteerFrame DEF HandsStay, Kept
<1> QED BY <1>3, <1>4, <1>5 DEF Inv

LEMMA send_resultStep ==
    ASSUME Inv, NEW s \in Sessions, send_result(s), scope' = scope
    PROVE  Inv'
<1>0. /\ call' = [call EXCEPT ![s] = "reported"]
      /\ UNCHANGED <<active, open, session, process, cleanup, down, stopped, ctl, starter, closer, mon, reapers, chat, given, asked, child, row, relay, used>>
  BY DEF send_result, manager
<1>1. Types /\ Life /\ mon \in [Sessions -> Monitors]
  BY DEF Inv, Types
<1>2. used'.values = used.values
  BY <1>0
<1>3. Types'
  <2>1. ManagerTypes' /\ scope' \in Scopes
    BY <1>0, <1>1, ScopeStays DEF Types, ManagerTypes
  <2>2. RunTypes' /\ mon' \in [Sessions' -> Monitors']
    BY <1>0, <1>1, <1>2, ScopeStays DEF Types, RunTypes
  <2>3. SteerTypes'
    BY <1>0, <1>1, ScopeStays DEF Types, SteerTypes
  <2> QED BY <2>1, <2>2, <2>3 DEF Types
<1>4. Life'
  BY <1>0, <1>1, LifeFrame
<1>5. HandsOK' /\ ChatsOK' /\ ValuesOK'
  BY <1>0, <1>2, KeptAlike, SteerFrame DEF HandsStay, Kept
<1> QED BY <1>3, <1>4, <1>5 DEF Inv

LEMMA ChildLosesServerStep ==
    ASSUME Inv, NEW s \in Sessions, ChildLosesServer(s), scope' = scope
    PROVE  Inv'
<1>0. /\ call' = [call EXCEPT ![s] = "ending"]
      /\ UNCHANGED <<active, open, session, process, cleanup, down, stopped, ctl, starter, closer, mon, reapers, chat, given, asked, child, row, relay, used>>
  BY DEF ChildLosesServer, manager
<1>1. Types /\ Life /\ mon \in [Sessions -> Monitors]
  BY DEF Inv, Types
<1>2. used'.values = used.values
  BY <1>0
<1>3. Types'
  <2>1. ManagerTypes' /\ scope' \in Scopes
    BY <1>0, <1>1, ScopeStays DEF Types, ManagerTypes
  <2>2. RunTypes' /\ mon' \in [Sessions' -> Monitors']
    BY <1>0, <1>1, <1>2, ScopeStays DEF Types, RunTypes
  <2>3. SteerTypes'
    BY <1>0, <1>1, ScopeStays DEF Types, SteerTypes
  <2> QED BY <2>1, <2>2, <2>3 DEF Types
<1>4. Life'
  BY <1>0, <1>1, LifeFrame
<1>5. HandsOK' /\ ChatsOK' /\ ValuesOK'
  BY <1>0, <1>2, KeptAlike, SteerFrame DEF HandsStay, Kept
<1> QED BY <1>3, <1>4, <1>5 DEF Inv

LEMMA ChildExitsLife ==
    ASSUME Types, Life, NEW s \in Sessions, child[s] = "running", child' = [child EXCEPT ![s] = "exited"], UNCHANGED <<row, relay>>,
           UNCHANGED <<active, session, process, starter, closer, down, mon, reapers, scope>>
    PROVE  Life'
<1>0. Sessions' = Sessions /\ MaxRuns \in Nat /\ Sessions = 1..MaxRuns /\ session \in 0..MaxRuns
  BY ScopeStays, ScopeFacts DEF Types, ManagerTypes
<1>a. \A t \in Sessions : child'[t] = IF t = s THEN "exited" ELSE child[t]
  BY DEF Types, RunTypes
<1>1. ManagerOK'
  BY <1>0, <1>a DEF Life, ManagerOK
<1>2. StarterOK'
  BY <1>0, <1>a DEF Life, StarterOK, Types, RunTypes
<1>3. CloserOK'
  BY <1>0, <1>a DEF Life, CloserOK, Types, ManagerTypes
<1>4. ASSUME NEW t \in Sessions PROVE LifeAt(t)'
  <2>0. LifeAt(t)
    BY DEF Life
  <2>1. FutureOK(t)'
    BY <1>0, <1>a, <2>0 DEF LifeAt, FutureOK, Types, RunTypes
  <2>2. ChildOK(t)'
    BY <1>0, <1>a, <2>0 DEF LifeAt, ChildOK, Types, RunTypes
  <2>3. MonitorOK(t)'
    BY <1>0, <1>a, <2>0 DEF LifeAt, MonitorOK, Live, Types, RunTypes
  <2>4. RelayOK(t)'
    BY <1>0, <1>a, <2>0 DEF LifeAt, RelayOK, Types, RunTypes
  <2> QED BY <2>1, <2>2, <2>3, <2>4 DEF LifeAt
<1> QED BY <1>0, <1>1, <1>2, <1>3, <1>4 DEF Life

LEMMA ChildExitsStep ==
    ASSUME Inv, NEW s \in Sessions, ChildExits(s), scope' = scope
    PROVE  Inv'
<1>0. /\ child[s] = "running" /\ child' = [child EXCEPT ![s] = "exited"]
      /\ UNCHANGED <<active, open, session, process, cleanup, down, stopped, ctl, starter, closer, mon, reapers, chat, given, asked, call, row, relay, used>>
  BY DEF ChildExits, manager
<1>1. Types /\ Life /\ mon \in [Sessions -> Monitors]
  BY DEF Inv, Types
<1>2. used'.values = used.values
  BY <1>0
<1>3. Types'
  <2>1. ManagerTypes' /\ scope' \in Scopes
    BY <1>0, <1>1, ScopeStays DEF Types, ManagerTypes
  <2>2. RunTypes' /\ mon' \in [Sessions' -> Monitors']
    BY <1>0, <1>1, <1>2, ScopeStays DEF Types, RunTypes
  <2>3. SteerTypes'
    BY <1>0, <1>1, ScopeStays DEF Types, SteerTypes
  <2> QED BY <2>1, <2>2, <2>3 DEF Types
<1>4. Life'
  BY <1>0, <1>1, ChildExitsLife
<1>5. HandsOK' /\ ChatsOK' /\ ValuesOK'
  BY <1>0, <1>2, KeptAlike, SteerFrame DEF HandsStay, Kept
<1> QED BY <1>3, <1>4, <1>5 DEF Inv

LEMMA ChildDiesStep ==
    ASSUME Inv, NEW s \in Sessions, ChildDies(s), scope' = scope
    PROVE  Inv'
<1>0. /\ child[s] = "running" /\ child' = [child EXCEPT ![s] = "exited"] /\ Spend("deaths")
      /\ UNCHANGED <<active, open, session, process, cleanup, down, stopped, ctl, starter, closer, mon, reapers, chat, given, asked, call, row, relay>>
  BY DEF ChildDies, manager
<1>1. Types /\ Life /\ mon \in [Sessions -> Monitors]
  BY DEF Inv, Types
<1>2. used' \in [DOMAIN Bounds -> Nat] /\ used'.values = used.values
  BY <1>0, <1>1, Spends DEF Names
<1>3. Types'
  <2>1. ManagerTypes' /\ scope' \in Scopes
    BY <1>0, <1>1, ScopeStays DEF Types, ManagerTypes
  <2>2. RunTypes' /\ mon' \in [Sessions' -> Monitors']
    BY <1>0, <1>1, <1>2, ScopeStays DEF Types, RunTypes
  <2>3. SteerTypes'
    BY <1>0, <1>1, ScopeStays DEF Types, SteerTypes
  <2> QED BY <2>1, <2>2, <2>3 DEF Types
<1>4. Life'
  BY <1>0, <1>1, ChildExitsLife
<1>5. HandsOK' /\ ChatsOK' /\ ValuesOK'
  BY <1>0, <1>2, KeptAlike, SteerFrame DEF HandsStay, Kept
<1> QED BY <1>3, <1>4, <1>5 DEF Inv

LEMMA SubscriberBlocksLife ==
    ASSUME Types, Life, NEW s \in Sessions, relay[s] = "on", relay' = [relay EXCEPT ![s] = "blocked"], UNCHANGED <<child, row>>,
           UNCHANGED <<active, session, process, starter, closer, down, mon, reapers, scope>>
    PROVE  Life'
<1>0. Sessions' = Sessions /\ MaxRuns \in Nat /\ Sessions = 1..MaxRuns /\ session \in 0..MaxRuns
  BY ScopeStays, ScopeFacts DEF Types, ManagerTypes
<1>a. \A t \in Sessions : relay'[t] = IF t = s THEN "blocked" ELSE relay[t]
  BY DEF Types, RunTypes
<1>1. ManagerOK'
  BY <1>0, <1>a DEF Life, ManagerOK
<1>2. StarterOK'
  BY <1>0, <1>a DEF Life, StarterOK, Types, RunTypes
<1>3. CloserOK'
  BY <1>0, <1>a DEF Life, CloserOK, Types, ManagerTypes
<1>4. ASSUME NEW t \in Sessions PROVE LifeAt(t)'
  <2>0. LifeAt(t)
    BY DEF Life
  <2>1. FutureOK(t)'
    BY <1>0, <1>a, <2>0 DEF LifeAt, FutureOK, Types, RunTypes
  <2>2. ChildOK(t)'
    BY <1>0, <1>a, <2>0 DEF LifeAt, ChildOK, Types, RunTypes
  <2>3. MonitorOK(t)'
    BY <1>0, <1>a, <2>0 DEF LifeAt, MonitorOK, Live, Types, RunTypes
  <2>4. RelayOK(t)'
    BY <1>0, <1>a, <2>0 DEF LifeAt, RelayOK, Types, RunTypes
  <2> QED BY <2>1, <2>2, <2>3, <2>4 DEF LifeAt
<1> QED BY <1>0, <1>1, <1>2, <1>3, <1>4 DEF Life

LEMMA SubscriberBlocksStep ==
    ASSUME Inv, NEW s \in Sessions, SubscriberBlocks(s), scope' = scope
    PROVE  Inv'
<1>0. /\ relay[s] = "on" /\ relay' = [relay EXCEPT ![s] = "blocked"] /\ Spend("stalls")
      /\ UNCHANGED <<active, open, session, process, cleanup, down, stopped, ctl, starter, closer, mon, reapers, chat, given, asked, child, call, row>>
  BY DEF SubscriberBlocks, manager, runs
<1>1. Types /\ Life /\ mon \in [Sessions -> Monitors]
  BY DEF Inv, Types
<1>2. used' \in [DOMAIN Bounds -> Nat] /\ used'.values = used.values
  BY <1>0, <1>1, Spends DEF Names
<1>3. Types'
  <2>1. ManagerTypes' /\ scope' \in Scopes
    BY <1>0, <1>1, ScopeStays DEF Types, ManagerTypes
  <2>2. RunTypes' /\ mon' \in [Sessions' -> Monitors']
    BY <1>0, <1>1, <1>2, ScopeStays DEF Types, RunTypes
  <2>3. SteerTypes'
    BY <1>0, <1>1, ScopeStays DEF Types, SteerTypes
  <2> QED BY <2>1, <2>2, <2>3 DEF Types
<1>4. Life'
  BY <1>0, <1>1, SubscriberBlocksLife
<1>5. HandsOK' /\ ChatsOK' /\ ValuesOK'
  BY <1>0, <1>2, KeptAlike, SteerFrame DEF HandsStay, Kept
<1> QED BY <1>3, <1>4, <1>5 DEF Inv

LEMMA SubscriberReturnsLife ==
    ASSUME Types, Life, NEW s \in Sessions, relay[s] = "blocked", UNCHANGED <<child, row>>,
           relay' = [relay EXCEPT ![s] = IF mon[s].at \in {"cleaning", "done"} THEN "done" ELSE "on"],
           UNCHANGED <<active, session, process, starter, closer, down, mon, reapers, scope>>
    PROVE  Life'
<1>0. Sessions' = Sessions /\ MaxRuns \in Nat /\ Sessions = 1..MaxRuns /\ session \in 0..MaxRuns
  BY ScopeStays, ScopeFacts DEF Types, ManagerTypes
<1>a. /\ \A t \in Sessions : relay'[t] = IF t = s THEN IF mon[s].at \in {"cleaning", "done"} THEN "done" ELSE "on" ELSE relay[t]
      /\ mon[s].at \in {"off", "watch", "sending", "sent", "leaving", "cleaning", "done"}
  BY DEF Types, RunTypes, Monitors
<1>1. ManagerOK'
  BY <1>0, <1>a DEF Life, ManagerOK
<1>2. StarterOK'
  BY <1>0, <1>a DEF Life, StarterOK, Types, RunTypes
<1>3. CloserOK'
  BY <1>0, <1>a DEF Life, CloserOK, Types, ManagerTypes
<1>4. ASSUME NEW t \in Sessions PROVE LifeAt(t)'
  <2>0. LifeAt(t)
    BY DEF Life
  <2>1. FutureOK(t)'
    BY <1>0, <1>a, <2>0 DEF LifeAt, FutureOK, Types, RunTypes
  <2>2. ChildOK(t)'
    BY <1>0, <1>a, <2>0 DEF LifeAt, ChildOK, Types, RunTypes
  <2>3. MonitorOK(t)'
    BY <1>0, <1>a, <2>0 DEF LifeAt, MonitorOK, Live, Types, RunTypes
  <2>4. RelayOK(t)'
    BY <1>0, <1>a, <2>0 DEF LifeAt, RelayOK, Types, RunTypes
  <2> QED BY <2>1, <2>2, <2>3, <2>4 DEF LifeAt
<1> QED BY <1>0, <1>1, <1>2, <1>3, <1>4 DEF Life

LEMMA SubscriberReturnsStep ==
    ASSUME Inv, NEW s \in Sessions, SubscriberReturns(s), scope' = scope
    PROVE  Inv'
<1>0. /\ relay[s] = "blocked" /\ relay' = [relay EXCEPT ![s] = IF mon[s].at \in {"cleaning", "done"} THEN "done" ELSE "on"]
      /\ UNCHANGED <<active, open, session, process, cleanup, down, stopped, ctl, starter, closer, mon, reapers, chat, given, asked, child, call, row, used>>
  BY DEF SubscriberReturns, manager, runs
<1>1. Types /\ Life /\ mon \in [Sessions -> Monitors]
  BY DEF Inv, Types
<1>2. used'.values = used.values
  BY <1>0
<1>3. Types'
  <2>1. ManagerTypes' /\ scope' \in Scopes
    BY <1>0, <1>1, ScopeStays DEF Types, ManagerTypes
  <2>2. RunTypes' /\ mon' \in [Sessions' -> Monitors']
    BY <1>0, <1>1, <1>2, ScopeStays DEF Types, RunTypes
  <2>3. SteerTypes'
    BY <1>0, <1>1, ScopeStays DEF Types, SteerTypes
  <2> QED BY <2>1, <2>2, <2>3 DEF Types
<1>4. Life'
  BY <1>0, <1>1, SubscriberReturnsLife
<1>5. HandsOK' /\ ChatsOK' /\ ValuesOK'
  BY <1>0, <1>2, KeptAlike, SteerFrame DEF HandsStay, Kept
<1> QED BY <1>3, <1>4, <1>5 DEF Inv

-----------------------------------------------------------------------------
(* Commands of clients.                                                    *)
LEMMA Paused ==
    ASSUME NEW c \in Controllers, NEW b \in BOOLEAN
    PROVE  LET d == [c EXCEPT !.paused = b] IN d \in Controllers /\ SameChats(c, d) /\ SameSlots(c, d)
BY DEF Controllers, SameChats, SameSlots

LEMMA StopRequested ==
    ASSUME NEW c \in Controllers, NEW s \in Sessions
    PROVE  LET d == request_stop(c, s) IN d \in Controllers /\ SameChats(c, d) /\ d.slot = c.slot /\ d.stop = s
BY DEF Controllers, SameChats, request_stop

LEMMA Accepted ==
    ASSUME Inv, Accepts
    PROVE  session \in Sessions /\ active /\ open
BY DEF Inv, Life, ManagerOK, Accepts

LEMMA PauseStep ==
    ASSUME Inv, pause, scope' = scope
    PROVE  Inv'
<1>0. ctl' = [ctl EXCEPT !.paused = TRUE] /\ Spend("pauses") /\ UNCHANGED <<active, open, session, process, cleanup, down, stopped, starter, closer, child, call, row, mon, relay, reapers, chat, given, asked>>
  BY DEF pause, manager, runs
<1>1. Types /\ Life /\ ctl \in Controllers
  BY DEF Inv, Types, SteerTypes
<1>2. used' \in [DOMAIN Bounds -> Nat] /\ used'.values = used.values
  BY <1>0, <1>1, Spends DEF Names
<1>3. ctl' \in Controllers /\ Alike
  BY <1>0, <1>1, Paused DEF Alike, SameSlots
<1>4. Types'
  <2>1. ManagerTypes' /\ scope' \in Scopes
    BY <1>0, <1>1, ScopeStays DEF Types, ManagerTypes
  <2>2. RunTypes' /\ mon' \in [Sessions' -> Monitors']
    BY <1>0, <1>1, <1>2, ScopeStays DEF Types, RunTypes
  <2>3. SteerTypes'
    BY <1>0, <1>1, <1>3, ScopeStays DEF Types, SteerTypes
  <2> QED BY <2>1, <2>2, <2>3 DEF Types
<1>5. Life'
  BY <1>0, <1>1, LifeFrame
<1>6. HandsOK' /\ ChatsOK' /\ ValuesOK'
  BY <1>0, <1>2, <1>3, SteerFrame DEF HandsStay
<1> QED BY <1>4, <1>5, <1>6 DEF Inv

LEMMA ResumeStep ==
    ASSUME Inv, resume, scope' = scope
    PROVE  Inv'
<1>0. ctl' = [ctl EXCEPT !.paused = FALSE] /\ UNCHANGED <<active, open, session, process, cleanup, down, stopped, starter, closer, child, call, row, mon, relay, reapers, chat, given, asked, used>>
  BY DEF resume, manager, runs
<1>1. Types /\ Life /\ ctl \in Controllers
  BY DEF Inv, Types, SteerTypes
<1>2. used' \in [DOMAIN Bounds -> Nat] /\ used'.values = used.values
  BY <1>0, <1>1 DEF Types, RunTypes
<1>3. ctl' \in Controllers /\ Alike
  BY <1>0, <1>1, Paused DEF Alike, SameSlots
<1>4. Types'
  <2>1. ManagerTypes' /\ scope' \in Scopes
    BY <1>0, <1>1, ScopeStays DEF Types, ManagerTypes
  <2>2. RunTypes' /\ mon' \in [Sessions' -> Monitors']
    BY <1>0, <1>1, <1>2, ScopeStays DEF Types, RunTypes
  <2>3. SteerTypes'
    BY <1>0, <1>1, <1>3, ScopeStays DEF Types, SteerTypes
  <2> QED BY <2>1, <2>2, <2>3 DEF Types
<1>5. Life'
  BY <1>0, <1>1, LifeFrame
<1>6. HandsOK' /\ ChatsOK' /\ ValuesOK'
  BY <1>0, <1>2, <1>3, SteerFrame DEF HandsStay
<1> QED BY <1>4, <1>5, <1>6 DEF Inv

LEMMA StopRunStep ==
    ASSUME Inv, NEW named \in BOOLEAN, stop_run(named), scope' = scope
    PROVE  Inv'
<1>0. /\ Accepts /\ ctl' = request_stop(ctl, session) /\ stopped' = (stopped \/ named)
      /\ UNCHANGED <<active, open, session, process, cleanup, down, starter, closer, child, call, row, mon, relay, reapers, chat, given, asked, used>>
  BY DEF stop_run, manager, runs
<1>1. Types /\ Life /\ ctl \in Controllers
  BY DEF Inv, Types, SteerTypes
<1>2. used' \in [DOMAIN Bounds -> Nat] /\ used'.values = used.values
  BY <1>0, <1>1 DEF Types, RunTypes
<1>3. ctl' \in Controllers /\ Alike
  BY <1>0, <1>1, Accepted, StopRequested DEF Alike
<1>4. Types'
  <2>1. ManagerTypes' /\ scope' \in Scopes
    BY <1>0, <1>1, ScopeStays DEF Types, ManagerTypes
  <2>2. RunTypes' /\ mon' \in [Sessions' -> Monitors']
    BY <1>0, <1>1, <1>2, ScopeStays DEF Types, RunTypes
  <2>3. SteerTypes'
    BY <1>0, <1>1, <1>3, ScopeStays DEF Types, SteerTypes
  <2> QED BY <2>1, <2>2, <2>3 DEF Types
<1>5. Life'
  BY <1>0, <1>1, LifeFrame
<1>6. HandsOK' /\ ChatsOK' /\ ValuesOK'
  BY <1>0, <1>2, <1>3, SteerFrame DEF HandsStay
<1> QED BY <1>4, <1>5, <1>6 DEF Inv

LEMMA PrepareChatStep ==
    ASSUME Inv, NEW w \in Callers, prepare_chat_run(w), scope' = scope
    PROVE  Inv'
<1>0. /\ chat[w].at \in {"idle", "refused", "answered"} /\ Accepts
      /\ chat' = [chat EXCEPT ![w] = [at |-> "prepared", run |-> session, by |-> 0]]
      /\ UNCHANGED <<active, open, session, process, cleanup, down, stopped, ctl, starter, closer, child, call, row,
                     mon, relay, reapers, given, asked, used>>
  BY DEF prepare_chat_run, manager, runs
<1>1. Types /\ Life /\ chat \in [Callers -> Chats] /\ session \in 0..MaxRuns
  BY DEF Inv, Types, SteerTypes, ManagerTypes
<1>2. [at |-> "prepared", run |-> session, by |-> 0] \in Chats
  BY <1>1, ScopeFacts DEF Chats, Types
<1>3. /\ chat' \in [Callers -> Chats] /\ chat'[w].at = "prepared"
      /\ \A v \in Callers \ {w} : chat'[v] = chat[v]
  BY <1>0, <1>1, <1>2
<1>4. Types'
  <2>1. ManagerTypes' /\ scope' \in Scopes
    BY <1>0, <1>1, ScopeStays DEF Types, ManagerTypes
  <2>2. RunTypes' /\ mon' \in [Sessions' -> Monitors']
    BY <1>0, <1>1, ScopeStays DEF Types, RunTypes
  <2>3. SteerTypes'
    BY <1>0, <1>1, <1>3, ScopeStays DEF Types, SteerTypes
  <2> QED BY <2>1, <2>2, <2>3 DEF Types
<1>5. Life'
  BY <1>0, <1>1, LifeFrame
<1>6. HandsOK'
  BY <1>0, HandsFrame DEF HandsStay, Inv
<1>7. ChatsOK'
  <2>0. Callers' = Callers /\ Sessions' = Sessions
    BY ScopeStays
  <2>1. QueuesOK' /\ ReservedOK'
    BY <1>0, <2>0 DEF Inv, ChatsOK, QueuesOK, ReservedOK
  <2>2. {v \in Callers : chat'[v].at = "waiting"} = {v \in Callers : chat[v].at = "waiting"}
    BY <1>0, <1>3
  <2>3. WaitingIsHeld'
    BY <1>0, <2>0, <2>2 DEF Inv, ChatsOK, WaitingIsHeld
  <2>4. AnsweredByItsRun'
    BY <1>3, <2>0 DEF Inv, ChatsOK, AnsweredByItsRun
  <2>5. \A v \in Callers : chat'[v].at = "waiting" => chat'[v].run = session
    BY <1>3 DEF Inv, ChatsOK
  <2> QED BY <1>0, <2>0, <2>1, <2>3, <2>4, <2>5 DEF ChatsOK
<1>8. ValuesOK'
  BY <1>0, ValuesUntouched DEF Inv
<1> QED BY <1>4, <1>5, <1>6, <1>7, <1>8 DEF Inv

LEMMA ChatRunStep ==
    ASSUME Inv, NEW w \in Callers, chat_run(w), scope' = scope
    PROVE  Inv'
<1>0. /\ chat[w].at = "prepared"
      /\ \/ /\ Accepts /\ chat[w].run = session
            /\ ctl' = admit_chat(ctl, w) /\ chat' = [chat EXCEPT ![w].at = "waiting"]
         \/ ctl' = ctl /\ chat' = [chat EXCEPT ![w].at = "refused"]
      /\ UNCHANGED <<active, open, session, process, cleanup, down, stopped, starter, closer, child, call, row,
                     mon, relay, reapers, given, asked, used>>
  BY DEF chat_run, manager, runs
<1>1. /\ Types /\ Life /\ chat \in [Callers -> Chats] /\ ctl \in Controllers /\ scope \in Scopes
      /\ ctl.pending \in Seq(Callers) /\ ctl.inflight \in Seq(Callers) /\ w # None
  BY Controlled, ScopeFacts DEF Inv, Types, SteerTypes
<1>2. /\ chat' \in [Callers -> Chats] /\ chat'[w].at \in {"waiting", "refused"} /\ chat'[w].run = chat[w].run
      /\ \A v \in Callers \ {w} : chat'[v] = chat[v]
  BY <1>0, <1>1 DEF Chats
<1>3. /\ ctl' \in Controllers /\ SameSlots(ctl, ctl') /\ ctl'.inflight = ctl.inflight /\ ctl'.reserved = ctl.reserved
      /\ ctl'.answering = ctl.answering
  <2>1. CASE ctl' = admit_chat(ctl, w)
    BY <1>1, <2>1, ChatMethods
  <2>2. CASE ctl' = ctl
    BY <1>1, <2>2 DEF SameSlots
  <2> QED BY <1>0, <2>1, <2>2
<1>4. Types'
  <2>1. ManagerTypes' /\ scope' \in Scopes
    BY <1>0, <1>1, ScopeStays DEF Types, ManagerTypes
  <2>2. RunTypes' /\ mon' \in [Sessions' -> Monitors']
    BY <1>0, <1>1, ScopeStays DEF Types, RunTypes
  <2>3. SteerTypes'
    BY <1>0, <1>1, <1>2, <1>3, ScopeStays DEF Types, SteerTypes
  <2> QED BY <2>1, <2>2, <2>3 DEF Types
<1>5. Life'
  BY <1>0, <1>1, LifeFrame
<1>6. HandsOK'
  BY <1>0, HandsFrame DEF HandsStay, Inv
<1>7. ChatsOK'
  <2>0. Callers' = Callers /\ Sessions' = Sessions
    BY ScopeStays
  <2>1. w \notin Waiters(ctl)
    BY <1>0 DEF Inv, ChatsOK, WaitingIsHeld
  <2>2. Waiters(ctl) = Elems(ctl.pending) \cup Elems(ctl.inflight) \cup (IF ctl.reserved = None THEN {} ELSE {ctl.reserved})
    BY <1>1, WaitersAre
  <2>3. AnsweredByItsRun'
    BY <1>0, <1>2, <2>0 DEF Inv, ChatsOK, AnsweredByItsRun
  <2>4. CASE /\ Accepts /\ chat[w].run = session
             /\ ctl' = admit_chat(ctl, w) /\ chat' = [chat EXCEPT ![w].at = "waiting"]
    <3>1. ctl'.pending = Append(ctl.pending, w) /\ active /\ open
      BY <1>1, <2>4, Accepted, ChatMethods
    <3>2. ctl'.pending \in Seq(Callers) /\ Elems(ctl'.pending) = Elems(ctl.pending) \cup {w} /\ Once(ctl'.pending)
      BY <1>1, <2>1, <2>2, <3>1, AppendQueue DEF Inv, ChatsOK, QueuesOK
    <3>3. QueuesOK'
      BY <1>1, <1>3, <2>1, <2>2, <3>2 DEF Inv, ChatsOK, QueuesOK
    <3>4. ReservedOK'
      BY <1>0, <1>3, <2>0 DEF Inv, ChatsOK, ReservedOK
    <3>5. Waiters(ctl') = Waiters(ctl) \cup {w}
      BY <1>1, <1>3, <2>2, <3>2, WaitersAre
    <3>6. chat'[w].at = "waiting"
      BY <1>1, <2>4 DEF Chats
    <3>7. {v \in Callers : chat'[v].at = "waiting"} = Waiters(ctl')
      BY <1>2, <3>5, <3>6 DEF Inv, ChatsOK, WaitingIsHeld
    <3>8. WaitingIsHeld'
      BY <1>0, <2>0, <3>1, <3>7 DEF WaitingIsHeld
    <3>9. \A v \in Callers : chat'[v].at = "waiting" => chat'[v].run = session
      BY <1>2, <2>4 DEF Inv, ChatsOK
    <3> QED BY <1>0, <2>0, <2>3, <3>3, <3>4, <3>8, <3>9 DEF ChatsOK
  <2>5. CASE ctl' = ctl /\ chat' = [chat EXCEPT ![w].at = "refused"]
    <3>1. chat'[w].at = "refused"
      BY <1>1, <2>5 DEF Chats
    <3>2. QueuesOK' /\ ReservedOK'
      BY <1>0, <2>0, <2>5 DEF Inv, ChatsOK, QueuesOK, ReservedOK
    <3>3. {v \in Callers : chat'[v].at = "waiting"} = {v \in Callers : chat[v].at = "waiting"}
      BY <1>0, <1>2, <3>1
    <3>4. WaitingIsHeld'
      BY <1>0, <2>0, <2>5, <3>3 DEF Inv, ChatsOK, WaitingIsHeld
    <3>5. \A v \in Callers : chat'[v].at = "waiting" => chat'[v].run = session
      BY <1>2, <3>1 DEF Inv, ChatsOK
    <3> QED BY <1>0, <2>0, <2>3, <3>2, <3>4, <3>5 DEF ChatsOK
  <2> QED BY <1>0, <2>4, <2>5
<1>8. ValuesOK'
  BY <1>0, <1>3, ValuesUntouched DEF Inv, SameSlots
<1> QED BY <1>4, <1>5, <1>6, <1>7, <1>8 DEF Inv

(* A new value is none of those that were put before.                      *)
LEMMA PutStep ==
    ASSUME Inv, NEW k \in Slots, Put(k), scope' = scope
    PROVE  Inv'
<1>p. PICK v : v = [run |-> session, n |-> used.values + 1]
  OBVIOUS
<1>0. /\ Accepts /\ Spend("values") /\ ctl' = put_value(ctl, k, v) /\ asked' = [asked EXCEPT ![k] = v]
      /\ UNCHANGED <<active, open, session, process, cleanup, down, stopped, starter, closer, child, call, row,
                     mon, relay, reapers, chat, given>>
  BY <1>p DEF Put, manager, runs
<1>1. /\ Types /\ Life /\ ctl \in Controllers /\ scope \in Scopes /\ session \in Sessions /\ open
      /\ asked \in [Slots -> Values \cup {None}] /\ given \in Seq(Values)
  BY <1>0, Accepted DEF Inv, Types, SteerTypes
<1>2. /\ used.values \in Nat /\ used.values < Bounds.values /\ Bounds.values \in Nat
      /\ used' \in [DOMAIN Bounds -> Nat] /\ used'.values = used.values + 1
  <2>1. DOMAIN Bounds = Names /\ used \in [Names -> Nat] /\ Bounds.values \in Nat
    BY <1>1, ScopeFacts DEF Types, RunTypes
  <2>2. used' \in [DOMAIN Bounds -> Nat]
    BY <1>0, <1>1, Spends DEF Names
  <2> QED BY <1>0, <2>1, <2>2 DEF Spend, Names
<1>3. v \in Values /\ v.run = session /\ v.n = used.values + 1
  BY <1>1, <1>2, <1>p DEF Values
<1>4. /\ ctl' \in Controllers /\ ctl'.stop = ctl.stop /\ SameChats(ctl, ctl')
      /\ ctl'.slot[k].value = v /\ \A l \in Slots \ {k} : ctl'.slot[l] = ctl.slot[l]
      /\ ctl'.slot[k].reserved # None => ctl'.slot[k].reserved.moved = TRUE
  <2>1. LET d == put_value(ctl, k, v) IN
        /\ d \in Controllers /\ d.stop = ctl.stop /\ SameChats(ctl, d)
        /\ d.slot[k].value = v /\ \A l \in Slots \ {k} : d.slot[l] = ctl.slot[l]
        /\ d.slot[k].reserved # None => d.slot[k].reserved.moved = TRUE
    BY <1>1, <1>3, PutValue
  <2> QED BY <1>0, <2>1
<1>5. Types'
  <2>1. ManagerTypes' /\ scope' \in Scopes
    BY <1>0, <1>1, ScopeStays DEF Types, ManagerTypes
  <2>2. RunTypes' /\ mon' \in [Sessions' -> Monitors']
    BY <1>0, <1>1, <1>2, ScopeStays DEF Types, RunTypes
  <2>3. SteerTypes'
    BY <1>0, <1>1, <1>3, <1>4, ScopeStays DEF Types, SteerTypes
  <2> QED BY <2>1, <2>2, <2>3 DEF Types
<1>6. Life'
  BY <1>0, <1>1, LifeFrame
<1>7. HandsOK'
  BY <1>0, HandsFrame DEF HandsStay, Inv
<1>8. ChatsOK'
  <2>0. Callers' = Callers /\ Sessions' = Sessions
    BY ScopeStays
  <2>1. QueuesOK' /\ ReservedOK'
    BY <1>0, <1>4, <2>0 DEF Inv, ChatsOK, QueuesOK, ReservedOK, SameChats
  <2>2. Waiters(ctl') = Waiters(ctl)
    BY <1>4 DEF Waiters, SameChats
  <2>3. WaitingIsHeld' /\ AnsweredByItsRun'
    BY <1>0, <2>0, <2>2 DEF Inv, ChatsOK, WaitingIsHeld, AnsweredByItsRun
  <2> QED BY <1>0, <2>0, <2>1, <2>3 DEF Inv, ChatsOK
<1>9. ValuesOK'
  <2>0. Sessions' = Sessions /\ Given' = Given
    BY <1>0, ScopeStays DEF Given
  <2>1. \A x \in Values : Mine(x) => x # v /\ Mine(x)'
    <3>1. \A x \in Values : x.n \in Nat
      BY <1>2 DEF Values
    <3> QED BY <1>0, <1>2, <1>3, <3>1 DEF Mine
  <2>2. Mine(v)'
    BY <1>0, <1>2, <1>3 DEF Mine
  <2>3. \A l \in Slots \ {k} : ctl'.slot[l] = ctl.slot[l] /\ ctl.slot[l].value \in Values \cup {None} /\ Unmoved(l)' = Unmoved(l)
    BY <1>0, <1>1, <1>4, Controlled DEF Unmoved, IsReserved
  <2>4. \A l \in Slots : ctl.slot[l].value # None => Mine(ctl.slot[l].value)
    BY DEF Inv, ValuesOK, SlotsOK
  <2>5. SlotsOK'
    <3>1. ASSUME NEW l \in Slots, ctl'.slot[l].value # None PROVE Mine(ctl.slot[l].value)'
      BY <1>4, <2>1, <2>2, <2>3, <2>4, <3>1
    <3>2. ASSUME NEW l \in Slots, NEW m \in Slots, l # m, ctl'.slot[l].value = ctl'.slot[m].value PROVE ctl'.slot[l].value = None
      <4>1. CASE l # k /\ m # k
        BY <2>3, <3>2, <4>1 DEF Inv, ValuesOK, SlotsOK
      <4>2. CASE l = k
        BY <1>4, <2>1, <2>3, <2>4, <3>2, <4>2
      <4>3. CASE m = k
        BY <1>4, <2>1, <2>3, <2>4, <3>2, <4>3
      <4> QED BY <4>1, <4>2, <4>3
    <3> QED BY <3>1, <3>2 DEF SlotsOK
  <2>6. Given \subseteq Values
    BY <1>1 DEF Given
  <2>7. v \notin Given /\ GivenOK'
    BY <1>0, <1>4, <2>0, <2>1, <2>6 DEF Inv, ValuesOK, GivenOK
  <2>8. GoneOK'
    BY <1>0, <1>4, <2>0, <2>3, <2>7 DEF Inv, ValuesOK, GoneOK
  <2>9. ASSUME Holding(mon[session]) PROVE HeldOK(mon[session])'
    <3> DEFINE a == mon[session].held
    <3>0. mon'[session'] = mon[session] /\ HeldOK(mon[session])
      BY <1>0, <1>1, <2>9 DEF Inv, ValuesOK
    <3>1. a.call \in Slots => a.value \in Values \cup {None}
      BY <1>1, <2>9 DEF Inv, HandsOK, HandOK
    <3>2. ASSUME a.call \in Slots PROVE a.value # None => Mine(a.value)' /\ a.value # v
      BY <2>1, <3>0, <3>1, <3>2 DEF HeldOK
    <3>3. ASSUME a.call \in Slots, NEW l \in Slots, a.value # None, ctl'.slot[l].value = a.value PROVE l = a.call /\ Unmoved(l)'
      BY <1>4, <2>3, <3>0, <3>2, <3>3 DEF HeldOK
    <3>4. ASSUME a.call \in Slots, Unmoved(a.call)' PROVE ctl'.slot[a.call].value = a.value
      <4>1. a.call # k
        BY <1>4, <3>0, <3>4 DEF Unmoved, IsReserved
      <4> QED BY <2>3, <3>0, <3>4, <4>1 DEF HeldOK
    <3>5. a.call \in Slots /\ a.value # None => (a.value \in Given <=> mon[session].at = "sent")
      BY <3>0 DEF HeldOK
    <3> QED BY <2>0, <3>0, <3>2, <3>3, <3>4, <3>5 DEF HeldOK
  <2>10. NoValueLost'
    <3>1. ASSUME NEW l \in Slots PROVE asked'[l] \in {None, ctl'.slot[l].value} \cup {given[i] : i \in 1..Len(given)}
      <4>1. CASE l = k
        BY <1>0, <1>1, <1>4, <4>1
      <4>2. CASE l # k
        BY <1>0, <1>1, <2>3, <4>2 DEF Inv, ValuesOK, NoValueLost
      <4> QED BY <4>1, <4>2
    <3> QED BY <1>0, <3>1 DEF NoValueLost
  <2> QED BY <1>0, <1>1, <2>0, <2>5, <2>7, <2>8, <2>9, <2>10 DEF ValuesOK
<1> QED BY <1>5, <1>6, <1>7, <1>8, <1>9 DEF Inv

-----------------------------------------------------------------------------
(* The monitor watches and leaves.                                         *)
LEMMA MonitorTypes ==
    ASSUME Types, NEW s \in Sessions
    PROVE  /\ mon[s] \in Monitors /\ mon \in [Sessions -> Monitors] /\ child[s] \in {"none", "running", "exited", "reaped", "closed"}
           /\ relay[s] \in {"off", "on", "blocked", "done"}
BY DEF Types, RunTypes

LEMMA SeeResultStep ==
    ASSUME Inv, NEW s \in Sessions, SeeResult(s), scope' = scope
    PROVE  Inv'
<1>0. /\ CloseFor(s) /\ UNCHANGED <<active, session, process, cleanup, down, stopped, starter, closer, child, call, row, mon, relay, reapers, given, used>>
  BY DEF SeeResult, runs
<1>1. Types /\ Life
  BY DEF Inv
<1>2. mon' \in [Sessions -> Monitors] /\ used' \in [DOMAIN Bounds -> Nat] /\ used'.values = used.values
  BY <1>0, <1>1 DEF Types, RunTypes
<1>3. CloseNow \/ Kept
  BY <1>0, ClosesFor
<1>4. Types'
  <2>0. open' \in BOOLEAN /\ ctl' \in Controllers /\ chat' \in [Callers -> Chats] /\ asked' \in [Slots -> Values \cup {None}]
    BY <1>1, <1>3, MayClose
  <2>1. ManagerTypes' /\ scope' \in Scopes
    BY <1>0, <1>1, <2>0, ScopeStays DEF Types, ManagerTypes
  <2>2. RunTypes' /\ mon' \in [Sessions' -> Monitors']
    BY <1>0, <1>1, <1>2, ScopeStays DEF Types, RunTypes
  <2>3. SteerTypes'
    BY <1>0, <1>1, <2>0, ScopeStays DEF Types, SteerTypes
  <2> QED BY <2>1, <2>2, <2>3 DEF Types
<1>5. Life'
  BY <1>0, <1>1, LifeFrame
<1>6. HandsOK' /\ ChatsOK' /\ ValuesOK'
  <2>1. HandsStay
    BY <1>0, <1>2 DEF HandsStay, Holding
  <2>2. CloseNow \/ (Alike /\ active' = active)
    BY <1>0, <1>3, KeptAlike
  <2> QED BY <1>0, <1>2, <2>1, <2>2, SteerFrame
<1> QED BY <1>4, <1>5, <1>6 DEF Inv

LEMMA SeeExitStep ==
    ASSUME Inv, NEW s \in Sessions, SeeExit(s), scope' = scope
    PROVE  Inv'
<1>0. /\ mon[s].at = "watch" /\ mon' = [mon EXCEPT ![s].exited = TRUE] /\ CloseFor(s)
      /\ UNCHANGED <<active, session, process, cleanup, down, stopped, starter, closer, child, call, row, relay, reapers, given, used>>
  BY DEF SeeExit, runs
<1>1. Types /\ Life
  BY DEF Inv
<1>2. /\ mon' \in [Sessions -> Monitors] /\ \A t \in Sessions \ {s} : mon'[t] = mon[t]
      /\ mon'[s].at = "watch" /\ mon'[s].reaped = mon[s].reaped /\ mon'[s].quiet = mon[s].quiet
      /\ used' \in [DOMAIN Bounds -> Nat] /\ used'.values = used.values
  <2>1. /\ mon' \in [Sessions -> Monitors] /\ \A t \in Sessions \ {s} : mon'[t] = mon[t]
        /\ mon'[s].at = "watch" /\ mon'[s].reaped = mon[s].reaped /\ mon'[s].quiet = mon[s].quiet
    BY <1>0, <1>1, MonitorTypes DEF Monitors, Monitor
  <2>2. used' \in [DOMAIN Bounds -> Nat] /\ used'.values = used.values
    BY <1>0, <1>1 DEF Types, RunTypes
  <2> QED BY <2>1, <2>2
<1>3. CloseNow \/ Kept
  BY <1>0, ClosesFor
<1>4. Types'
  <2>0. open' \in BOOLEAN /\ ctl' \in Controllers /\ chat' \in [Callers -> Chats] /\ asked' \in [Slots -> Values \cup {None}]
    BY <1>1, <1>3, MayClose
  <2>1. ManagerTypes' /\ scope' \in Scopes
    BY <1>0, <1>1, <2>0, ScopeStays DEF Types, ManagerTypes
  <2>2. RunTypes' /\ mon' \in [Sessions' -> Monitors']
    BY <1>0, <1>1, <1>2, ScopeStays DEF Types, RunTypes
  <2>3. SteerTypes'
    BY <1>0, <1>1, <2>0, ScopeStays DEF Types, SteerTypes
  <2> QED BY <2>1, <2>2, <2>3 DEF Types
<1>5. Life'
  BY <1>0, <1>1, <1>2, LifeFrame
<1>6. HandsOK' /\ ChatsOK' /\ ValuesOK'
  <2>1. HandsStay
    BY <1>0, <1>2 DEF HandsStay, Holding
  <2>2. CloseNow \/ (Alike /\ active' = active)
    BY <1>0, <1>3, KeptAlike
  <2> QED BY <1>0, <1>2, <2>1, <2>2, SteerFrame
<1> QED BY <1>4, <1>5, <1>6 DEF Inv

LEMMA FailStep ==
    ASSUME Inv, NEW s \in Sessions, Fail(s), scope' = scope
    PROVE  Inv'
<1>0. /\ mon[s].at = "watch" /\ Monitor(s, "leaving") /\ (used' = used \/ Spend("errors")) /\ Kept
      /\ UNCHANGED <<active, session, process, cleanup, down, stopped, starter, closer, child, call, row, relay, reapers, given>>
  BY DEF Fail, runs, manager, Kept
<1>1. Types /\ Life
  BY DEF Inv
<1>2. /\ mon' \in [Sessions -> Monitors] /\ \A t \in Sessions \ {s} : mon'[t] = mon[t]
      /\ mon'[s].at = "leaving" /\ mon'[s].reaped = mon[s].reaped /\ mon'[s].quiet = mon[s].quiet
      /\ used' \in [DOMAIN Bounds -> Nat] /\ used'.values = used.values
  <2>1. /\ mon' \in [Sessions -> Monitors] /\ \A t \in Sessions \ {s} : mon'[t] = mon[t]
        /\ mon'[s].at = "leaving" /\ mon'[s].reaped = mon[s].reaped /\ mon'[s].quiet = mon[s].quiet
    BY <1>0, <1>1, MonitorTypes DEF Monitors, Monitor
  <2>2. used' \in [DOMAIN Bounds -> Nat] /\ used'.values = used.values
    BY <1>0, <1>1, Spends DEF Names, Types, RunTypes
  <2> QED BY <2>1, <2>2
<1>3. CloseNow \/ Kept
  BY <1>0
<1>4. Types'
  <2>0. open' \in BOOLEAN /\ ctl' \in Controllers /\ chat' \in [Callers -> Chats] /\ asked' \in [Slots -> Values \cup {None}]
    BY <1>1, <1>3, MayClose
  <2>1. ManagerTypes' /\ scope' \in Scopes
    BY <1>0, <1>1, <2>0, ScopeStays DEF Types, ManagerTypes
  <2>2. RunTypes' /\ mon' \in [Sessions' -> Monitors']
    BY <1>0, <1>1, <1>2, ScopeStays DEF Types, RunTypes
  <2>3. SteerTypes'
    BY <1>0, <1>1, <2>0, ScopeStays DEF Types, SteerTypes
  <2> QED BY <2>1, <2>2, <2>3 DEF Types
<1>5. Life'
  BY <1>0, <1>1, <1>2, LifeFrame DEF Serving
<1>6. HandsOK' /\ ChatsOK' /\ ValuesOK'
  <2>1. HandsStay
    BY <1>0, <1>2 DEF HandsStay, Holding
  <2>2. CloseNow \/ (Alike /\ active' = active)
    BY <1>0, <1>3, KeptAlike
  <2> QED BY <1>0, <1>2, <2>1, <2>2, SteerFrame
<1> QED BY <1>4, <1>5, <1>6 DEF Inv

LEMMA LeaveLife ==
    ASSUME Types, Life, NEW s \in Sessions, mon[s].at = "leaving", mon'[s].at = "cleaning",
           mon'[s].quiet = (relay[s] = "on"), mon'[s].reaped = mon[s].reaped, \A t \in Sessions \ {s} : mon'[t] = mon[t],
           relay' = [relay EXCEPT ![s] = IF @ = "on" THEN "done" ELSE @],
           UNCHANGED <<active, session, process, starter, closer, down, child, row, reapers, scope>>
    PROVE  Life'
<1>0. Sessions' = Sessions /\ MaxRuns \in Nat /\ Sessions = 1..MaxRuns /\ session \in 0..MaxRuns
  BY ScopeStays, ScopeFacts DEF Types, ManagerTypes
<1>a. \A t \in Sessions : relay'[t] = IF t = s /\ relay[t] = "on" THEN "done" ELSE relay[t]
  BY DEF Types, RunTypes
<1>1. ManagerOK'
  BY <1>0, <1>a DEF Life, ManagerOK
<1>2. StarterOK'
  BY <1>0, <1>a DEF Life, StarterOK, Types, RunTypes
<1>3. CloserOK'
  BY <1>0, <1>a DEF Life, CloserOK, Types, ManagerTypes
<1>4. ASSUME NEW t \in Sessions PROVE LifeAt(t)'
  <2>0. LifeAt(t)
    BY DEF Life
  <2>1. FutureOK(t)'
    BY <1>0, <1>a, <2>0 DEF LifeAt, FutureOK, Types, RunTypes
  <2>2. ChildOK(t)'
    BY <1>0, <1>a, <2>0 DEF LifeAt, ChildOK, Types, RunTypes
  <2>3. MonitorOK(t)'
    BY <1>0, <1>a, <2>0 DEF LifeAt, MonitorOK, Live, Types, RunTypes
  <2>4. RelayOK(t)'
    BY <1>0, <1>a, <2>0 DEF LifeAt, RelayOK, Types, RunTypes
  <2> QED BY <2>1, <2>2, <2>3, <2>4 DEF LifeAt
<1> QED BY <1>0, <1>1, <1>2, <1>3, <1>4 DEF Life

LEMMA LeaveStep ==
    ASSUME Inv, NEW s \in Sessions, Leave(s), scope' = scope
    PROVE  Inv'
<1>0. /\ mon[s].at = "leaving" /\ CloseFor(s)
      /\ mon' = [mon EXCEPT ![s].at = "cleaning", ![s].quiet = relay[s] = "on"]
      /\ relay' = [relay EXCEPT ![s] = IF @ = "on" THEN "done" ELSE @]
      /\ UNCHANGED <<active, session, process, cleanup, down, stopped, starter, closer, child, call, row, reapers, given, used>>
  BY DEF Leave, runs
<1>1. Types /\ Life
  BY DEF Inv
<1>2. /\ mon' \in [Sessions -> Monitors] /\ \A t \in Sessions \ {s} : mon'[t] = mon[t]
      /\ mon'[s].at = "cleaning" /\ mon'[s].reaped = mon[s].reaped /\ mon'[s].quiet = (relay[s] = "on")
      /\ used' \in [DOMAIN Bounds -> Nat] /\ used'.values = used.values
  <2>1. /\ mon' \in [Sessions -> Monitors] /\ \A t \in Sessions \ {s} : mon'[t] = mon[t]
        /\ mon'[s].at = "cleaning" /\ mon'[s].reaped = mon[s].reaped /\ mon'[s].quiet = (relay[s] = "on")
    BY <1>0, <1>1, MonitorTypes DEF Monitors, Monitor
  <2>2. used' \in [DOMAIN Bounds -> Nat] /\ used'.values = used.values
    BY <1>0, <1>1 DEF Types, RunTypes
  <2> QED BY <2>1, <2>2
<1>3. CloseNow \/ Kept
  BY <1>0, ClosesFor
<1>4. Types'
  <2>0. open' \in BOOLEAN /\ ctl' \in Controllers /\ chat' \in [Callers -> Chats] /\ asked' \in [Slots -> Values \cup {None}]
    BY <1>1, <1>3, MayClose
  <2>1. ManagerTypes' /\ scope' \in Scopes
    BY <1>0, <1>1, <2>0, ScopeStays DEF Types, ManagerTypes
  <2>2. RunTypes' /\ mon' \in [Sessions' -> Monitors']
    BY <1>0, <1>1, <1>2, ScopeStays DEF Types, RunTypes
  <2>3. SteerTypes'
    BY <1>0, <1>1, <2>0, ScopeStays DEF Types, SteerTypes
  <2> QED BY <2>1, <2>2, <2>3 DEF Types
<1>5. Life'
  BY <1>0, <1>1, <1>2, LeaveLife
<1>6. HandsOK' /\ ChatsOK' /\ ValuesOK'
  <2>1. HandsStay
    BY <1>0, <1>2 DEF HandsStay, Holding
  <2>2. CloseNow \/ (Alike /\ active' = active)
    BY <1>0, <1>3, KeptAlike
  <2> QED BY <1>0, <1>2, <2>1, <2>2, SteerFrame
<1> QED BY <1>4, <1>5, <1>6 DEF Inv

LEMMA ReapLife ==
    ASSUME Types, Life, NEW s \in Sessions, mon[s].at = "watch", mon'[s].at = "leaving",
           mon'[s].quiet = mon[s].quiet, \A t \in Sessions \ {s} : mon'[t] = mon[t],
           NEW k \in BOOLEAN, NEW c,
           k => c \in {"reaped", "closed"}, ~k => c = child[s],
           mon'[s].reaped = k, child' = [child EXCEPT ![s] = c],
           UNCHANGED <<active, session, process, starter, closer, down, row, relay, reapers, scope>>
    PROVE  Life'
<1>0. Sessions' = Sessions /\ MaxRuns \in Nat /\ Sessions = 1..MaxRuns /\ session \in 0..MaxRuns
  BY ScopeStays, ScopeFacts DEF Types, ManagerTypes
<1>a. \A t \in Sessions : child'[t] = IF t = s THEN c ELSE child[t]
  BY DEF Types, RunTypes
<1>b. session = s /\ ~mon[s].reaped /\ child[s] # "reaped"
  BY DEF Life, LifeAt, ChildOK, MonitorOK, Live
<1>1. ManagerOK'
  BY <1>0, <1>a, <1>b DEF Life, ManagerOK
<1>2. StarterOK'
  BY <1>0, <1>a, <1>b DEF Life, StarterOK, Types, RunTypes
<1>3. CloserOK'
  BY <1>0, <1>a, <1>b DEF Life, CloserOK, Types, ManagerTypes
<1>4. ASSUME NEW t \in Sessions PROVE LifeAt(t)'
  <2>0. LifeAt(t)
    BY DEF Life
  <2>1. FutureOK(t)'
    BY <1>0, <1>a, <1>b, <2>0 DEF LifeAt, FutureOK, Types, RunTypes
  <2>2. ChildOK(t)'
    BY <1>0, <1>a, <1>b, <2>0 DEF LifeAt, ChildOK, Types, RunTypes
  <2>3. MonitorOK(t)'
    BY <1>0, <1>a, <1>b, <2>0 DEF LifeAt, MonitorOK, Live, Types, RunTypes
  <2>4. RelayOK(t)'
    BY <1>0, <1>a, <1>b, <2>0 DEF LifeAt, RelayOK, Types, RunTypes
  <2> QED BY <2>1, <2>2, <2>3, <2>4 DEF LifeAt
<1> QED BY <1>0, <1>1, <1>2, <1>3, <1>4 DEF Life

LEMMA ReapStep ==
    ASSUME Inv, NEW s \in Sessions, Reap(s), scope' = scope
    PROVE  Inv'
<1>p. PICK o \in Outcomes(s) :
         /\ Terminated(s, o)
         /\ child' = [child EXCEPT ![s] = o.child]
         /\ mon' = [mon EXCEPT ![s].at = "leaving", ![s].reaped = o.ok]
  BY DEF Reap
<1>0. /\ mon[s].at = "watch" /\ Kept
      /\ UNCHANGED <<active, session, process, cleanup, down, stopped, starter, closer, call, row, relay, reapers, given>>
  BY DEF Reap, manager, Kept
<1>1. Types /\ Life
  BY DEF Inv
<1>k. /\ o.ok \in BOOLEAN /\ o.child \in {"none", "running", "exited", "reaped", "closed"}
      /\ o.ok => o.child \in {"reaped", "closed"}
      /\ ~o.ok => o.child = child[s]
      /\ used' \in [DOMAIN Bounds -> Nat] /\ used'.values = used.values
  BY <1>1, <1>p, Kills, MonitorTypes
<1>2. /\ mon' \in [Sessions -> Monitors] /\ \A t \in Sessions \ {s} : mon'[t] = mon[t]
      /\ mon'[s].at = "leaving" /\ mon'[s].reaped = o.ok /\ mon'[s].quiet = mon[s].quiet
      /\ used' \in [DOMAIN Bounds -> Nat] /\ used'.values = used.values
  <2>1. /\ mon' \in [Sessions -> Monitors] /\ \A t \in Sessions \ {s} : mon'[t] = mon[t]
        /\ mon'[s].at = "leaving" /\ mon'[s].reaped = o.ok /\ mon'[s].quiet = mon[s].quiet
    BY <1>p, <1>1, <1>k, MonitorTypes DEF Monitors
  <2> QED BY <1>k, <2>1
<1>3. CloseNow \/ Kept
  BY <1>0
<1>4. Types'
  <2>0. open' \in BOOLEAN /\ ctl' \in Controllers /\ chat' \in [Callers -> Chats] /\ asked' \in [Slots -> Values \cup {None}]
    BY <1>1, <1>3, MayClose
  <2>1. ManagerTypes' /\ scope' \in Scopes
    BY <1>0, <1>1, <2>0, ScopeStays DEF Types, ManagerTypes
  <2>2. RunTypes' /\ mon' \in [Sessions' -> Monitors']
    BY <1>0, <1>1, <1>2, <1>p, <1>k, ScopeStays DEF Types, RunTypes
  <2>3. SteerTypes'
    BY <1>0, <1>1, <2>0, ScopeStays DEF Types, SteerTypes
  <2> QED BY <2>1, <2>2, <2>3 DEF Types
<1>5. Life'
  BY <1>0, <1>1, <1>2, <1>p, <1>k, ReapLife
<1>6. HandsOK' /\ ChatsOK' /\ ValuesOK'
  <2>1. HandsStay
    BY <1>0, <1>2 DEF HandsStay, Holding
  <2>2. CloseNow \/ (Alike /\ active' = active)
    BY <1>0, <1>3, KeptAlike
  <2> QED BY <1>0, <1>2, <2>1, <2>2, SteerFrame
<1> QED BY <1>4, <1>5, <1>6 DEF Inv

LEMMA CleanupStep ==
    ASSUME Inv, NEW s \in Sessions, Cleanup(s), scope' = scope
    PROVE  Inv'
<1>0. mon[s].at = "cleaning" /\ Monitor(s, "done") /\ UNCHANGED <<session, down, starter, closer, call, relay, given>>
  BY DEF Cleanup
<1>1. Types /\ Life /\ ManagerOK
  BY DEF Inv, Life
<1>2. PICK o \in IF mon[s].reaped THEN {[ok |-> TRUE, child |-> child[s]]} ELSE Outcomes(s) :
         /\ Terminated(s, o)
         /\ IF o.ok
            THEN /\ row' = Repaired(s)
                 /\ IF mon[s].quiet
                    THEN Finalize(s, [kind |-> "monitor", run |-> s]) /\ UNCHANGED reapers
                    ELSE RetainRelay(s) /\ child' = [child EXCEPT ![s] = o.child]
            ELSE Retain(s) /\ UNCHANGED <<row, child>>
  BY DEF Cleanup
<1>3. /\ session = s /\ starter # "reserved" /\ s <= session
      /\ child[s] = "reaped" => mon[s].reaped
      /\ mon[s].reaped => child[s] \in {"reaped", "closed"}
      /\ mon[s].quiet => relay[s] = "done"
  <2>1. LifeAt(s) /\ s \in Nat
    BY <1>1, ScopeFacts DEF Life, Types
  <2>2. session = s
    BY <1>0, <2>1 DEF LifeAt, MonitorOK, Live
  <2>3. starter # "reserved"
    BY <1>0, <1>1, <2>2 DEF Life, StarterOK
  <2> QED BY <1>0, <2>1, <2>2, <2>3 DEF LifeAt, ChildOK, RelayOK
<1>4. /\ used' \in [DOMAIN Bounds -> Nat] /\ used'.values = used.values
      /\ o.ok \in BOOLEAN /\ (o.ok => o.child \in {"reaped", "closed"})
      /\ ~o.ok => scope.MaxKillFailures # 0
  <2>1. CASE mon[s].reaped
    <3>1. o.ok = TRUE /\ o.child = child[s]
      BY <1>2, <2>1
    <3>2. used' = used
      BY <1>2, <3>1 DEF Terminated
    <3> QED BY <1>1, <1>3, <2>1, <3>1, <3>2 DEF Types, RunTypes
  <2>2. CASE ~mon[s].reaped
    BY <1>1, <1>2, <1>3, <2>2, Kills
  <2> QED BY <1>1, <2>1, <2>2, MonitorTypes DEF Monitors
<1>5. /\ mon' \in [Sessions -> Monitors] /\ \A t \in Sessions \ {s} : mon'[t] = mon[t]
      /\ mon'[s].at = "done" /\ mon'[s].reaped = mon[s].reaped /\ mon'[s].quiet = mon[s].quiet
  BY <1>0, <1>1, Goes
<1>6. Retires(s) /\ ClosesDown /\ HandsStay /\ ~Live(mon'[s])
  BY <1>0, <1>5 DEF Retires, ClosesDown, HandsStay, Holding, Live
<1>7. o.ok => /\ row' \in [Sessions -> {None, "running", "ended", "failed"}]
              /\ \A t \in Sessions : row'[t] = "running" => t # s /\ row[t] = "running"
  BY <1>1, <1>2, Repairs
<1>8. CASE o.ok /\ mon[s].quiet
  <2>1. child' = [child EXCEPT ![s] = "closed"] /\ Releases /\ reapers' = reapers
    BY <1>1, <1>2, <1>3, <1>8, Finalizes
  <2>2. Types'
    BY <1>0, <1>1, <1>4, <1>5, <1>7, <1>8, <2>1, TakeDownTypes DEF Releases, Types, RunTypes
  <2>3. Life'
    BY <1>0, <1>1, <1>3, <1>6, <1>7, <1>8, <2>1, LifeReleased DEF Releases
  <2>4. HandsOK' /\ ChatsOK' /\ ValuesOK'
    BY <1>0, <1>4, <1>6, <2>1, SteerFrame DEF Releases
  <2> QED BY <2>2, <2>3, <2>4 DEF Inv
<1>9. CASE o.ok /\ ~mon[s].quiet
  <2>1. /\ Kept /\ UNCHANGED <<active, stopped>> /\ child' = [child EXCEPT ![s] = o.child]
        /\ reapers' = [reapers EXCEPT ![s] = @ \cup {"relay"}]
        /\ process' \in {process, None} /\ cleanup' \in {cleanup, [kind |-> "relay", run |-> s]}
    BY <1>2, <1>9, RetainsRelay
  <2>2. Types'
    <3>1. active' \in BOOLEAN /\ stopped' \in BOOLEAN /\ reapers' \in [Sessions -> SUBSET {"process", "relay"}]
      BY <1>1, <2>1 DEF Types, ManagerTypes, RunTypes
    <3> QED BY <1>0, <1>1, <1>4, <1>5, <1>7, <1>9, <2>1, <3>1, TakeDownTypes
  <2>3. Life'
    BY <1>0, <1>1, <1>4, <1>5, <1>6, <1>7, <1>9, <2>1, LifeHeldForRelay
  <2>4. HandsOK' /\ ChatsOK' /\ ValuesOK'
    BY <1>0, <1>4, <1>6, <2>1, KeptAlike, SteerFrame
  <2> QED BY <2>2, <2>3, <2>4 DEF Inv
<1>10. CASE ~o.ok
  <2>1. /\ CloseNow \/ Kept
        /\ reapers' = reapers \/ reapers' = [reapers EXCEPT ![s] = @ \cup {"process"}]
        /\ cleanup' \in {cleanup, [kind |-> "process", run |-> s]}
        /\ UNCHANGED <<active, process, stopped, row, child>>
    BY <1>2, <1>10, Retains
  <2>2. Types'
    <3>1. /\ active' \in BOOLEAN /\ stopped' \in BOOLEAN /\ row' \in [Sessions -> {None, "running", "ended", "failed"}]
          /\ reapers' \in [Sessions -> SUBSET {"process", "relay"}]
      BY <1>1, <2>1 DEF Types, ManagerTypes, RunTypes
    <3> QED BY <1>0, <1>1, <1>4, <1>5, <2>1, <3>1, TakeDownTypes
  <2>3. Life'
    BY <1>0, <1>1, <1>3, <1>4, <1>6, <1>10, <2>1, LifeRetained
  <2>4. HandsOK' /\ ChatsOK' /\ ValuesOK'
    BY <1>0, <1>4, <1>6, <2>1, KeptAlike, SteerFrame
  <2> QED BY <2>2, <2>3, <2>4 DEF Inv
<1> QED BY <1>4, <1>8, <1>9, <1>10

-----------------------------------------------------------------------------
(* Reaping later, and shutdown.                                            *)
LEMMA RetryReapStep ==
    ASSUME Inv, NEW s \in Sessions, RetryReap(s), scope' = scope
    PROVE  Inv'
<1>0. "process" \in reapers[s] /\ UNCHANGED <<session, down, starter, closer, call, mon, relay, given>>
  BY DEF RetryReap
<1>1. /\ Types /\ Life /\ ManagerOK /\ mon \in [Sessions -> Monitors] /\ reapers \in [Sessions -> SUBSET {"process", "relay"}]
      /\ s \in Nat /\ session \in Nat
  BY ScopeFacts DEF Inv, Life, Types, RunTypes, ManagerTypes
<1>2. PICK o \in Outcomes(s) :
         /\ Terminated(s, o)
         /\ IF o.ok
            THEN /\ row' = Repaired(s)
                 /\ Finalize(s, [kind |-> "process", run |-> s])
                 /\ reapers' = [reapers EXCEPT ![s] = @ \ {"process"}]
            ELSE UNCHANGED <<row, child, reapers, open, ctl, chat, asked, active, process, cleanup, stopped>>
  BY DEF RetryReap
<1>3. /\ s <= session /\ (s = session => starter # "reserved") /\ (~down => ~Live(mon[s]))
      /\ ~(scope.MaxKillFailures = 0 /\ ~down)
  <2>1. LifeAt(s)
    BY <1>1 DEF Life
  <2>2. s <= session
    BY <1>0, <1>1, <2>1 DEF LifeAt, FutureOK
  <2>3. s = session => starter # "reserved"
    BY <1>0, <1>1 DEF Life, StarterOK
  <2> QED BY <1>0, <2>1, <2>2, <2>3 DEF LifeAt, MonitorOK, RelayOK
<1>4. used' \in [DOMAIN Bounds -> Nat] /\ used'.values = used.values
  BY <1>1, <1>2, Kills
<1>5. Retires(s) /\ ClosesDown /\ HandsStay
  BY <1>0 DEF Retires, ClosesDown, HandsStay
<1>6. CASE o.ok
  <2>1. /\ child' = [child EXCEPT ![s] = "closed"]
        /\ \/ s = session /\ Releases
           \/ s # session /\ Kept /\ UNCHANGED <<active, process, cleanup, stopped>>
    BY <1>1, <1>2, <1>6, Finalizes
  <2>2. /\ row' \in [Sessions -> {None, "running", "ended", "failed"}]
        /\ \A t \in Sessions : row'[t] = "running" => t # s /\ row[t] = "running"
    BY <1>1, <1>2, <1>6, Repairs
  <2>3. /\ CloseNow \/ (Kept /\ active' = active)
        /\ \/ s = session /\ active' = FALSE /\ process' = None
           \/ s # session /\ UNCHANGED <<active, process>>
        /\ active' \in BOOLEAN /\ stopped' \in BOOLEAN /\ process' \in {process, None} /\ cleanup' \in {cleanup, None}
    BY <1>1, <2>1 DEF Releases, Types, ManagerTypes
  <2>4. reapers' = [reapers EXCEPT ![s] = @ \ {"process"}] /\ reapers' \in [Sessions -> SUBSET {"process", "relay"}]
    BY <1>1, <1>2, <1>6
  <2>5. Types'
    BY <1>0, <1>1, <1>4, <2>1, <2>2, <2>3, <2>4, TakeDownTypes
  <2>6. Life'
    BY <1>0, <1>1, <1>3, <1>5, <2>1, <2>2, <2>3, <2>4, LifeReleased
  <2>7. HandsOK' /\ ChatsOK' /\ ValuesOK'
    BY <1>0, <1>4, <1>5, <2>3, KeptAlike, SteerFrame
  <2> QED BY <2>5, <2>6, <2>7 DEF Inv
<1>7. CASE ~o.ok
  <2>1. UNCHANGED <<row, child, reapers, active, process, cleanup, stopped>> /\ Kept
    BY <1>2, <1>7 DEF Kept
  <2>2. Types'
    <3>1. active' \in BOOLEAN /\ stopped' \in BOOLEAN /\ row' \in [Sessions -> {None, "running", "ended", "failed"}]
      BY <1>1, <2>1 DEF Types, ManagerTypes, RunTypes
    <3> QED BY <1>0, <1>1, <1>4, <2>1, <3>1, TakeDownTypes
  <2>3. Life'
    BY <1>0, <1>1, <2>1, LifeFrame
  <2>4. HandsOK' /\ ChatsOK' /\ ValuesOK'
    BY <1>0, <1>4, <1>5, <2>1, KeptAlike, SteerFrame
  <2> QED BY <2>2, <2>3, <2>4 DEF Inv
<1> QED BY <1>6, <1>7

LEMMA FinishAfterRelayStep ==
    ASSUME Inv, NEW s \in Sessions, FinishAfterRelay(s), scope' = scope
    PROVE  Inv'
<1>0. /\ "relay" \in reapers[s] /\ relay[s] = "done" /\ Finalize(s, [kind |-> "relay", run |-> s])
      /\ reapers' = [reapers EXCEPT ![s] = @ \ {"relay"}]
      /\ UNCHANGED <<session, down, starter, closer, call, row, mon, relay, given, used>>
  BY DEF FinishAfterRelay
<1>1. /\ Types /\ Life /\ ManagerOK /\ mon \in [Sessions -> Monitors] /\ reapers \in [Sessions -> SUBSET {"process", "relay"}]
      /\ s \in Nat /\ session \in Nat
  BY ScopeFacts DEF Inv, Life, Types, RunTypes, ManagerTypes
<1>2. row' \in [Sessions -> {None, "running", "ended", "failed"}] /\ used' \in [DOMAIN Bounds -> Nat]
  BY <1>0, <1>1 DEF Types, RunTypes
<1>3. /\ s <= session /\ (s = session => starter # "reserved") /\ (~down => ~Live(mon[s]))
      /\ \A t \in Sessions : row'[t] = "running" => t # s /\ row[t] = "running"
  <2>1. LifeAt(s)
    BY <1>1 DEF Life
  <2>2. s <= session
    BY <1>0, <1>1, <2>1 DEF LifeAt, FutureOK
  <2>3. s = session => starter # "reserved"
    BY <1>0, <1>1 DEF Life, StarterOK
  <2> QED BY <1>0, <2>1, <2>2, <2>3 DEF LifeAt, MonitorOK
<1>5. Retires(s) /\ ClosesDown /\ HandsStay
  BY <1>0 DEF Retires, ClosesDown, HandsStay
<1>6. /\ child' = [child EXCEPT ![s] = "closed"]
      /\ \/ s = session /\ Releases
         \/ s # session /\ Kept /\ UNCHANGED <<active, process, cleanup, stopped>>
  BY <1>0, <1>1, Finalizes
<1>7. /\ CloseNow \/ (Kept /\ active' = active)
      /\ \/ s = session /\ active' = FALSE /\ process' = None
         \/ s # session /\ UNCHANGED <<active, process>>
      /\ active' \in BOOLEAN /\ stopped' \in BOOLEAN /\ process' \in {process, None} /\ cleanup' \in {cleanup, None}
  BY <1>1, <1>6 DEF Releases, Types, ManagerTypes
<1>8. reapers' \in [Sessions -> SUBSET {"process", "relay"}]
  BY <1>0, <1>1
<1>9. Types'
  BY <1>0, <1>1, <1>2, <1>6, <1>7, <1>8, TakeDownTypes
<1>10. Life'
  BY <1>0, <1>1, <1>3, <1>5, <1>6, <1>7, LifeReleased
<1>11. HandsOK' /\ ChatsOK' /\ ValuesOK'
  BY <1>0, <1>5, <1>7, KeptAlike, SteerFrame
<1> QED BY <1>9, <1>10, <1>11 DEF Inv

LEMMA ShutdownBeginsLife ==
    ASSUME Types, Life, closer.at = "up", down' = TRUE,
           closer' = [at |-> IF process = None THEN "down" ELSE "stopping", process |-> process, session |-> session],
           UNCHANGED <<active, session, process, starter, child, row, mon, relay, reapers, scope>>
    PROVE  Life'
<1>0. Sessions' = Sessions /\ MaxRuns \in Nat /\ Sessions = 1..MaxRuns /\ session \in 0..MaxRuns
  BY ScopeStays, ScopeFacts DEF Types, ManagerTypes
<1>a. /\ process # None => process = session /\ session \in Sessions /\ starter # "reserved"
      /\ closer'.at = (IF process = None THEN "down" ELSE "stopping") /\ closer'.session = session
  BY DEF Life, ManagerOK, StarterOK
<1>1. ManagerOK'
  BY <1>0, <1>a DEF Life, ManagerOK
<1>2. StarterOK'
  BY <1>0, <1>a DEF Life, StarterOK, Types, RunTypes
<1>3. CloserOK'
  BY <1>0, <1>a DEF Life, CloserOK, Types, ManagerTypes
<1>4. ASSUME NEW t \in Sessions PROVE LifeAt(t)'
  <2>0. LifeAt(t)
    BY DEF Life
  <2>1. FutureOK(t)'
    BY <1>0, <1>a, <2>0 DEF LifeAt, FutureOK, Types, RunTypes
  <2>2. ChildOK(t)'
    BY <1>0, <1>a, <2>0 DEF LifeAt, ChildOK, Types, RunTypes
  <2>3. MonitorOK(t)'
    BY <1>0, <1>a, <2>0 DEF LifeAt, MonitorOK, Live, Types, RunTypes
  <2>4. RelayOK(t)'
    BY <1>0, <1>a, <2>0 DEF LifeAt, RelayOK, Types, RunTypes
  <2> QED BY <2>1, <2>2, <2>3, <2>4 DEF LifeAt
<1> QED BY <1>0, <1>1, <1>2, <1>3, <1>4 DEF Life

LEMMA ShutdownBeginsStep ==
    ASSUME Inv, ShutdownBegins, scope' = scope
    PROVE  Inv'
<1>0. /\ closer.at = "up" /\ down' = TRUE /\ CloseNow
      /\ closer' = [at |-> IF process = None THEN "down" ELSE "stopping", process |-> process, session |-> session]
      /\ UNCHANGED <<active, session, process, cleanup, stopped, starter, child, call, row, mon, relay, reapers, given, used>>
  BY DEF ShutdownBegins, runs
<1>1. Types /\ Life
  BY DEF Inv
<1>2. open' \in BOOLEAN /\ ctl' \in Controllers /\ chat' \in [Callers -> Chats] /\ asked' \in [Slots -> Values \cup {None}]
  BY <1>0, <1>1, MayClose
<1>3. Types'
  <2>0. closer' \in [at : {"up", "stopping", "joining", "down"}, process : Sessions \cup {None}, session : 0..MaxRuns]
    BY <1>0, <1>1 DEF Types, ManagerTypes
  <2>1. ManagerTypes' /\ scope' \in Scopes
    BY <1>0, <1>1, <1>2, <2>0, ScopeStays DEF Types, ManagerTypes
  <2>2. RunTypes' /\ mon' \in [Sessions' -> Monitors']
    BY <1>0, <1>1, ScopeStays DEF Types, RunTypes
  <2>3. SteerTypes'
    BY <1>0, <1>1, <1>2, ScopeStays DEF Types, SteerTypes
  <2> QED BY <2>1, <2>2, <2>3 DEF Types
<1>4. Life'
  BY <1>0, <1>1, ShutdownBeginsLife
<1>5. HandsOK' /\ ChatsOK' /\ ValuesOK'
  BY <1>0, SteerFrame DEF HandsStay
<1> QED BY <1>3, <1>4, <1>5 DEF Inv

LEMMA ShutdownStopsLife ==
    ASSUME Types, Life, closer.at = "stopping", closer' = [closer EXCEPT !.at = "joining"],
           UNCHANGED <<active, session, process, starter, down, child, row, mon, relay, reapers, scope>>
    PROVE  Life'
<1>0. Sessions' = Sessions /\ MaxRuns \in Nat /\ Sessions = 1..MaxRuns /\ session \in 0..MaxRuns
  BY ScopeStays, ScopeFacts DEF Types, ManagerTypes
<1>a. closer'.at = "joining" /\ closer'.session = closer.session
  BY DEF Types, ManagerTypes
<1>1. ManagerOK'
  BY <1>0, <1>a DEF Life, ManagerOK
<1>2. StarterOK'
  BY <1>0, <1>a DEF Life, StarterOK, Types, RunTypes
<1>3. CloserOK'
  BY <1>0, <1>a DEF Life, CloserOK, Types, ManagerTypes
<1>4. ASSUME NEW t \in Sessions PROVE LifeAt(t)'
  <2>0. LifeAt(t)
    BY DEF Life
  <2>1. FutureOK(t)'
    BY <1>0, <1>a, <2>0 DEF LifeAt, FutureOK, Types, RunTypes
  <2>2. ChildOK(t)'
    BY <1>0, <1>a, <2>0 DEF LifeAt, ChildOK, Types, RunTypes
  <2>3. MonitorOK(t)'
    BY <1>0, <1>a, <2>0 DEF LifeAt, MonitorOK, Live, Types, RunTypes
  <2>4. RelayOK(t)'
    BY <1>0, <1>a, <2>0 DEF LifeAt, RelayOK, Types, RunTypes
  <2> QED BY <2>1, <2>2, <2>3, <2>4 DEF LifeAt
<1> QED BY <1>0, <1>1, <1>2, <1>3, <1>4 DEF Life

LEMMA ShutdownStopsStep ==
    ASSUME Inv, ShutdownStops, scope' = scope
    PROVE  Inv'
<1>0. /\ closer.at = "stopping" /\ closer' = [closer EXCEPT !.at = "joining"] /\ ctl' = request_stop(ctl, closer.session)
      /\ UNCHANGED <<active, open, session, process, cleanup, down, stopped, starter, child, call, row, mon, relay, reapers,
                     chat, given, asked, used>>
  BY DEF ShutdownStops, manager, runs
<1>1. Types /\ Life /\ ctl \in Controllers /\ closer.session = session /\ session \in Sessions
  BY <1>0 DEF Inv, Types, SteerTypes, Life, CloserOK
<1>2. ctl' \in Controllers /\ Alike
  BY <1>0, <1>1, StopRequested DEF Alike
<1>3. Types'
  <2>1. ManagerTypes' /\ scope' \in Scopes
    BY <1>0, <1>1, ScopeStays DEF Types, ManagerTypes
  <2>2. RunTypes' /\ mon' \in [Sessions' -> Monitors']
    BY <1>0, <1>1, ScopeStays DEF Types, RunTypes
  <2>3. SteerTypes'
    BY <1>0, <1>1, <1>2, ScopeStays DEF Types, SteerTypes
  <2> QED BY <2>1, <2>2, <2>3 DEF Types
<1>4. Life'
  BY <1>0, <1>1, ShutdownStopsLife
<1>5. HandsOK' /\ ChatsOK' /\ ValuesOK'
  BY <1>0, <1>2, SteerFrame DEF HandsStay
<1> QED BY <1>3, <1>4, <1>5 DEF Inv

LEMMA ShutdownEndsLife ==
    ASSUME Types, Life, closer.at = "joining", closer' = [closer EXCEPT !.at = "down"],
           UNCHANGED <<active, session, process, starter, down, child, row, mon, relay, reapers, scope>>
    PROVE  Life'
<1>0. Sessions' = Sessions /\ MaxRuns \in Nat /\ Sessions = 1..MaxRuns /\ session \in 0..MaxRuns
  BY ScopeStays, ScopeFacts DEF Types, ManagerTypes
<1>a. closer'.at = "down"
  BY DEF Types, ManagerTypes
<1>1. ManagerOK'
  BY <1>0, <1>a DEF Life, ManagerOK
<1>2. StarterOK'
  BY <1>0, <1>a DEF Life, StarterOK, Types, RunTypes
<1>3. CloserOK'
  BY <1>0, <1>a DEF Life, CloserOK, Types, ManagerTypes
<1>4. ASSUME NEW t \in Sessions PROVE LifeAt(t)'
  <2>0. LifeAt(t)
    BY DEF Life
  <2>1. FutureOK(t)'
    BY <1>0, <1>a, <2>0 DEF LifeAt, FutureOK, Types, RunTypes
  <2>2. ChildOK(t)'
    BY <1>0, <1>a, <2>0 DEF LifeAt, ChildOK, Types, RunTypes
  <2>3. MonitorOK(t)'
    BY <1>0, <1>a, <2>0 DEF LifeAt, MonitorOK, Live, Types, RunTypes
  <2>4. RelayOK(t)'
    BY <1>0, <1>a, <2>0 DEF LifeAt, RelayOK, Types, RunTypes
  <2> QED BY <2>1, <2>2, <2>3, <2>4 DEF LifeAt
<1> QED BY <1>0, <1>1, <1>2, <1>3, <1>4 DEF Life

LEMMA ShutdownCleansStep ==
    ASSUME Inv, ShutdownCleans, scope' = scope
    PROVE  Inv'
<1>p. PICK s : s = session
  OBVIOUS
<1>0. /\ closer.at = "joining" /\ closer' = [closer EXCEPT !.at = "down"]
      /\ UNCHANGED <<session, down, starter, call, mon, relay, given>>
  BY DEF ShutdownCleans
<1>1. /\ Types /\ Life /\ ManagerOK /\ mon \in [Sessions -> Monitors]
      /\ closer.session = s /\ s \in Sessions /\ s <= session /\ down /\ starter # "reserved"
  <2>1. Types /\ Life /\ ManagerOK /\ mon \in [Sessions -> Monitors] /\ s \in Sessions /\ closer.session = s /\ down /\ starter # "reserved"
    BY <1>0, <1>p DEF Inv, Types, Life, CloserOK
  <2>2. s \in Nat
    BY <2>1, ScopeFacts DEF Types
  <2> QED BY <1>p, <2>1, <2>2
<1>2. Retires(s) /\ ClosesDown /\ HandsStay
  BY <1>0 DEF Retires, ClosesDown, HandsStay
<1>3. ASSUME UNCHANGED <<row, child, reapers, active, process, cleanup, stopped>>, Kept,
             used' \in [DOMAIN Bounds -> Nat], used'.values = used.values
      PROVE  Inv'
  <2>1. Types'
    <3>1. active' \in BOOLEAN /\ stopped' \in BOOLEAN /\ row' \in [Sessions -> {None, "running", "ended", "failed"}]
          /\ reapers' \in [Sessions -> SUBSET {"process", "relay"}] /\ mon' \in [Sessions -> Monitors]
      BY <1>0, <1>1, <1>3 DEF Types, ManagerTypes, RunTypes
    <3> QED BY <1>0, <1>1, <1>3, <3>1, TakeDownTypes
  <2>2. Life'
    BY <1>0, <1>1, <1>3, ShutdownEndsLife
  <2>3. HandsOK' /\ ChatsOK' /\ ValuesOK'
    BY <1>0, <1>2, <1>3, KeptAlike, SteerFrame
  <2> QED BY <2>1, <2>2, <2>3 DEF Inv
<1>4. CASE process # closer.process
  <2>1. UNCHANGED <<row, child, reapers, active, process, cleanup, stopped, used>> /\ Kept
    BY <1>4 DEF ShutdownCleans, Kept
  <2>2. used' \in [DOMAIN Bounds -> Nat]
    BY <1>1, <2>1 DEF Types, RunTypes
  <2> QED BY <1>3, <2>1, <2>2
<1>5. CASE process = closer.process
  <2>0. PICK o \in Outcomes(s) :
            /\ Terminated(s, o)
            /\ IF o.ok THEN row' = Repaired(s) /\ Finalize(s, [kind |-> "shutdown", run |-> s]) /\ UNCHANGED reapers
               ELSE /\ IF cleanup = None THEN Retain(s)
                       ELSE UNCHANGED <<reapers, open, ctl, chat, asked, active, process, cleanup, stopped>>
                    /\ UNCHANGED <<row, child>>
    BY <1>1, <1>5 DEF ShutdownCleans
  <2>1. used' \in [DOMAIN Bounds -> Nat] /\ used'.values = used.values
    BY <1>1, <2>0, Kills
  <2>2. CASE o.ok
    <3>1. child' = [child EXCEPT ![s] = "closed"] /\ Releases /\ reapers' = reapers
      BY <1>p, <1>1, <2>0, <2>2, Finalizes
    <3>2. /\ row' \in [Sessions -> {None, "running", "ended", "failed"}]
          /\ \A t \in Sessions : row'[t] = "running" => t # s /\ row[t] = "running"
      BY <1>1, <2>0, <2>2, Repairs
    <3>3. Types'
      BY <1>0, <1>1, <2>1, <3>1, <3>2, TakeDownTypes DEF Releases, Types, RunTypes
    <3>4. Life'
      BY <1>p, <1>0, <1>1, <1>2, <3>1, <3>2, LifeReleased DEF Releases
    <3>5. HandsOK' /\ ChatsOK' /\ ValuesOK'
      BY <1>0, <1>2, <2>1, <3>1, SteerFrame DEF Releases
    <3> QED BY <3>3, <3>4, <3>5 DEF Inv
  <2>3. CASE ~o.ok /\ cleanup = None
    <3>1. /\ CloseNow \/ Kept
          /\ reapers' = reapers \/ reapers' = [reapers EXCEPT ![s] = @ \cup {"process"}]
          /\ cleanup' \in {cleanup, [kind |-> "process", run |-> s]}
          /\ UNCHANGED <<active, process, stopped, row, child>>
      BY <2>0, <2>3, Retains
    <3>2. Types'
      <4>1. /\ active' \in BOOLEAN /\ stopped' \in BOOLEAN /\ row' \in [Sessions -> {None, "running", "ended", "failed"}]
            /\ reapers' \in [Sessions -> SUBSET {"process", "relay"}] /\ mon' \in [Sessions -> Monitors]
        BY <1>0, <1>1, <3>1 DEF Types, ManagerTypes, RunTypes
      <4> QED BY <1>0, <1>1, <2>1, <3>1, <4>1, TakeDownTypes
    <3>3. Life'
      BY <1>0, <1>1, <1>2, <3>1, LifeRetained
    <3>4. HandsOK' /\ ChatsOK' /\ ValuesOK'
      BY <1>0, <1>2, <2>1, <3>1, KeptAlike, SteerFrame
    <3> QED BY <3>2, <3>3, <3>4 DEF Inv
  <2>4. CASE ~o.ok /\ cleanup # None
    <3>1. UNCHANGED <<row, child, reapers, active, process, cleanup, stopped>> /\ Kept
      BY <2>0, <2>4 DEF Kept
    <3> QED BY <1>3, <2>1, <3>1
  <2> QED BY <2>2, <2>3, <2>4
<1> QED BY <1>4, <1>5

-----------------------------------------------------------------------------
(* The monitor serves its child.                                           *)
LEMMA Watching ==
    ASSUME Inv, NEW s \in Sessions, mon[s].at \in Serving
    PROVE  /\ s = session /\ Types /\ Life /\ scope \in Scopes /\ ctl \in Controllers /\ mon[s] \in Monitors
           /\ Holding(mon[s]) => HandOK(s) /\ HeldOK(mon[s])
<1>1. Types /\ Life /\ scope \in Scopes /\ ctl \in Controllers /\ mon[s] \in Monitors /\ LifeAt(s) /\ HandOK(s)
  BY DEF Inv, Types, Life, SteerTypes, HandsOK
<1>2. s = session
  BY <1>1 DEF LifeAt, MonitorOK, Live, Serving
<1>3. Holding(mon[s]) => HeldOK(mon[s])
  BY <1>2 DEF Inv, ValuesOK
<1> QED BY <1>1, <1>2, <1>3

(* The monitor is the only one that moves.                                 *)
Others(s) == mon' \in [Sessions -> Monitors] /\ \A t \in Sessions \ {s} : mon'[t] = mon[t]

LEMMA HandsSet ==
    ASSUME Inv, NEW s \in Sessions, Others(s), Holding(mon'[s]) => HandOK(s)', scope' = scope
    PROVE  HandsOK'
<1>1. ASSUME NEW t \in Sessions PROVE HandOK(t)'
  <2>1. CASE t = s
    BY <2>1 DEF HandOK
  <2>2. CASE t # s
    BY <2>2, ScopeStays DEF Inv, HandsOK, HandOK, Others, Holding
  <2> QED BY <2>1, <2>2
<1> QED BY <1>1, ScopeStays DEF HandsOK

(* The chats, when the same people wait.                                   *)
LEMMA ChatsSame ==
    ASSUME Inv, UNCHANGED <<active, open, session, chat, scope>>, QueuesOK', ReservedOK', Waiters(ctl') = Waiters(ctl)
    PROVE  ChatsOK'
<1>1. WaitingIsHeld' /\ AnsweredByItsRun'
  BY ScopeStays DEF Inv, ChatsOK, WaitingIsHeld, AnsweredByItsRun
<1> QED BY <1>1, ScopeStays DEF Inv, ChatsOK

(* The values, when the monitor has nothing in hand and none was given     *)
(* that is still there.                                                    *)
LEMMA ValuesSame ==
    ASSUME Inv, UNCHANGED <<open, session, given, asked, scope>>, used'.values = used.values, ctl'.stop = ctl.stop,
           \A k \in Slots : ctl'.slot[k].value \in {ctl.slot[k].value, None},
           \A k \in Slots : ctl'.slot[k].value # ctl.slot[k].value => ctl.slot[k].value \in Given \cup {None},
           \A k \in Slots : ctl'.slot[k].value # None => ctl'.slot[k].value \notin Given,
           session \in Sessions /\ Holding(mon'[session]) => HeldOK(mon[session])'
    PROVE  ValuesOK'
<1>0. Sessions' = Sessions /\ Given' = Given /\ (\A v : Mine(v)' = Mine(v))
  BY ScopeStays DEF Given, Mine
<1>1. SlotsOK'
  <2>1. \A k \in Slots : ctl'.slot[k].value # None => ctl'.slot[k].value = ctl.slot[k].value
    OBVIOUS
  <2> QED BY <1>0, <2>1 DEF Inv, ValuesOK, SlotsOK
<1>2. GivenOK'
  BY <1>0 DEF Inv, ValuesOK, GivenOK
<1>3. GoneOK'
  BY <1>0 DEF GoneOK
<1>4. NoValueLost' /\ (~open' => \A k \in Slots : asked'[k] = None)
  BY DEF Inv, ValuesOK, NoValueLost, Given
<1> QED BY <1>0, <1>1, <1>2, <1>3, <1>4 DEF ValuesOK

LEMMA NothingGone ==
    ASSUME Inv, session \in Sessions, mon[session].at # "sent", NEW k \in Slots, ctl.slot[k].value # None
    PROVE  ctl.slot[k].value \notin Given
BY DEF Inv, ValuesOK, GoneOK

(* What a dispatch prepares.                                               *)
Prepares(s, a) ==
    \/ ~a.took /\ a.call \notin Slots /\ ctl' = ctl
    \/ a.took /\ a.call \in Slots /\ a.value = ctl.slot[a.call].value /\ ctl' = reserve_value(ctl, a.call, s)
    \/ a.took /\ a.call = "chat" /\ ctl.pending # <<>> /\ a.value = Head(ctl.pending) /\ ctl' = reserve_chat(ctl)
    \/ a.took /\ a.call = "answer" /\ ctl.inflight # <<>> /\ a.value = Head(ctl.inflight) /\ ctl' = reserve_chat_response(ctl)

LEMMA Dispatches ==
    ASSUME Inv, NEW s \in Sessions, Dispatch(s)
    PROVE  \E a \in Replies : Prepares(s, a) /\ mon' = [mon EXCEPT ![s].at = "sending", ![s].held = a]
<1> DEFINE c == call[s]
           Holds(a) == mon' = [mon EXCEPT ![s].at = "sending", ![s].held = a]
<1>0. c \in Calls /\ ctl \in Controllers
  BY DEF Dispatch, Inv, Types, SteerTypes
<1>1. CASE c = "paused"
  <2>1. Holds(Answer(s, FALSE, None, {IF ctl.paused THEN "paused" ELSE "stop"})) /\ ctl' = ctl
    BY <1>1 DEF Dispatch, Slots
  <2>2. PICK a : a = Answer(s, FALSE, None, {IF ctl.paused THEN "paused" ELSE "stop"})
    OBVIOUS
  <2>3. a \in Replies /\ ~a.took /\ a.call \notin Slots
    BY <1>0, <1>1, <2>2 DEF Answer, Replies, Slots, Calls
  <2> QED BY <2>1, <2>2, <2>3 DEF Prepares
<1>2. CASE c = "stop"
  <2>1. Holds(Answer(s, FALSE, None, {IF ctl.stop # None THEN "ending" ELSE "hint"})) /\ ctl' = ctl
    BY <1>2 DEF Dispatch, Slots
  <2>2. PICK a : a = Answer(s, FALSE, None, {IF ctl.stop # None THEN "ending" ELSE "hint"})
    OBVIOUS
  <2>3. a \in Replies /\ ~a.took /\ a.call \notin Slots
    BY <1>0, <1>2, <2>2 DEF Answer, Replies, Slots, Calls
  <2> QED BY <2>1, <2>2, <2>3 DEF Prepares
<1>3. CASE c \in Slots
  <2>1. /\ Holds(Answer(s, TRUE, ctl.slot[c].value, {IF c = "hint" THEN "chat" ELSE "paused", "ending"}))
        /\ ctl' = reserve_value(ctl, c, s)
    BY <1>3 DEF Dispatch, Slots
  <2>2. PICK a : a = Answer(s, TRUE, ctl.slot[c].value, {IF c = "hint" THEN "chat" ELSE "paused", "ending"})
    OBVIOUS
  <2>3. ctl.slot[c].value \in Values \cup {None}
    BY <1>0, <1>3, Controlled
  <2>4. a \in Replies /\ a.took /\ a.call = c /\ a.value = ctl.slot[c].value
    BY <1>0, <1>3, <2>2, <2>3 DEF Answer, Replies, Slots, Calls
  <2> QED BY <1>3, <2>1, <2>2, <2>4 DEF Prepares
<1>4. CASE c = "chat" /\ ctl.pending = <<>>
  <2>1. Holds(Answer(s, FALSE, None, {"gate", "ending"})) /\ ctl' = ctl
    BY <1>4 DEF Dispatch, Slots
  <2>2. PICK a : a = Answer(s, FALSE, None, {"gate", "ending"})
    OBVIOUS
  <2>3. a \in Replies /\ ~a.took /\ a.call \notin Slots
    BY <1>0, <1>4, <2>2 DEF Answer, Replies, Slots, Calls
  <2> QED BY <2>1, <2>2, <2>3 DEF Prepares
<1>5. CASE c = "chat" /\ ctl.pending # <<>>
  <2>1. Holds(Answer(s, TRUE, Head(ctl.pending), {"answer"})) /\ ctl' = reserve_chat(ctl)
    BY <1>5 DEF Dispatch, Slots
  <2>2. PICK a : a = Answer(s, TRUE, Head(ctl.pending), {"answer"})
    OBVIOUS
  <2>3. Head(ctl.pending) \in Callers
    BY <1>0, <1>5, Controlled, TailQueue
  <2>4. a \in Replies /\ a.took /\ a.call = c /\ a.value = Head(ctl.pending)
    BY <1>0, <1>5, <2>2, <2>3 DEF Answer, Replies, Slots, Calls
  <2> QED BY <1>5, <2>1, <2>2, <2>4 DEF Prepares
<1>6. CASE c = "answer" /\ ctl.inflight = <<>>
  <2>1. Holds(Answer(s, FALSE, None, {"ending"})) /\ ctl' = ctl
    BY <1>6 DEF Dispatch, Slots
  <2>2. PICK a : a = Answer(s, FALSE, None, {"ending"})
    OBVIOUS
  <2>3. a \in Replies /\ ~a.took /\ a.call \notin Slots
    BY <1>0, <1>6, <2>2 DEF Answer, Replies, Slots, Calls
  <2> QED BY <2>1, <2>2, <2>3 DEF Prepares
<1>7. CASE c = "answer" /\ ctl.inflight # <<>>
  <2>1. Holds(Answer(s, TRUE, Head(ctl.inflight), {"gate", "ending"})) /\ ctl' = reserve_chat_response(ctl)
    BY <1>7 DEF Dispatch, Slots
  <2>2. PICK a : a = Answer(s, TRUE, Head(ctl.inflight), {"gate", "ending"})
    OBVIOUS
  <2>3. Head(ctl.inflight) \in Callers
    BY <1>0, <1>7, Controlled, TailQueue
  <2>4. a \in Replies /\ a.took /\ a.call = c /\ a.value = Head(ctl.inflight)
    BY <1>0, <1>7, <2>2, <2>3 DEF Answer, Replies, Slots, Calls
  <2> QED BY <1>7, <2>1, <2>2, <2>4 DEF Prepares
<1> QED BY <1>0, <1>1, <1>2, <1>3, <1>4, <1>5, <1>6, <1>7 DEF Calls

LEMMA DispatchStep ==
    ASSUME Inv, NEW s \in Sessions, Dispatch(s), scope' = scope
    PROVE  Inv'
<1>p. PICK a \in Replies : Prepares(s, a) /\ mon' = [mon EXCEPT ![s].at = "sending", ![s].held = a]
  BY Dispatches
<1>0. /\ mon[s].at = "watch"
      /\ UNCHANGED <<active, open, session, process, cleanup, down, stopped, starter, closer, child, call, row,
                     relay, reapers, chat, given, asked, used>>
  BY DEF Dispatch, manager, runs
<1>1. /\ s = session /\ Types /\ Life /\ scope \in Scopes /\ ctl \in Controllers /\ mon[s] \in Monitors
  BY <1>0, Watching DEF Serving
<1>2. /\ Others(s) /\ mon'[s].at = "sending" /\ mon'[s].held = a
      /\ mon'[s].reaped = mon[s].reaped /\ mon'[s].quiet = mon[s].quiet
  BY <1>p, <1>1 DEF Others, Types, Monitors
<1>3. ctl.reserved = None
  BY <1>0, <1>1 DEF Inv, ChatsOK, ReservedOK, Holding
<1>c. /\ ctl.pending \in Seq(Callers) /\ ctl.inflight \in Seq(Callers) /\ QueuesOK /\ Callers' = Callers /\ None \notin Callers
      /\ Waiters(ctl) = Elems(ctl.pending) \cup Elems(ctl.inflight)
      /\ \A k \in Slots : ctl.slot[k].value \in Values \cup {None}
  <2>1. ctl.pending \in Seq(Callers) /\ ctl.inflight \in Seq(Callers) /\ Callers' = Callers /\ None \notin Callers
    BY <1>1, Controlled, ScopeFacts, ScopeStays
  <2>2. \A k \in Slots : ctl.slot[k].value \in Values \cup {None}
    BY <1>1, Controlled
  <2> QED BY <1>3, <2>1, <2>2, WaitersAre DEF Inv, ChatsOK
<1>v. /\ \A k \in Slots : ctl.slot[k].value # None => ctl.slot[k].value \notin Given
      /\ \A k, l \in Slots : ctl.slot[k].value = ctl.slot[l].value => k = l \/ ctl.slot[k].value = None
      /\ \A k \in Slots : ctl.slot[k].value # None => Mine(ctl.slot[k].value)
  <2>1. \A k \in Slots : ctl.slot[k].value # None => ctl.slot[k].value \notin Given
    BY <1>0, <1>1, NothingGone
  <2> QED BY <2>1 DEF Inv, ValuesOK, SlotsOK
<1>4. /\ ctl' \in Controllers /\ HandOK(s)' /\ ChatsOK' /\ ValuesOK'
  <2>1. CASE ~a.took /\ a.call \notin Slots /\ ctl' = ctl
    <3>1. HandOK(s)'
      BY <1>p, <1>2, <2>1, ScopeStays DEF HandOK, Holding
    <3>2. ChatsOK'
      <4>1. QueuesOK' /\ ReservedOK'
        BY <1>3, <1>c, <2>1 DEF Inv, ChatsOK, QueuesOK, ReservedOK
      <4> QED BY <1>0, <2>1, <4>1, ChatsSame
    <3>3. ValuesOK'
      <4>1. HeldOK(mon[session])'
        BY <1>0, <1>1, <1>2, <2>1 DEF HeldOK
      <4> QED BY <1>0, <1>v, <2>1, <4>1, ValuesSame
    <3> QED BY <1>1, <2>1, <3>1, <3>2, <3>3
  <2>2. CASE a.took /\ a.call \in Slots /\ a.value = ctl.slot[a.call].value /\ ctl' = reserve_value(ctl, a.call, s)
    <3>0. /\ ctl' \in Controllers /\ ctl'.stop = ctl.stop /\ SameChats(ctl, ctl')
          /\ ctl'.slot[a.call].value = ctl.slot[a.call].value /\ \A l \in Slots \ {a.call} : ctl'.slot[l] = ctl.slot[l]
          /\ IsReserved(ctl', a.call, s) /\ ~ctl'.slot[a.call].reserved.moved
      BY <1>1, <2>2, ReserveValue
    <3>1. HandOK(s)'
      BY <1>p, <1>2, <1>c, <2>2, ScopeStays DEF HandOK, Holding
    <3>2. ChatsOK'
      <4>1. QueuesOK' /\ ReservedOK'
        BY <1>3, <1>c, <3>0 DEF Inv, ChatsOK, QueuesOK, ReservedOK, SameChats
      <4>2. Waiters(ctl') = Waiters(ctl)
        BY <3>0 DEF Waiters, SameChats
      <4> QED BY <1>0, <4>1, <4>2, ChatsSame
    <3>3. ValuesOK'
      <4>1. \A k \in Slots : ctl'.slot[k].value = ctl.slot[k].value
        BY <3>0
      <4>2. Given' = Given /\ (\A v : Mine(v)' = Mine(v)) /\ Unmoved(a.call)'
        BY <1>0, <1>1, <3>0 DEF Given, Mine, Unmoved
      <4>3. HeldOK(mon[session])'
        <5>1. a.value # None => Mine(a.value)' /\ a.value \notin Given'
          BY <1>v, <2>2, <4>2
        <5>2. \A k \in Slots : a.value # None /\ ctl'.slot[k].value = a.value => k = a.call /\ Unmoved(k)'
          BY <1>v, <2>2, <4>1, <4>2
        <5> QED BY <1>0, <1>1, <1>2, <2>2, <4>1, <5>1, <5>2 DEF HeldOK
      <4> QED BY <1>0, <1>v, <3>0, <4>1, <4>3, ValuesSame
    <3> QED BY <3>0, <3>1, <3>2, <3>3
  <2>3. CASE a.took /\ a.call = "chat" /\ ctl.pending # <<>> /\ a.value = Head(ctl.pending) /\ ctl' = reserve_chat(ctl)
    <3>0. /\ ctl' \in Controllers /\ SameSlots(ctl, ctl') /\ ctl'.inflight = ctl.inflight /\ ctl'.reserved = Head(ctl.pending)
          /\ ctl'.answering = ctl.answering /\ ctl'.pending = Tail(ctl.pending)
      BY <1>1, <2>3, ChatMethods
    <3>q. /\ Tail(ctl.pending) \in Seq(Callers) /\ Head(ctl.pending) \in Callers
          /\ Elems(ctl.pending) = Elems(Tail(ctl.pending)) \cup {Head(ctl.pending)}
          /\ Head(ctl.pending) \notin Elems(Tail(ctl.pending)) /\ Once(Tail(ctl.pending))
      BY <1>c, <2>3, TailQueue DEF QueuesOK
    <3>1. HandOK(s)'
      BY <1>p, <1>2, <2>3, <3>q, ScopeStays DEF HandOK, Holding, Slots
    <3>2. ChatsOK'
      <4>1. QueuesOK'
        BY <1>c, <3>0, <3>q DEF QueuesOK
      <4>2. ReservedOK'
        BY <1>0, <1>1, <1>2, <2>3, <3>0, ScopeStays DEF Inv, ChatsOK, ReservedOK, Holding
      <4>3. Waiters(ctl') = Elems(ctl'.pending) \cup Elems(ctl'.inflight) \cup {Head(ctl.pending)}
        BY <1>c, <3>0, <3>q, WaitersAre
      <4>4. Waiters(ctl') = Waiters(ctl)
        BY <1>c, <3>0, <3>q, <4>3
      <4> QED BY <1>0, <4>1, <4>2, <4>4, ChatsSame
    <3>3. ValuesOK'
      <4>1. HeldOK(mon[session])'
        BY <1>0, <1>1, <1>2, <2>3 DEF HeldOK, Slots
      <4> QED BY <1>0, <1>v, <3>0, <4>1, ValuesSame DEF SameSlots
    <3> QED BY <3>0, <3>1, <3>2, <3>3
  <2>4. CASE /\ a.took /\ a.call = "answer" /\ ctl.inflight # <<>> /\ a.value = Head(ctl.inflight)
             /\ ctl' = reserve_chat_response(ctl)
    <3>0. /\ ctl' \in Controllers /\ SameSlots(ctl, ctl') /\ ctl'.inflight = ctl.inflight /\ ctl'.reserved = ctl.reserved
          /\ ctl'.answering = Head(ctl.inflight) /\ ctl'.pending = ctl.pending
      BY <1>1, <2>4, ChatMethods
    <3>q. Head(ctl.inflight) \in Callers
      BY <1>c, <2>4, TailQueue
    <3>1. HandOK(s)'
      BY <1>p, <1>2, <2>4, <3>q, ScopeStays DEF HandOK, Holding, Slots
    <3>2. ChatsOK'
      <4>1. QueuesOK' /\ ReservedOK'
        BY <1>3, <1>c, <2>4, <3>0 DEF QueuesOK, ReservedOK
      <4>2. Waiters(ctl') = Waiters(ctl)
        BY <3>0 DEF Waiters
      <4> QED BY <1>0, <4>1, <4>2, ChatsSame
    <3>3. ValuesOK'
      <4>1. HeldOK(mon[session])'
        BY <1>0, <1>1, <1>2, <2>4 DEF HeldOK, Slots
      <4> QED BY <1>0, <1>v, <3>0, <4>1, ValuesSame DEF SameSlots
    <3> QED BY <3>0, <3>1, <3>2, <3>3
  <2> QED BY <1>p, <2>1, <2>2, <2>3, <2>4 DEF Prepares
<1>5. Types'
  <2>1. ManagerTypes' /\ scope' \in Scopes
    BY <1>0, <1>1, ScopeStays DEF Types, ManagerTypes
  <2>2. RunTypes' /\ mon' \in [Sessions' -> Monitors']
    BY <1>0, <1>1, <1>2, ScopeStays DEF Types, RunTypes, Others
  <2>3. SteerTypes'
    BY <1>0, <1>1, <1>4, ScopeStays DEF Types, SteerTypes
  <2> QED BY <2>1, <2>2, <2>3 DEF Types
<1>6. Life'
  BY <1>0, <1>1, <1>2, LifeFrame DEF Serving, Others
<1>7. HandsOK'
  BY <1>2, <1>4, HandsSet
<1> QED BY <1>4, <1>5, <1>6, <1>7 DEF Inv

(* The one in hand when the chats have a reservation, and the values gone. *)
LEMMA InHand ==
    ASSUME Inv, NEW s \in Sessions, Holding(mon[s])
    PROVE  LET a == mon[s].held IN
           /\ s = session /\ Types /\ Life /\ scope \in Scopes /\ ctl \in Controllers /\ mon[s] \in Monitors /\ a \in Replies
           /\ HandOK(s) /\ HeldOK(mon[s])
           /\ ctl.pending \in Seq(Callers) /\ ctl.inflight \in Seq(Callers) /\ QueuesOK /\ None \notin Callers
           /\ Waiters(ctl) = Elems(ctl.pending) \cup Elems(ctl.inflight) \cup (IF ctl.reserved = None THEN {} ELSE {ctl.reserved})
           /\ ctl.reserved # None => a.took /\ a.call = "chat" /\ a.value = ctl.reserved
           /\ a.took /\ a.call \in Slots => (StillHeld(s) <=> IsReserved(ctl, a.call, s))
           /\ a.took /\ a.call = "chat" => (StillHeld(s) <=> ctl.reserved = a.value) /\ a.value \in Callers
           /\ a.took /\ a.call = "answer" => (StillHeld(s) <=> ctl.answering = a.value) /\ a.value \in Callers
           /\ a.took => a.call \in Slots \/ a.call = "chat" \/ a.call = "answer"
<1>1. /\ s = session /\ Types /\ Life /\ scope \in Scopes /\ ctl \in Controllers /\ mon[s] \in Monitors
      /\ HandOK(s) /\ HeldOK(mon[s])
  BY Watching DEF Serving, Holding
<1>2. ctl.pending \in Seq(Callers) /\ ctl.inflight \in Seq(Callers) /\ QueuesOK /\ None \notin Callers
  BY <1>1, Controlled, ScopeFacts DEF Inv, ChatsOK
<1>3. Waiters(ctl) = Elems(ctl.pending) \cup Elems(ctl.inflight) \cup (IF ctl.reserved = None THEN {} ELSE {ctl.reserved})
  BY <1>2, WaitersAre
<1>4. ctl.reserved # None => mon[s].held.took /\ mon[s].held.call = "chat" /\ mon[s].held.value = ctl.reserved
  BY <1>1 DEF Inv, ChatsOK, ReservedOK
<1>5. /\ mon[s].held \in Replies
      /\ mon[s].held.took => mon[s].held.call \in Slots \/ (mon[s].held.call \in {"chat", "answer"} /\ mon[s].held.value \in Callers)
  BY <1>1 DEF HandOK
<1>6. /\ mon[s].held.call \in Slots => (StillHeld(s) <=> IsReserved(ctl, mon[s].held.call, s))
      /\ mon[s].held.call = "chat" => (StillHeld(s) <=> ctl.reserved = mon[s].held.value)
      /\ mon[s].held.call = "answer" => (StillHeld(s) <=> ctl.answering = mon[s].held.value)
  BY DEF StillHeld, Slots, IsReserved
<1>7. "chat" \notin Slots /\ "answer" \notin Slots
  BY DEF Slots
<1> QED BY <1>1, <1>2, <1>3, <1>4, <1>5, <1>6, <1>7

LEMMA ServeTypes ==
    ASSUME Types, NEW s \in Sessions, Others(s), ctl' \in Controllers, chat' \in [Callers -> Chats], given' \in Seq(Values),
           used' \in [DOMAIN Bounds -> Nat], call' \in [Sessions -> Calls \cup {"boot", "ending", "ended", "reported"}],
           UNCHANGED <<active, open, session, process, cleanup, down, stopped, starter, closer, child, row,
                       relay, reapers, asked, scope>>
    PROVE  Types'
<1>1. ManagerTypes' /\ scope' \in Scopes
  BY ScopeStays DEF Types, ManagerTypes
<1>2. RunTypes' /\ mon' \in [Sessions' -> Monitors']
  BY ScopeStays DEF Types, RunTypes, Others
<1>3. SteerTypes'
  BY ScopeStays DEF Types, SteerTypes
<1> QED BY <1>1, <1>2, <1>3 DEF Types

LEMMA SendStep ==
    ASSUME Inv, NEW s \in Sessions, Send(s), scope' = scope
    PROVE  Inv'
<1>p. PICK a : a = mon[s].held
  OBVIOUS
<1>0. /\ mon[s].at = "sending"
      /\ \E n \in a.next : call' = [call EXCEPT ![s] = n]
      /\ given' = IF a.call \in Slots /\ a.value # None THEN Append(given, a.value) ELSE given
      /\ mon' = IF a.took THEN [mon EXCEPT ![s].at = "sent"] ELSE [mon EXCEPT ![s].at = "watch", ![s].held = None]
      /\ UNCHANGED <<active, open, session, process, cleanup, down, stopped, ctl, starter, closer, child, row,
                     relay, reapers, chat, asked, used>>
  BY <1>p DEF Send, manager
<1>1. /\ s = session /\ Types /\ Life /\ ctl \in Controllers /\ mon[s] \in Monitors /\ a \in Replies
      /\ HandOK(s) /\ HeldOK(mon[s])
      /\ ctl.reserved # None => a.took /\ a.call = "chat" /\ a.value = ctl.reserved
  BY <1>0, <1>p, InHand DEF Holding
<1>2. /\ Others(s) /\ mon'[s].at = (IF a.took THEN "sent" ELSE "watch")
      /\ a.took => mon'[s].held = a
      /\ mon'[s].reaped = mon[s].reaped /\ mon'[s].quiet = mon[s].quiet
  <2>1. CASE a.took
    BY <1>0, <1>1, <1>p, <2>1 DEF Others, Types, Monitors
  <2>2. CASE ~a.took
    BY <1>0, <1>1, <1>p, <2>2 DEF Others, Types, Monitors
  <2> QED BY <2>1, <2>2
<1>3. a.call \in Slots => a.took /\ a.value \in Values \cup {None}
  BY <1>0, <1>1, <1>p DEF HandOK, Holding
<1>4. HandOK(s)'
  BY <1>0, <1>1, <1>2, <1>p, ScopeStays DEF HandOK, Holding
<1>5. ChatsOK'
  <2>1. QueuesOK'
    BY <1>0 DEF Inv, ChatsOK, QueuesOK
  <2>2. ReservedOK'
    BY <1>0, <1>1, <1>2, <1>p, ScopeStays DEF Inv, ChatsOK, ReservedOK, Holding
  <2> QED BY <1>0, <2>1, <2>2, ChatsSame
<1>6. given' \in Seq(Values) /\ Given' = Given \cup (IF a.call \in Slots /\ a.value # None THEN {a.value} ELSE {}) /\ Once(given')
  <2>0. given \in Seq(Values) /\ Once(given)
    BY <1>1 DEF Types, SteerTypes, Inv, ValuesOK, GivenOK
  <2>1. CASE a.call \in Slots /\ a.value # None
    <3>1. a.value \in Values /\ a.value \notin Given
      BY <1>0, <1>1, <1>3, <1>p, <2>1 DEF HeldOK
    <3>2. given' = Append(given, a.value)
      BY <1>0, <2>1
    <3> QED BY <2>0, <2>1, <3>1, <3>2, AppendQueue DEF Given, Elems
  <2>2. CASE ~(a.call \in Slots /\ a.value # None)
    <3>1. given' = given
      BY <1>0, <2>2
    <3> QED BY <2>0, <2>2, <3>1 DEF Given
  <2> QED BY <2>1, <2>2
<1>7. ValuesOK'
  <2>0. Sessions' = Sessions /\ (\A v : Mine(v)' = Mine(v)) /\ (\A k : Unmoved(k)' = Unmoved(k))
    BY <1>0, ScopeStays DEF Mine, Unmoved
  <2>1. SlotsOK'
    BY <1>0, <2>0 DEF Inv, ValuesOK, SlotsOK
  <2>2. a.call \in Slots /\ a.value # None => Mine(a.value)
    BY <1>1, <1>p DEF HeldOK
  <2>3. GivenOK'
    BY <1>0, <1>6, <2>0, <2>2 DEF Inv, ValuesOK, GivenOK
  <2>4. ASSUME NEW k \in Slots, ctl.slot[k].value # None, ctl.slot[k].value \in Given'
        PROVE  k = a.call /\ a.took /\ a.value = ctl.slot[k].value
    <3>1. ctl.slot[k].value \notin Given
      BY <1>0, <1>1, <2>4, NothingGone
    <3>2. a.call \in Slots /\ a.value = ctl.slot[k].value
      BY <1>6, <2>4, <3>1
    <3> QED BY <1>1, <1>3, <1>p, <2>4, <3>2 DEF HeldOK
  <2>5. GoneOK'
    BY <1>0, <1>1, <1>2, <2>0, <2>4 DEF GoneOK
  <2>6. ASSUME Holding(mon'[session]) PROVE HeldOK(mon[session])'
    <3>1. mon'[session'].at = "sent" /\ mon'[session'].held = a /\ mon[session].held = a
      BY <1>0, <1>1, <1>2, <1>p, <2>6 DEF Holding
    <3>2. a.call \in Slots /\ a.value # None => a.value \in Given'
      BY <1>6
    <3>3. ASSUME a.call \in Slots
          PROVE  /\ a.value # None => Mine(a.value)
                 /\ \A k \in Slots : a.value # None /\ ctl.slot[k].value = a.value => k = a.call /\ Unmoved(k)
                 /\ Unmoved(a.call) => ctl.slot[a.call].value = a.value
      BY <1>1, <1>p, <3>3 DEF HeldOK
    <3> QED BY <1>0, <2>0, <3>1, <3>2, <3>3 DEF HeldOK
  <2>7. NoValueLost'
    <3>1. Given \subseteq Given'
      BY <1>6
    <3>2. open => \A k \in Slots : asked[k] \in {None, ctl.slot[k].value} \cup Given
      BY DEF Inv, ValuesOK, NoValueLost, Given
    <3>3. open => \A k \in Slots : asked[k] \in {None, ctl.slot[k].value} \cup Given'
      BY <3>1, <3>2
    <3> QED BY <1>0, <3>3 DEF NoValueLost, Given
  <2>8. ~open' => \A k \in Slots : asked'[k] = None
    BY <1>0 DEF Inv, ValuesOK
  <2> QED BY <1>0, <2>0, <2>1, <2>3, <2>5, <2>6, <2>7, <2>8 DEF ValuesOK
<1>8. Types'
  <2>1. PICK n \in a.next : call' = [call EXCEPT ![s] = n]
    BY <1>0
  <2>2. n \in Calls \cup {"ending"}
    BY <1>1 DEF Replies
  <2>3. call' \in [Sessions -> Calls \cup {"boot", "ending", "ended", "reported"}]
    BY <1>1, <2>1, <2>2 DEF Types, RunTypes
  <2>4. chat' \in [Callers -> Chats] /\ used' \in [DOMAIN Bounds -> Nat]
    BY <1>0, <1>1 DEF Types, RunTypes, SteerTypes
  <2> QED BY <1>0, <1>1, <1>2, <1>6, <2>3, <2>4, ServeTypes
<1>9. Life'
  BY <1>0, <1>1, <1>2, LifeFrame DEF Serving, Others
<1>10. HandsOK'
  BY <1>2, <1>4, HandsSet
<1> QED BY <1>5, <1>7, <1>8, <1>9, <1>10 DEF Inv

LEMMA UnsentStep ==
    ASSUME Inv, NEW s \in Sessions, Unsent(s), scope' = scope
    PROVE  Inv'
<1>p. PICK a : a = mon[s].held
  OBVIOUS
<1>0. /\ mon[s].at = "sending"
      /\ used' = used \/ Spend("errors")
      /\ ctl' = IF ~a.took \/ ~StillHeld(s) THEN ctl
                ELSE CASE a.call \in Slots -> rollback_value(ctl, a.call, s)
                       [] a.call = "chat" -> rollback_chat(ctl)
                       [] a.call = "answer" -> rollback_chat_response(ctl)
      /\ mon' = [mon EXCEPT ![s].at = "leaving", ![s].held = None]
      /\ UNCHANGED <<active, open, session, process, cleanup, down, stopped, starter, closer, child, call, row,
                     relay, reapers, chat, given, asked>>
  BY <1>p DEF Unsent, manager, runs
<1>1. /\ s = session /\ Types /\ Life /\ ctl \in Controllers /\ mon[s] \in Monitors
      /\ ctl.pending \in Seq(Callers) /\ ctl.inflight \in Seq(Callers) /\ QueuesOK /\ None \notin Callers
      /\ Waiters(ctl) = Elems(ctl.pending) \cup Elems(ctl.inflight) \cup (IF ctl.reserved = None THEN {} ELSE {ctl.reserved})
      /\ ctl.reserved # None => a.took /\ a.call = "chat" /\ a.value = ctl.reserved
      /\ a.took /\ a.call = "chat" => (StillHeld(s) <=> ctl.reserved = a.value) /\ a.value \in Callers
      /\ a.took => a.call \in Slots \/ a.call = "chat" \/ a.call = "answer"
  BY <1>0, <1>p, InHand DEF Holding
<1>2. /\ Others(s) /\ mon'[s].at = "leaving"
      /\ mon'[s].reaped = mon[s].reaped /\ mon'[s].quiet = mon[s].quiet
  BY <1>0, <1>1 DEF Others, Types, Monitors
<1>3. used' \in [DOMAIN Bounds -> Nat] /\ used'.values = used.values
  BY <1>0, <1>1, Spends DEF Names, Types, RunTypes
<1>4. "chat" \notin Slots /\ "answer" \notin Slots
  BY DEF Slots
<1>5. /\ ctl' \in Controllers /\ ctl'.stop = ctl.stop /\ \A k \in Slots : ctl'.slot[k].value = ctl.slot[k].value
      /\ QueuesOK' /\ ReservedOK' /\ Waiters(ctl') = Waiters(ctl)
  <2>1. CASE ~a.took \/ ~StillHeld(s)
    <3>1. ctl' = ctl
      BY <1>0, <2>1
    <3>2. ctl.reserved = None
      BY <1>1, <2>1
    <3>3. ReservedOK' /\ QueuesOK'
      BY <3>1, <3>2 DEF Inv, ChatsOK, ReservedOK, QueuesOK
    <3> QED BY <1>1, <3>1, <3>3
  <2>2. CASE a.took /\ StillHeld(s) /\ a.call \in Slots
    <3>1. ctl' = rollback_value(ctl, a.call, s)
      BY <1>0, <1>4, <2>2
    <3>2. /\ ctl' \in Controllers /\ ctl'.stop = ctl.stop /\ SameChats(ctl, ctl')
          /\ ctl'.slot[a.call].value = ctl.slot[a.call].value /\ \A l \in Slots \ {a.call} : ctl'.slot[l] = ctl.slot[l]
      BY <1>1, <2>2, <3>1, RollbackValue
    <3>3. ctl.reserved = None
      BY <1>1, <1>4, <2>2
    <3>4. ReservedOK' /\ QueuesOK'
      BY <3>2, <3>3 DEF Inv, ChatsOK, ReservedOK, QueuesOK, SameChats
    <3>5. Waiters(ctl') = Waiters(ctl)
      BY <3>2 DEF Waiters, SameChats
    <3> QED BY <3>2, <3>4, <3>5
  <2>3. CASE a.took /\ StillHeld(s) /\ a.call = "chat"
    <3>1. ctl' = rollback_chat(ctl)
      BY <1>0, <1>4, <2>3
    <3>2. ctl.reserved = a.value /\ ctl.reserved \in Callers /\ ctl.reserved # None
      BY <1>1, <2>3
    <3>3. /\ ctl' \in Controllers /\ SameSlots(ctl, ctl') /\ ctl'.inflight = ctl.inflight /\ ctl'.reserved = None
          /\ ctl'.answering = ctl.answering /\ ctl'.pending = <<ctl.reserved>> \o ctl.pending
      BY <1>1, <3>1, <3>2, ChatMethods
    <3>4. ctl.reserved \notin Elems(ctl.pending) \cup Elems(ctl.inflight) /\ Once(ctl.pending)
      BY <1>1 DEF QueuesOK
    <3>5. /\ ctl'.pending \in Seq(Callers) /\ Elems(ctl'.pending) = Elems(ctl.pending) \cup {ctl.reserved} /\ Once(ctl'.pending)
      BY <1>1, <3>2, <3>3, <3>4, PushQueue
    <3>6. None \notin Elems(ctl'.pending) \cup Elems(ctl'.inflight)
      BY <1>1, <3>3, <3>5 DEF Elems
    <3>7. QueuesOK'
      BY <1>1, <3>3, <3>4, <3>5, <3>6 DEF QueuesOK
    <3>8. ReservedOK'
      BY <3>3 DEF Inv, ChatsOK, ReservedOK
    <3>9. Waiters(ctl') = Elems(ctl'.pending) \cup Elems(ctl'.inflight)
      BY <1>1, <3>3, <3>5, WaitersAre
    <3>10. Waiters(ctl') = Waiters(ctl)
      BY <1>1, <3>2, <3>3, <3>5, <3>9
    <3> QED BY <3>3, <3>7, <3>8, <3>10 DEF SameSlots
  <2>4. CASE a.took /\ StillHeld(s) /\ a.call = "answer"
    <3>1. ctl' = rollback_chat_response(ctl)
      BY <1>0, <1>4, <2>4
    <3>2. /\ ctl' \in Controllers /\ SameSlots(ctl, ctl') /\ ctl'.inflight = ctl.inflight /\ ctl'.reserved = ctl.reserved
          /\ ctl'.answering = None /\ ctl'.pending = ctl.pending
      BY <1>1, <3>1, ChatMethods
    <3>3. ctl.reserved = None
      BY <1>1, <2>4
    <3>4. ReservedOK' /\ QueuesOK'
      BY <1>1, <3>2, <3>3 DEF ReservedOK, QueuesOK
    <3>5. Waiters(ctl') = Waiters(ctl)
      BY <3>2 DEF Waiters
    <3> QED BY <3>2, <3>4, <3>5 DEF SameSlots
  <2> QED BY <1>1, <2>1, <2>2, <2>3, <2>4
<1>6. ChatsOK'
  BY <1>0, <1>5, ChatsSame
<1>7. ValuesOK'
  <2>1. \A k \in Slots : ctl.slot[k].value # None => ctl.slot[k].value \notin Given
    BY <1>0, <1>1, NothingGone
  <2>2. ~Holding(mon'[session])
    BY <1>1, <1>2 DEF Holding
  <2> QED BY <1>0, <1>3, <1>5, <2>1, <2>2, ValuesSame
<1>8. Types'
  <2>1. /\ chat' \in [Callers -> Chats] /\ call' \in [Sessions -> Calls \cup {"boot", "ending", "ended", "reported"}]
        /\ given' \in Seq(Values)
    BY <1>0, <1>1 DEF Types, RunTypes, SteerTypes
  <2> QED BY <1>0, <1>1, <1>2, <1>3, <1>5, <2>1, ServeTypes
<1>9. Life'
  BY <1>0, <1>1, <1>2, LifeFrame DEF Serving, Others
<1>10. HandsOK'
  BY <1>2, HandsSet DEF Holding
<1> QED BY <1>6, <1>7, <1>8, <1>9, <1>10 DEF Inv

LEMMA CommitStep ==
    ASSUME Inv, NEW s \in Sessions, Commit(s), scope' = scope
    PROVE  Inv'
<1>p. PICK a : a = mon[s].held
  OBVIOUS
<1>0. /\ mon[s].at = "sent"
      /\ mon' = [mon EXCEPT ![s].at = IF StillHeld(s) THEN "watch" ELSE "leaving", ![s].held = None]
      /\ ctl' = IF ~StillHeld(s) THEN ctl
                ELSE CASE a.call \in Slots -> commit_value(ctl, a.call, s)
                       [] a.call = "chat" -> commit_chat(ctl)
                       [] a.call = "answer" -> commit_chat_response(ctl)
      /\ chat' = IF a.call = "answer" /\ StillHeld(s)
                 THEN [chat EXCEPT ![a.value] = [@ EXCEPT !.at = "answered", !.by = s]] ELSE chat
      /\ UNCHANGED <<active, open, session, process, cleanup, down, stopped, starter, closer, child, call, row,
                     relay, reapers, given, asked, used>>
  BY <1>p DEF Commit, manager, runs
<1>1. /\ s = session /\ Types /\ Life /\ ctl \in Controllers /\ mon[s] \in Monitors /\ HeldOK(mon[s])
      /\ ctl.pending \in Seq(Callers) /\ ctl.inflight \in Seq(Callers) /\ QueuesOK /\ None \notin Callers
      /\ Waiters(ctl) = Elems(ctl.pending) \cup Elems(ctl.inflight) \cup (IF ctl.reserved = None THEN {} ELSE {ctl.reserved})
      /\ ctl.reserved # None => a.call = "chat" /\ a.value = ctl.reserved
      /\ a.call \in Slots => (StillHeld(s) <=> IsReserved(ctl, a.call, s))
      /\ a.call = "chat" => (StillHeld(s) <=> ctl.reserved = a.value) /\ a.value \in Callers
      /\ a.call = "answer" => (StillHeld(s) <=> ctl.answering = a.value) /\ a.value \in Callers
      /\ a.call \in Slots \/ a.call = "chat" \/ a.call = "answer"
  <2>1. Holding(mon[s])
    BY <1>0 DEF Holding
  <2>2. a.took
    BY <1>0, <1>p, <2>1, InHand DEF HandOK
  <2> QED BY <1>p, <2>1, <2>2, InHand
<1>2. /\ Others(s) /\ mon'[s].at = (IF StillHeld(s) THEN "watch" ELSE "leaving")
      /\ mon'[s].reaped = mon[s].reaped /\ mon'[s].quiet = mon[s].quiet
  BY <1>0, <1>1 DEF Others, Types, Monitors
<1>3. "chat" \notin Slots /\ "answer" \notin Slots
  BY DEF Slots
<1>4. ~Holding(mon'[session])
  BY <1>1, <1>2 DEF Holding
<1>5. ASSUME NEW k \in Slots, ctl.slot[k].value # None, ctl.slot[k].value \in Given
      PROVE  a.call = k /\ a.value = ctl.slot[k].value /\ Unmoved(k) /\ StillHeld(s)
  <2>1. a.call = k /\ a.value = ctl.slot[k].value
    BY <1>1, <1>p, <1>5 DEF Inv, ValuesOK, GoneOK
  <2>2. Unmoved(k)
    BY <1>1, <1>5, <1>p, <2>1 DEF HeldOK
  <2> QED BY <1>1, <2>1, <2>2 DEF Unmoved
<1>6. ctl' \in Controllers /\ chat' \in [Callers -> Chats] /\ ChatsOK' /\ ValuesOK'
  <2>0. chat \in [Callers -> Chats]
    BY <1>1 DEF Types, SteerTypes
  <2>1. CASE ~StillHeld(s)
    <3>1. ctl' = ctl /\ chat' = chat /\ ctl.reserved = None
      BY <1>0, <1>1, <2>1
    <3>2. QueuesOK' /\ ReservedOK'
      BY <3>1 DEF Inv, ChatsOK, QueuesOK, ReservedOK
    <3>3. ChatsOK'
      BY <1>0, <3>1, <3>2, ChatsSame
    <3>4. \A k \in Slots : ctl.slot[k].value # None => ctl.slot[k].value \notin Given
      BY <1>5, <2>1
    <3>5. ValuesOK'
      BY <1>0, <1>4, <3>1, <3>4, ValuesSame
    <3> QED BY <1>1, <2>0, <3>1, <3>3, <3>5
  <2>2. CASE StillHeld(s) /\ a.call \in Slots
    <3>0. chat' = chat /\ ctl' = commit_value(ctl, a.call, s) /\ ctl.reserved = None
      BY <1>0, <1>1, <1>3, <2>2
    <3>1. /\ ctl' \in Controllers /\ ctl'.stop = ctl.stop /\ SameChats(ctl, ctl')
          /\ ctl'.slot[a.call].value = (IF ctl.slot[a.call].reserved.moved THEN ctl.slot[a.call].value ELSE None)
          /\ \A l \in Slots \ {a.call} : ctl'.slot[l] = ctl.slot[l]
      BY <1>1, <2>2, <3>0, CommitValue
    <3>2. QueuesOK' /\ ReservedOK'
      BY <3>0, <3>1 DEF Inv, ChatsOK, QueuesOK, ReservedOK, SameChats
    <3>3. Waiters(ctl') = Waiters(ctl)
      BY <3>1 DEF Waiters, SameChats
    <3>4. ChatsOK'
      BY <1>0, <3>0, <3>2, <3>3, ChatsSame
    <3>5. \A k \in Slots : ctl'.slot[k].value \in {ctl.slot[k].value, None}
      BY <3>1
    <3>6. ASSUME NEW k \in Slots, ctl'.slot[k].value # ctl.slot[k].value PROVE ctl.slot[k].value \in Given \cup {None}
      <4>1. k = a.call /\ ~ctl.slot[k].reserved.moved
        BY <3>1, <3>6
      <4>2. Unmoved(k)
        BY <1>1, <2>2, <4>1 DEF Unmoved
      <4>3. ctl.slot[k].value = a.value
        BY <1>1, <1>p, <2>2, <4>1, <4>2 DEF HeldOK
      <4>4. a.value # None => a.value \in Given
        BY <1>0, <1>1, <1>p, <2>2 DEF HeldOK
      <4> QED BY <4>3, <4>4
    <3>7. ASSUME NEW k \in Slots, ctl'.slot[k].value # None PROVE ctl'.slot[k].value \notin Given
      <4>1. ctl'.slot[k].value = ctl.slot[k].value
        BY <3>5, <3>7
      <4>2. SUFFICES ASSUME ctl.slot[k].value \in Given PROVE FALSE
        BY <4>1
      <4>3. a.call = k /\ Unmoved(k)
        BY <1>5, <3>7, <4>1, <4>2
      <4>4. ~ctl.slot[k].reserved.moved
        BY <4>3 DEF Unmoved
      <4> QED BY <3>1, <3>7, <4>3, <4>4
    <3>8. ValuesOK'
      BY <1>0, <1>4, <3>1, <3>5, <3>6, <3>7, ValuesSame
    <3> QED BY <2>0, <3>0, <3>1, <3>4, <3>8
  <2>3. ASSUME a.call \notin Slots, ctl' \in Controllers, SameSlots(ctl, ctl') PROVE ValuesOK'
    <3>1. \A k \in Slots : ctl.slot[k].value # None => ctl.slot[k].value \notin Given
      BY <1>5, <2>3
    <3> QED BY <1>0, <1>4, <2>3, <3>1, ValuesSame DEF SameSlots
  <2>4. CASE StillHeld(s) /\ a.call = "chat"
    <3>0. chat' = chat /\ ctl' = commit_chat(ctl) /\ ctl.reserved = a.value /\ a.value \in Callers /\ ctl.reserved # None
      BY <1>0, <1>1, <1>3, <2>4
    <3>1. /\ ctl' \in Controllers /\ SameSlots(ctl, ctl') /\ ctl'.inflight = Append(ctl.inflight, ctl.reserved) /\ ctl'.reserved = None
          /\ ctl'.answering = ctl.answering /\ ctl'.pending = ctl.pending
      BY <1>1, <3>0, ChatMethods
    <3>2. ctl.reserved \notin Elems(ctl.pending) \cup Elems(ctl.inflight) /\ Once(ctl.inflight)
      BY <1>1 DEF QueuesOK
    <3>3. /\ ctl'.inflight \in Seq(Callers) /\ ctl'.inflight # <<>> /\ Elems(ctl'.inflight) = Elems(ctl.inflight) \cup {ctl.reserved}
          /\ Once(ctl'.inflight) /\ (ctl.inflight # <<>> => Head(ctl'.inflight) = Head(ctl.inflight))
      BY <1>1, <3>0, <3>1, <3>2, AppendQueue
    <3>4. None \notin Elems(ctl'.pending) \cup Elems(ctl'.inflight)
      BY <1>1, <3>1, <3>3 DEF Elems
    <3>5. QueuesOK'
      BY <1>1, <3>1, <3>2, <3>3, <3>4 DEF QueuesOK
    <3>6. ReservedOK'
      BY <3>1, <3>3 DEF Inv, ChatsOK, ReservedOK
    <3>7. Waiters(ctl') = Elems(ctl'.pending) \cup Elems(ctl'.inflight)
      BY <1>1, <3>1, <3>3, WaitersAre
    <3>8. Waiters(ctl') = Waiters(ctl)
      BY <1>1, <3>0, <3>1, <3>3, <3>7
    <3>9. ChatsOK'
      BY <1>0, <3>0, <3>5, <3>6, <3>8, ChatsSame
    <3> QED BY <1>3, <2>0, <2>3, <2>4, <3>0, <3>1, <3>9
  <2>5. CASE StillHeld(s) /\ a.call = "answer"
    <3>0. /\ chat' = [chat EXCEPT ![a.value] = [@ EXCEPT !.at = "answered", !.by = s]] /\ ctl' = commit_chat_response(ctl)
          /\ ctl.answering = a.value /\ a.value \in Callers /\ ctl.answering # None /\ ctl.reserved = None
      BY <1>0, <1>1, <1>3, <2>5
    <3>1. ctl.inflight # <<>> /\ Head(ctl.inflight) = a.value
      BY <3>0 DEF Inv, ChatsOK, ReservedOK
    <3>2. /\ ctl' \in Controllers /\ SameSlots(ctl, ctl') /\ ctl'.inflight = Tail(ctl.inflight) /\ ctl'.reserved = ctl.reserved
          /\ ctl'.answering = None /\ ctl'.pending = ctl.pending
      BY <1>1, <3>0, <3>1, ChatMethods
    <3>3. /\ Tail(ctl.inflight) \in Seq(Callers) /\ a.value \in Elems(ctl.inflight)
          /\ Elems(ctl.inflight) = Elems(Tail(ctl.inflight)) \cup {a.value}
          /\ a.value \notin Elems(Tail(ctl.inflight)) /\ Once(Tail(ctl.inflight))
      BY <1>1, <3>1, TailQueue DEF QueuesOK
    <3>4. QueuesOK'
      BY <1>1, <3>2, <3>3 DEF QueuesOK
    <3>5. ReservedOK'
      BY <3>0, <3>2 DEF ReservedOK
    <3>6. Waiters(ctl') = Elems(ctl.pending) \cup Elems(Tail(ctl.inflight))
      BY <1>1, <3>0, <3>2, <3>3, WaitersAre
    <3>7. Waiters(ctl') = Waiters(ctl) \ {a.value} /\ a.value \in Waiters(ctl)
      BY <1>1, <3>0, <3>3, <3>6 DEF QueuesOK
    <3>8. s \in 0..MaxRuns /\ chat[a.value] \in Chats
      BY <1>1, <2>0, <3>0 DEF Types, ManagerTypes
    <3>9. /\ chat' \in [Callers -> Chats] /\ chat'[a.value].at = "answered" /\ chat'[a.value].by = s
          /\ chat'[a.value].run = chat[a.value].run /\ \A w \in Callers \ {a.value} : chat'[w] = chat[w]
      BY <2>0, <3>0, <3>8 DEF Chats
    <3>10. /\ {w \in Callers : chat[w].at = "waiting"} = Waiters(ctl) /\ (Waiters(ctl) # {} => active /\ open)
           /\ \A w \in Callers : chat[w].at = "answered" => chat[w].by = chat[w].run
           /\ \A w \in Callers : chat[w].at = "waiting" => chat[w].run = session
      BY DEF Inv, ChatsOK, WaitingIsHeld, AnsweredByItsRun
    <3>11. {w \in Callers : chat'[w].at = "waiting"} = Waiters(ctl')
      BY <3>7, <3>9, <3>10
    <3>12. WaitingIsHeld'
      BY <1>0, <3>7, <3>10, <3>11, ScopeStays DEF WaitingIsHeld
    <3>13. chat[a.value].run = s
      BY <1>1, <3>0, <3>7, <3>10
    <3>14. AnsweredByItsRun'
      BY <3>9, <3>10, <3>13, ScopeStays DEF AnsweredByItsRun
    <3>15. ChatsOK'
      BY <1>0, <3>4, <3>5, <3>9, <3>10, <3>12, <3>14, ScopeStays DEF ChatsOK
    <3> QED BY <1>3, <2>3, <2>5, <3>2, <3>9, <3>15
  <2> QED BY <1>1, <2>1, <2>2, <2>4, <2>5
<1>7. Types'
  <2>1. /\ used' \in [DOMAIN Bounds -> Nat] /\ call' \in [Sessions -> Calls \cup {"boot", "ending", "ended", "reported"}]
        /\ given' \in Seq(Values)
    BY <1>0, <1>1 DEF Types, RunTypes, SteerTypes
  <2> QED BY <1>0, <1>1, <1>2, <1>6, <2>1, ServeTypes
<1>8. Life'
  BY <1>0, <1>1, <1>2, LifeFrame DEF Serving, Others
<1>9. HandsOK'
  BY <1>2, HandsSet DEF Holding
<1> QED BY <1>6, <1>7, <1>8, <1>9 DEF Inv

-----------------------------------------------------------------------------
LEMMA InitInv == Init => Inv
<1> SUFFICES ASSUME Init PROVE Inv
  OBVIOUS
<1>0. scope \in Scopes /\ MaxRuns \in Nat /\ Sessions = 1..MaxRuns /\ DOMAIN Bounds = Names /\ None \notin Callers
  BY ScopeFacts DEF Init
<1>1. /\ active = FALSE /\ open = FALSE /\ session = 0 /\ process = None /\ cleanup = None /\ down = FALSE /\ stopped = FALSE
      /\ starter = "off" /\ closer = [at |-> "up", process |-> None, session |-> 0] /\ ctl = Fresh
      /\ given = <<>> /\ asked = [k \in Slots |-> None]
  BY DEF Init
<1>2. /\ child = [s \in Sessions |-> "none"] /\ call = [s \in Sessions |-> "boot"] /\ row = [s \in Sessions |-> None]
      /\ mon = [s \in Sessions |-> [at |-> "off", exited |-> FALSE, reaped |-> FALSE, quiet |-> TRUE, held |-> None]]
      /\ relay = [s \in Sessions |-> "off"] /\ reapers = [s \in Sessions |-> {}]
      /\ chat = [w \in Callers |-> [at |-> "idle", run |-> 0, by |-> 0]] /\ used = [b \in DOMAIN Bounds |-> 0]
  BY DEF Init
<1>3. \A s \in Sessions : mon[s] \in Monitors /\ mon[s].at = "off" /\ mon[s].reaped = FALSE
  BY <1>2 DEF Monitors
<1>4. \A w \in Callers : chat[w] \in Chats /\ chat[w].at = "idle"
  BY <1>0, <1>2 DEF Chats
<1>5. Types
  <2>1. ManagerTypes
    <3>1. active \in BOOLEAN /\ open \in BOOLEAN /\ down \in BOOLEAN /\ stopped \in BOOLEAN
      BY <1>1
    <3>2. 0 \in 0..MaxRuns /\ session \in 0..MaxRuns
      BY <1>0, <1>1
    <3>3. process \in Sessions \cup {None} /\ cleanup \in {None}
      BY <1>1
    <3>4. starter \in {"off", "reserved", "unwinding"}
      BY <1>1
    <3>5. closer \in [at : {"up", "stopping", "joining", "down"}, process : Sessions \cup {None}, session : 0..MaxRuns]
      <4> DEFINE Marks == 0..MaxRuns
      <4>1. 0 \in Marks
        BY <3>2
      <4> HIDE DEF Marks
      <4>2. closer \in [at : {"up", "stopping", "joining", "down"}, process : Sessions \cup {None}, session : Marks]
        BY <1>1, <4>1
      <4> QED BY <4>2 DEF Marks
    <3> QED BY <3>1, <3>2, <3>3, <3>4, <3>5 DEF ManagerTypes
  <2>2. RunTypes
    BY <1>0, <1>2 DEF RunTypes
  <2>3. mon \in [Sessions -> Monitors]
    BY <1>2, <1>3
  <2>4. chat \in [Callers -> Chats]
    BY <1>2, <1>4
  <2>5. SteerTypes
    BY <1>1, <2>4, FreshController DEF SteerTypes
  <2> QED BY <1>0, <2>1, <2>2, <2>3, <2>5 DEF Types
<1>6. Life
  <2>1. ManagerOK /\ StarterOK /\ CloserOK
    BY <1>1 DEF ManagerOK, StarterOK, CloserOK
  <2>2. ASSUME NEW s \in Sessions PROVE LifeAt(s)
    <3>1. child[s] = "none" /\ row[s] = None /\ relay[s] = "off" /\ reapers[s] = {} /\ row[s] # "running"
      BY <1>2, ServerAssumption
    <3> QED BY <1>3, <3>1 DEF LifeAt, FutureOK, ChildOK, MonitorOK, RelayOK, Live
  <2> QED BY <2>1, <2>2 DEF Life
<1>7. HandsOK
  BY <1>3 DEF HandsOK, HandOK, Holding
<1>8. ChatsOK
  <2>1. ctl.reserved = None /\ ctl.answering = None /\ ctl.pending = <<>> /\ ctl.inflight = <<>>
    BY <1>1, FreshController
  <2>2. QueuesOK /\ ReservedOK
    BY <2>1, EmptyQueue DEF QueuesOK, ReservedOK
  <2>3. Waiters(ctl) = {}
    BY <2>1, WaitersNone
  <2> QED BY <1>4, <2>2, <2>3 DEF ChatsOK, WaitingIsHeld, AnsweredByItsRun
<1>9. ValuesOK
  <2>1. ctl.stop = None /\ \A k \in Slots : ctl.slot[k].value = None
    BY <1>1, FreshController
  <2>2. Given = {} /\ Once(given)
    BY <1>1, EmptyQueue DEF Given, Elems
  <2>3. SlotsOK /\ GivenOK /\ GoneOK
    BY <2>1, <2>2 DEF SlotsOK, GivenOK, GoneOK
  <2>4. ~(session \in Sessions)
    BY <1>0, <1>1
  <2>5. NoValueLost /\ \A k \in Slots : asked[k] = None
    BY <1>1 DEF NoValueLost
  <2> QED BY <2>3, <2>4, <2>5 DEF ValuesOK
<1> QED BY <1>5, <1>6, <1>7, <1>8, <1>9 DEF Inv

LEMMA StutterInv ==
    ASSUME Inv, UNCHANGED <<vars, scope>>
    PROVE  Inv'
<1>0. UNCHANGED <<active, open, session, process, cleanup, down, stopped, ctl, starter, closer, child, call, row,
                  mon, relay, reapers, chat, given, asked, used, scope>>
  BY DEF vars, manager, runs
<1>1. Types'
  BY <1>0, ScopeStays DEF Inv, Types, ManagerTypes, RunTypes, SteerTypes
<1>2. Life'
  BY <1>0, LifeFrame DEF Inv
<1>3. HandsOK' /\ ChatsOK' /\ ValuesOK'
  BY <1>0, KeptAlike, SteerFrame DEF HandsStay, Kept
<1> QED BY <1>1, <1>2, <1>3 DEF Inv

LEMMA NextInv ==
    ASSUME Inv, [Next]_<<vars, scope>>
    PROVE  Inv'
<1>1. CASE UNCHANGED <<vars, scope>>
  BY <1>1, StutterInv
<1>2. CASE Next
  <2>0. scope' = scope
    BY <1>2 DEF Next
  <2>1. CASE Starting
    BY <2>0, <2>1, ReserveRunStep, SpawnStep, SpawnFailsStep, MonitorStartFailsStep, UnwindStep DEF Starting
  <2>2. CASE Clients
    BY <2>0, <2>2, PauseStep, ResumeStep, PutStep, StopRunStep, PrepareChatStep, ChatRunStep DEF Clients
  <2>3. CASE Closing
    BY <2>0, <2>3, ShutdownBeginsStep, ShutdownStopsStep, ShutdownCleansStep DEF Closing
  <2>4. ASSUME NEW s \in Sessions, ChildStep(s) \/ ChildDies(s) PROVE Inv'
    BY <2>0, <2>4, ChildBootsStep, ChildEndsStep, send_resultStep, ChildExitsStep, ChildLosesServerStep, ChildDiesStep DEF ChildStep
  <2>5. ASSUME NEW s \in Sessions, MonitorStep(s) PROVE Inv'
    BY <2>0, <2>5, DispatchStep, SendStep, UnsentStep, CommitStep, SeeResultStep, SeeExitStep, FailStep, ReapStep, LeaveStep,
       CleanupStep DEF MonitorStep
  <2>6. ASSUME NEW s \in Sessions, Reaping(s) \/ SubscriberBlocks(s) \/ SubscriberReturns(s) PROVE Inv'
    BY <2>0, <2>6, RetryReapStep, FinishAfterRelayStep, SubscriberBlocksStep, SubscriberReturnsStep DEF Reaping
  <2> QED BY <1>2, <2>1, <2>2, <2>3, <2>4, <2>5, <2>6 DEF Next
<1> QED BY <1>1, <1>2

LEMMA InvServer == Inv => ServerInv
<1> SUFFICES ASSUME Inv PROVE ServerInv
  OBVIOUS
<1>1. TypeOK
  <2>1. Len(ctl.pending) + Len(ctl.inflight) <= Cardinality(Callers)
    <3>1. scope \in Scopes /\ ctl \in Controllers /\ QueuesOK
      BY DEF Inv, Types, SteerTypes, ChatsOK
    <3>2. ctl.pending \in Seq(Callers) /\ ctl.inflight \in Seq(Callers) /\ IsFiniteSet(Callers)
      BY <3>1, Controlled, ScopeFacts
    <3> QED BY <3>1, <3>2, QueueBound DEF QueuesOK
  <2>2. ctl.stop \in Sessions \cup {None} /\ ctl.paused \in BOOLEAN /\ \A k \in Slots : ctl.slot[k].value \in Values \cup {None}
    BY Controlled DEF Inv, Types, SteerTypes, Controllers
  <2>3. \A w \in Callers : chat[w].at \in {"idle", "prepared", "waiting", "answered", "refused"}
    BY DEF Inv, Types, SteerTypes, Chats
  <2>4. closer.at \in {"up", "stopping", "joining", "down"}
    BY DEF Inv, Types, ManagerTypes
  <2>5. \A s \in Sessions : /\ child[s] \in {"none", "running", "exited", "reaped", "closed"}
                           /\ call[s] \in Calls \cup {"boot", "ending", "ended", "reported"}
                           /\ row[s] \in {None, "running", "ended", "failed"}
                           /\ mon[s].at \in {"off", "watch", "sending", "sent", "leaving", "cleaning", "done"}
                           /\ relay[s] \in {"off", "on", "blocked", "done"}
                           /\ reapers[s] \subseteq {"process", "relay"}
    BY DEF Inv, Types, RunTypes, Monitors
  <2> QED BY <2>1, <2>2, <2>3, <2>4, <2>5 DEF TypeOK, Inv, Types, ManagerTypes
<1>2. OneChild /\ ReleasedIsRepaired
  BY DEF Inv, Life, LifeAt, ChildOK, OneChild, ReleasedIsRepaired
<1>3. RelayIsOver
  <2>1. \A s \in Sessions : s < session => s # session
    BY ScopeFacts DEF Inv, Types, ManagerTypes
  <2> QED BY <2>1 DEF Inv, Life, LifeAt, RelayOK, RelayIsOver
<1> QED BY <1>1, <1>2, <1>3 DEF ServerInv

LEMMA InvSteering == Inv => SteeringInv
<1> SUFFICES ASSUME Inv PROVE SteeringInv
  OBVIOUS
<1>1. SteeredByItsOwn
  BY DEF Inv, ValuesOK, GivenOK, Given, Mine, Once, SteeredByItsOwn
<1> QED BY <1>1 DEF Inv, ChatsOK, ValuesOK, SteeringInv

(* Whatever a client, a child, a subscriber or a signal does, and whenever *)
(* the server shuts down, runs do not overlap: a child that was not reaped *)
(* is the current run's and the manager is taken, a free manager leaves no *)
(* row as running, and a run begins when its predecessor's subscribers     *)
(* were served (where children can be killed).                             *)
THEOREM ServerSafe == Spec => []ServerInv
<1>1. Inv /\ [Next]_<<vars, scope>> => Inv'
  BY NextInv
<1> QED BY <1>1, InitInv, InvServer, PTL DEF Spec

(* Every chat that waits is in the controller's hands and is answered by   *)
(* its own run only; a stop, a hint and an override reach the run they     *)
(* were meant for, once, and the last one accepted is not lost.            *)
THEOREM SteeringSafe == Spec => []SteeringInv
<1>1. Inv /\ [Next]_<<vars, scope>> => Inv'
  BY NextInv
<1> QED BY <1>1, InitInv, InvSteering, PTL DEF Spec

=============================================================================
