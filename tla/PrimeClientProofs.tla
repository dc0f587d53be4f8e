------------------------- MODULE PrimeClientProofs -------------------------
(***************************************************************************)
(* Proofs about PrimeClient: whatever executions, cancel calls, crashes    *)
(* and failing transactions interleave on one request, ClientInv holds and *)
(* the client implements PaidEvaluation, for every set of processes and    *)
(* every scope.                                                            *)
(*                                                                         *)
(* The inductive invariant says what the row, the sandboxes and the        *)
(* registry of a process tell about the point its execution has reached.   *)
(* Its centre is that the claim makes one process the worker of the        *)
(* request for good: only the worker touches sandboxes, so what it found   *)
(* out about them is still true when it commits.                           *)
(***************************************************************************)
EXTENDS PrimeClient, FiniteSetTheorems, TLAPS

\* Between the claim and the commit.
Working == {"loop", "gate", "create", "register", "wait", "get", "check", "dispatch", "running", "cleanup",
            "delete", "await", "exit", "publish", "commit"}
\* The sandbox of the attempt exists, or did.
Created == {"register", "wait", "get", "check", "dispatch", "running", "cleanup", "delete", "await", "exit"}
\* The row holds a result that the execution delivers.
Holding == {"adopt", "reserve", "sink", "ack", "fail"}
\* Before the claim.
Early == {"replay", "refused", "preflight", "claim", "adopt"}

Untouched(s) == box[s] = "none" /\ cleanup[s] = "no" /\ deletes[s] = 0 /\ s \notin paid
NoneAlive == \A s \in Sandboxes : box[s] # "alive"

\* What a sandbox's cleanup record says.
BoxesOK ==
    /\ deletes \in [Sandboxes -> Nat]
    /\ \A s \in Sandboxes : /\ deletes[s] <= 1
                            /\ cleanup[s] = "no" => deletes[s] = 0
                            /\ cleanup[s] = "ok" => box[s] = "gone"
    /\ row.state = "none" => \A s \in Sandboxes : Untouched(s)

\* What the sink heard is the row's result.
HeardOK == \A r \in heard : row.state = "completed" /\ r = row.result

OneWorker == \A p, q \in Procs : pc[p] \in Working /\ pc[q] \in Working => p = q

\* The worker's attempts: earlier ones left nothing alive and paid for nothing.
AttemptOK(p) ==
    /\ row.state = "claimed"
    /\ \A s \in Sandboxes : /\ s[1] # p \/ s[2] > attempt[p] + 1 => Untouched(s)
                            /\ s[1] = p /\ s[2] <= attempt[p] => box[s] # "alive" /\ s \notin paid
    /\ ~sent[p] => Current(p) \notin paid
    /\ pc[p] \in {"loop", "gate", "create"} => Untouched(Current(p)) /\ clean[p]
    /\ pc[p] \in {"loop", "gate", "create", "register", "wait", "get", "check", "dispatch"} => ~sent[p]
    /\ pc[p] \in Created => box[Current(p)] # "none"
    /\ pc[p] = "exit" /\ clean[p] => box[Current(p)] # "alive"
    /\ pc[p] \in {"cleanup", "delete", "await", "exit"} /\ fault[p] = "none" /\ p \notin requested =>
         Current(p) \in paid
    /\ pc[p] \in {"publish", "commit"} =>
         /\ result[p] \in Results
         /\ result[p].cleanup => NoneAlive
         /\ result[p].retryable => NoneAlive /\ paid = {}
         /\ result[p].status = "success" => paid # {}

\* A delivery that is not late holds the lease.
DeliveryOK(p) ==
    /\ pc[p] \in Holding => row.state = "completed" /\ result[p] = row.result
    /\ Delivering(p) /\ p \notin late => row.token = p /\ ~row.expired

\* The registered sandbox is the one of the attempt, until somebody deleted it.
ActiveOK(p) ==
    /\ active[p] # None =>
         /\ pc[p] \in Working \cup Holding
         /\ pc[p] \notin {"loop", "gate", "create", "register", "adopt"}
         /\ active[p] = Current(p) /\ box[Current(p)] # "none" /\ cleanup[Current(p)] \in {"no", "started"}
    /\ pc[p] \in {"wait", "get", "check", "dispatch"} /\ active[p] = None => cleanup[Current(p)] \in {"ok", "failed"}
    /\ pc[p] = "register" => cleanup[Current(p)] = "no" /\ canceler[p].box # Current(p)
    /\ pc[p] = "exit" /\ clean[p] => active[p] = None
    /\ pc[p] = "delete" => /\ cleanup[Current(p)] = "started" /\ deletes[Current(p)] = 0
                           /\ ~(canceler[p].at = "delete" /\ canceler[p].box = Current(p))

\* The thread inside cancel_request works on a sandbox of its own process.
CancelerOK(p) ==
    \/ canceler[p] = NoThread
    \/ /\ canceler[p] \in [at : {"cleanup", "delete", "await"}, box : Sandboxes]
       /\ canceler[p].box[1] = p /\ box[canceler[p].box] # "none"
       /\ canceler[p].at = "delete" => cleanup[canceler[p].box] = "started" /\ deletes[canceler[p].box] = 0
       /\ InFlight(p) => p \in requested
       /\ pc[p] = "dispatch" => canceler[p].box = Current(p)

\* What the execution knows of a cancellation, and what it returns.
CallOK(p) ==
    /\ InFlight(p) => returned[p] = None
    /\ returned[p] # None => /\ row.state = "completed" /\ returned[p] = row.result
                             /\ p \in acked /\ p \in ran => returned[p].status = "canceled"
    /\ InFlight(p) /\ p \in acked => p \in requested
    /\ pc[p] \in Early => p \notin ran
    /\ pc[p] \in Early \cup {"idle"} => clean[p] /\ ~sent[p]
    /\ pc[p] \in {"commit", "reserve", "sink", "ack", "fail"} =>
         /\ p \in committed
         /\ p \in ran /\ p \in requested => result[p].status = "canceled"
    /\ pc[p] = "dispatch" /\ p \in acked => cleanup[Current(p)] \in {"ok", "failed"}

ProcOK(p) == /\ pc[p] \in Working => AttemptOK(p)
             /\ DeliveryOK(p) /\ ActiveOK(p) /\ CancelerOK(p) /\ CallOK(p)

Threads == {NoThread} \cup [at : {"cleanup", "delete", "await"}, box : Sandboxes]

\* The inductive invariant.
Inv == /\ TypeOK /\ scope \in Scopes /\ canceler \in [Procs -> Threads]
       /\ CleanupHonest /\ RetryableIsUnpaid
       /\ BoxesOK /\ HeardOK /\ OneWorker /\ \A p \in Procs : ProcOK(p)

-----------------------------------------------------------------------------
(* Facts the proofs share. *)

\* Inv is ClientInv, and what makes it inductive.
LEMMA InvClient == Inv => ClientInv
<1> SUFFICES ASSUME Inv PROVE ClientInv
  OBVIOUS
<1>1. DeletedOnce
  BY DEF Inv, BoxesOK, DeletedOnce
<1>2. AckedCancelEnds
  BY DEF Inv, ProcOK, CallOK, AckedCancelEnds, TypeOK
<1>3. LeaseIsHeld
  BY DEF Inv, ProcOK, DeliveryOK, LeaseIsHeld
<1> QED BY <1>1, <1>2, <1>3 DEF Inv, ClientInv

LEMMA BoundFacts ==
    ASSUME scope \in Scopes
    PROVE  MaxRetries \in Nat /\ None \notin Sandboxes
<1>1. MaxRetries \in Nat
  BY ScopesAssumption DEF MaxRetries
<1> QED BY <1>1, NoneAssumption DEF Sandboxes

\* The running attempt has a sandbox of its own.
LEMMA CurrentFacts ==
    ASSUME Inv, NEW p \in Procs
    PROVE  /\ Current(p) \in Sandboxes /\ Current(p)[1] = p /\ Current(p)[2] = attempt[p] + 1
           /\ attempt[p] \in Nat /\ Current(p) # None
           /\ \A s \in Sandboxes : s[1] \in Procs /\ s[2] \in Nat /\ s = <<s[1], s[2]>>
           /\ \A s \in Sandboxes : s[1] = p /\ s # Current(p) => s[2] <= attempt[p] \/ s[2] > attempt[p] + 1
<1>1. MaxRetries \in Nat /\ attempt[p] \in 0 .. MaxRetries /\ None \notin Sandboxes
  BY BoundFacts DEF Inv, TypeOK
<1>2. /\ Current(p) \in Sandboxes /\ Current(p)[1] = p /\ Current(p)[2] = attempt[p] + 1
      /\ attempt[p] \in Nat /\ Current(p) # None
  BY <1>1 DEF Current, Sandboxes
<1>3. \A s \in Sandboxes : s[1] \in Procs /\ s[2] \in Nat /\ s = <<s[1], s[2]>>
  BY <1>1 DEF Sandboxes
<1>4. \A s \in Sandboxes : s[1] = p /\ s # Current(p) => s[2] <= attempt[p] \/ s[2] > attempt[p] + 1
  BY <1>1, <1>3 DEF Current
<1> QED BY <1>2, <1>3, <1>4

LEMMA ScopeKept ==
    ASSUME scope' = scope
    PROVE  Sandboxes' = Sandboxes /\ MaxRetries' = MaxRetries /\ Sinkless' = Sinkless
BY DEF Sandboxes, MaxRetries, Sinkless

-----------------------------------------------------------------------------
(* What a step of process p leaves alone. *)

\* The executions, the registries and the cancel calls of other processes.
Alone(p) == \A q \in Procs \ {p} :
    /\ pc'[q] = pc[q] /\ attempt'[q] = attempt[q] /\ clean'[q] = clean[q] /\ fault'[q] = fault[q]
    /\ sent'[q] = sent[q] /\ result'[q] = result[q] /\ active'[q] = active[q]
    /\ canceler'[q] = canceler[q] /\ returned'[q] = returned[q]
    /\ (q \in requested' <=> q \in requested) /\ (q \in committed' <=> q \in committed)
    /\ (q \in acked' <=> q \in acked) /\ (q \in ran' <=> q \in ran) /\ (q \in late' <=> q \in late)

\* The sandboxes of others, everything a worker relies on, a result and a lease.
Shares(p) ==
    /\ \A s \in Sandboxes : s[1] # p =>
         box'[s] = box[s] /\ cleanup'[s] = cleanup[s] /\ deletes'[s] = deletes[s]
    /\ \A q \in Procs \ {p} : pc[q] \in Working => UNCHANGED <<row, box, cleanup, deletes, paid>>
    /\ row.state = "completed" => row'.state = "completed" /\ row'.result = row.result
    /\ \A q \in Procs \ {p} : row.token = q /\ ~row.expired => row'.token = q /\ ~row'.expired

LEMMA Others ==
    ASSUME Inv, scope' = scope, NEW p \in Procs, Alone(p), Shares(p), NEW q \in Procs \ {p}
    PROVE  ProcOK(q)'
<1>0. /\ Sandboxes' = Sandboxes /\ ProcOK(q) /\ q \in Procs /\ q # p
      /\ Current(q) \in Sandboxes /\ Current(q)[1] = q /\ Current(q)' = Current(q)
  BY ScopeKept, CurrentFacts DEF Inv, Alone, Current
<1>1. /\ box'[Current(q)] = box[Current(q)] /\ cleanup'[Current(q)] = cleanup[Current(q)]
      /\ deletes'[Current(q)] = deletes[Current(q)]
  BY <1>0 DEF Shares
<1>2. (pc[q] \in Working => AttemptOK(q))'
  BY <1>0 DEF Alone, Shares, ProcOK, AttemptOK, Untouched, NoneAlive
<1>3. DeliveryOK(q)'
  BY <1>0 DEF Alone, Shares, ProcOK, DeliveryOK, Delivering
<1>4. ActiveOK(q)'
  BY <1>0, <1>1 DEF Alone, ProcOK, ActiveOK
<1>5. CancelerOK(q)'
  <2>1. CASE canceler[q] = NoThread
    BY <1>0, <2>1 DEF Alone, CancelerOK, NoThread
  <2>2. CASE canceler[q] # NoThread
    <3>1. canceler[q].box \in Sandboxes /\ canceler[q].box[1] = q
      BY <1>0, <2>2 DEF ProcOK, CancelerOK
    <3>2. /\ box'[canceler[q].box] = box[canceler[q].box] /\ cleanup'[canceler[q].box] = cleanup[canceler[q].box]
          /\ deletes'[canceler[q].box] = deletes[canceler[q].box]
      BY <1>0, <3>1 DEF Shares
    <3> QED BY <1>0, <2>2, <3>2 DEF Alone, ProcOK, CancelerOK, InFlight, NoThread
  <2> QED BY <2>1, <2>2
<1>6. CallOK(q)'
  BY <1>0, <1>1 DEF Alone, Shares, ProcOK, CallOK, InFlight
<1> QED BY <1>2, <1>3, <1>4, <1>5, <1>6 DEF ProcOK

LEMMA WorkerStays ==
    ASSUME Inv, NEW p \in Procs, Alone(p), pc'[p] \in Working => pc[p] \in Working \/ row.state = "none"
    PROVE  OneWorker'
BY DEF Inv, OneWorker, Alone, ProcOK, AttemptOK

\* A step that changes nothing but the execution of p and its registry.
LEMMA LocalStep ==
    ASSUME Inv, NEW p \in Procs, UNCHANGED <<row, boxVars, paid, heard, scope>>, Alone(p),
           TypeOK', (canceler \in [Procs -> Threads])',
           pc'[p] \in Working => pc[p] \in Working, ProcOK(p)'
    PROVE  Inv'
<1>1. Sandboxes' = Sandboxes
  BY ScopeKept
<1>2. Shares(p)
  BY DEF Shares, boxVars
<1>3. (\A q \in Procs : ProcOK(q))'
  BY <1>2, Others
<1>4. (CleanupHonest /\ RetryableIsUnpaid /\ BoxesOK /\ HeardOK)'
  BY <1>1 DEF Inv, CleanupHonest, RetryableIsUnpaid, BoxesOK, HeardOK, Untouched, Replayable, boxVars
<1>5. OneWorker'
  BY WorkerStays
<1> QED BY <1>3, <1>4, <1>5 DEF Inv
-----------------------------------------------------------------------------
(* The ways an execution goes on. *)

\* _end_task: an execution that has ended holds nothing; a cancel call that is
\* still running keeps its sandbox.
LEMMA EndProc ==
    ASSUME Inv, NEW p \in Procs, EndTask(p), UNCHANGED <<boxVars, scope>>,
           canceler' = canceler \/ canceler'[p] = NoThread,
           returned'[p] # None => /\ row'.state = "completed" /\ returned'[p] = row'.result
                                  /\ p \in acked' /\ p \in ran' => returned'[p].status = "canceled"
    PROVE  ProcOK(p)'
<1>1. pc'[p] = "idle" /\ active'[p] = None /\ clean'[p] /\ ~sent'[p] /\ Sandboxes' = Sandboxes
  BY ScopeKept DEF EndTask, Goto, Inv, TypeOK
<1>2. (pc[p] \in Working => AttemptOK(p))' /\ DeliveryOK(p)' /\ ActiveOK(p)' /\ CallOK(p)'
  BY <1>1 DEF Working, Created, Holding, Early, Delivering, InFlight, DeliveryOK, ActiveOK, CallOK
<1>3. CancelerOK(p)'
  <2>1. CASE canceler'[p] = NoThread
    BY <2>1 DEF CancelerOK, NoThread
  <2>2. CASE canceler' = canceler
    <3>1. CancelerOK(p)
      BY DEF Inv, ProcOK
    <3> QED BY <1>1, <2>2, <3>1 DEF CancelerOK, InFlight, NoThread, boxVars
  <2> QED BY <2>1, <2>2
<1> QED BY <1>2, <1>3 DEF ProcOK

\* The types of what an ended execution leaves.
LEMMA EndTypes ==
    ASSUME Inv, NEW p \in Procs, EndTask(p), scope' = scope
    PROVE  /\ (/\ pc \in [Procs -> Points]
               /\ attempt \in [Procs -> 0 .. MaxRetries] /\ clean \in [Procs -> BOOLEAN]
               /\ fault \in [Procs -> {"none", "provider", "terminal"}] /\ sent \in [Procs -> BOOLEAN]
               /\ result \in [Procs -> Results \cup {None}]
               /\ requested \subseteq Procs /\ committed \subseteq Procs
               /\ active \in [Procs -> Sandboxes \cup {None}])'
           /\ pc'[p] = "idle"
           /\ \A q \in Procs \ {p} :
                /\ pc'[q] = pc[q] /\ attempt'[q] = attempt[q] /\ clean'[q] = clean[q] /\ fault'[q] = fault[q]
                /\ sent'[q] = sent[q] /\ result'[q] = result[q] /\ active'[q] = active[q]
                /\ (q \in requested' <=> q \in requested) /\ (q \in committed' <=> q \in committed)
<1>1. MaxRetries \in Nat /\ MaxRetries' = MaxRetries /\ Sandboxes' = Sandboxes
  BY BoundFacts, ScopeKept DEF Inv
<1> QED BY <1>1 DEF EndTask, Goto, Inv, TypeOK, Points

LEMMA RaiseStep ==
    ASSUME Inv, NEW p \in Procs, Raise(p), UNCHANGED <<row, boxVars, canceler, paid, heard, faultVars, scope>>,
           InFlight(p)
    PROVE  Inv'
<1>0. EndTask(p) /\ UNCHANGED callVars /\ Sandboxes' = Sandboxes
  BY ScopeKept DEF Raise
<1>1. TypeOK' /\ (canceler \in [Procs -> Threads])'
  BY <1>0, EndTypes DEF Inv, TypeOK, callVars, boxVars, faultVars, Threads
<1>2. Alone(p) /\ pc'[p] = "idle"
  BY <1>0, EndTypes DEF Alone, callVars, faultVars
<1>3. returned'[p] = None
  BY <1>0 DEF Inv, ProcOK, CallOK, callVars
<1>4. ProcOK(p)'
  BY <1>0, <1>3, EndProc
<1> QED BY <1>1, <1>2, <1>4, LocalStep DEF Working

\* Only the program counter moves.
LEMMA StayTypes ==
    ASSUME Inv, NEW p \in Procs, NEW to \in Points, Stay(p, to),
           UNCHANGED <<row, boxVars, canceler, paid, heard, faultVars, scope>>
    PROVE  /\ TypeOK' /\ (canceler \in [Procs -> Threads])' /\ Alone(p) /\ pc'[p] = to
           /\ Sandboxes' = Sandboxes /\ Current(p)' = Current(p)
<1>0. MaxRetries' = MaxRetries /\ Sandboxes' = Sandboxes
  BY ScopeKept
<1>1. pc' \in [Procs -> Points] /\ pc'[p] = to /\ \A q \in Procs \ {p} : pc'[q] = pc[q]
  BY DEF Stay, Goto, Inv, TypeOK
<1>2. UNCHANGED <<attempt, clean, fault, sent, result, requested, committed, active, acked, ran, returned>>
  BY DEF Stay, localVars, registryVars, callVars
<1>3. TypeOK' /\ (canceler \in [Procs -> Threads])'
  BY <1>0, <1>1, <1>2 DEF Inv, TypeOK, boxVars, faultVars, Threads
<1>4. Alone(p)
  BY <1>1, <1>2 DEF Alone, faultVars
<1> QED BY <1>0, <1>1, <1>2, <1>3, <1>4 DEF Current

\* _commit_and_emit is next, with a result that says the truth.
LEMMA PublishStep ==
    ASSUME Inv, NEW p \in Procs, NEW r \in Results, Publish(p, r),
           UNCHANGED <<row, boxVars, canceler, paid, heard, faultVars, scope>>, pc[p] \in Working,
           r.cleanup => NoneAlive, r.retryable => NoneAlive /\ paid = {}, r.status = "success" => paid # {}
    PROVE  Inv'
<1>0. /\ MaxRetries' = MaxRetries /\ Sandboxes' = Sandboxes
      /\ UNCHANGED <<attempt, clean, fault, sent, requested, committed, active, acked, ran, returned>>
      /\ Current(p)' = Current(p)
  BY ScopeKept DEF Publish, registryVars, callVars, Current
<1>1. /\ pc' \in [Procs -> Points] /\ pc'[p] = "publish" /\ \A q \in Procs \ {p} : pc'[q] = pc[q]
      /\ result' \in [Procs -> Results \cup {None}] /\ result'[p] = r /\ \A q \in Procs \ {p} : result'[q] = result[q]
  BY DEF Publish, Goto, Inv, TypeOK, Points
<1>2. TypeOK' /\ (canceler \in [Procs -> Threads])'
  BY <1>0, <1>1 DEF Inv, TypeOK, boxVars, faultVars, Threads
<1>3. Alone(p)
  BY <1>0, <1>1 DEF Alone, faultVars
<1>4. ProcOK(p) /\ AttemptOK(p)
  BY DEF Inv, ProcOK
<1>5. AttemptOK(p)'
  BY <1>0, <1>1, <1>4 DEF AttemptOK, Untouched, NoneAlive, boxVars, Created
<1>6. DeliveryOK(p)' /\ CallOK(p)'
  BY <1>0, <1>1, <1>4 DEF ProcOK, DeliveryOK, CallOK, Delivering, Holding, Early, Working, InFlight
<1>7. ActiveOK(p)'
  BY <1>0, <1>1, <1>4 DEF ProcOK, ActiveOK, Working, Holding, boxVars
<1>8. CancelerOK(p)'
  BY <1>0, <1>1, <1>4 DEF ProcOK, CancelerOK, InFlight, Working, NoThread, boxVars
<1>9. ProcOK(p)'
  BY <1>5, <1>6, <1>7, <1>8 DEF ProcOK
<1> QED BY <1>1, <1>2, <1>3, <1>9, LocalStep

\* The claim carries the row's result.
LEMMA AdoptStep ==
    ASSUME Inv, NEW p \in Procs, Adopt(p), Replayable, pc[p] \in {"replay", "refused", "claim"},
           UNCHANGED <<row, boxVars, canceler, paid, heard, faultVars, scope>>
    PROVE  Inv'
<1>0. /\ MaxRetries' = MaxRetries /\ Sandboxes' = Sandboxes
      /\ UNCHANGED <<attempt, clean, fault, sent, requested, committed, active, acked, ran, returned>>
  BY ScopeKept DEF Adopt, registryVars, callVars
<1>1. /\ pc' \in [Procs -> Points] /\ pc'[p] = "adopt" /\ \A q \in Procs \ {p} : pc'[q] = pc[q]
      /\ result' \in [Procs -> Results \cup {None}] /\ result'[p] = row.result
      /\ \A q \in Procs \ {p} : result'[q] = result[q]
  BY DEF Adopt, Goto, Inv, TypeOK, Points
<1>2. TypeOK' /\ (canceler \in [Procs -> Threads])'
  BY <1>0, <1>1 DEF Inv, TypeOK, boxVars, faultVars, Threads
<1>3. Alone(p)
  BY <1>0, <1>1 DEF Alone, faultVars
<1>4. ProcOK(p)
  BY DEF Inv
<1>5. ProcOK(p)'
  BY <1>0, <1>1, <1>4 DEF ProcOK, DeliveryOK, CallOK, ActiveOK, CancelerOK, Delivering, Replayable, Holding, Early,
                          Working, InFlight, NoThread, boxVars
<1> QED BY <1>1, <1>2, <1>3, <1>5, LocalStep DEF Working
-----------------------------------------------------------------------------
(* The steps that leave the row, the sandboxes and the sink alone. *)

LEMMA BeginStep ==
    ASSUME Inv, NEW p \in Procs, Begin(p), scope' = scope
    PROVE  Inv'
<1>0. /\ MaxRetries' = MaxRetries /\ Sandboxes' = Sandboxes /\ pc[p] = "idle" /\ canceler[p] = NoThread
      /\ UNCHANGED <<row, attempt, clean, fault, sent, result, requested, committed, active, boxVars, canceler, paid, heard>>
      /\ acked' = acked \ {p} /\ ran' = ran \ {p} /\ late' = late \ {p}
  BY ScopeKept DEF Begin, localVars, registryVars
<1>1. /\ pc' \in [Procs -> Points] /\ pc'[p] = "replay" /\ \A q \in Procs \ {p} : pc'[q] = pc[q]
      /\ returned' \in [Procs -> Results \cup {None}] /\ returned'[p] = None
      /\ \A q \in Procs \ {p} : returned'[q] = returned[q]
  BY DEF Begin, Goto, Inv, TypeOK, Points
<1>2. TypeOK' /\ (canceler \in [Procs -> Threads])'
  BY <1>0, <1>1 DEF Inv, TypeOK, boxVars, Threads
<1>3. Alone(p)
  BY <1>0, <1>1 DEF Alone
<1>4. ProcOK(p)'
  <2>1. ProcOK(p)
    BY DEF Inv
  <2> QED BY <1>0, <1>1, <2>1 DEF ProcOK, DeliveryOK, CallOK, ActiveOK, CancelerOK, Delivering, Holding, Early,
                                  Working, InFlight, NoThread
<1> QED BY <1>0, <1>1, <1>2, <1>3, <1>4, LocalStep DEF Working

LEMMA ReplayStep ==
    ASSUME Inv, NEW p \in Procs, Replay(p) \/ Preflight(p), scope' = scope
    PROVE  Inv'
<1>0. UNCHANGED <<row, boxVars, canceler, paid, heard, faultVars, scope>>
  BY DEF Replay, Preflight
<1>1. ASSUME NEW to \in {"preflight", "claim", "refused"}, Stay(p, to), pc[p] \in {"replay", "preflight"}
      PROVE  Inv'
  <2>1. /\ TypeOK' /\ (canceler \in [Procs -> Threads])' /\ Alone(p) /\ pc'[p] = to
        /\ Sandboxes' = Sandboxes /\ Current(p)' = Current(p)
    BY <1>0, <1>1, StayTypes DEF Points
  <2>2. ProcOK(p)'
    <3>1. ProcOK(p)
      BY DEF Inv
    <3> QED BY <1>0, <1>1, <2>1, <3>1 DEF ProcOK, DeliveryOK, CallOK, ActiveOK, CancelerOK, Delivering, Holding, Early,
               Working, InFlight, NoThread, Stay, localVars, registryVars, callVars, boxVars, faultVars
  <2> QED BY <1>0, <1>1, <2>1, <2>2, LocalStep DEF Working
<1>2. InFlight(p)
  BY DEF Replay, Preflight, InFlight
<1> QED BY <1>0, <1>1, <1>2, RaiseStep, AdoptStep DEF Replay, Preflight

LEMMA DeliverReplayedStep ==
    ASSUME Inv, NEW p \in Procs, DeliverReplayed(p), scope' = scope
    PROVE  Inv'
<1>0. /\ MaxRetries' = MaxRetries /\ Sandboxes' = Sandboxes /\ pc[p] = "adopt" /\ committed' = committed \cup {p}
      /\ UNCHANGED <<row, attempt, clean, fault, sent, result, requested, active, boxVars, canceler, paid, heard,
                     acked, ran, returned, late>>
  BY ScopeKept DEF DeliverReplayed, localVars, callVars, faultVars
<1>1. pc' \in [Procs -> Points] /\ pc'[p] = "reserve" /\ \A q \in Procs \ {p} : pc'[q] = pc[q]
  BY DEF DeliverReplayed, Goto, Inv, TypeOK, Points
<1>2. TypeOK' /\ (canceler \in [Procs -> Threads])'
  BY <1>0, <1>1 DEF Inv, TypeOK, boxVars, Threads
<1>3. Alone(p)
  BY <1>0, <1>1 DEF Alone
<1>4. ProcOK(p)'
  <2>1. ProcOK(p)
    BY DEF Inv
  <2> QED BY <1>0, <1>1, <2>1 DEF ProcOK, DeliveryOK, CallOK, ActiveOK, CancelerOK, Delivering, Holding, Early,
                                  Working, InFlight, NoThread, boxVars
<1> QED BY <1>0, <1>1, <1>2, <1>3, <1>4, LocalStep DEF Working

\* The worker goes on with the same attempt.
LEMMA GoOn ==
    ASSUME Inv, NEW p \in Procs, NEW to \in Points, Stay(p, to), pc[p] \in Working, to \in Working,
           UNCHANGED <<row, boxVars, canceler, paid, heard, faultVars, scope>>,
           \/ pc[p] = "loop" /\ to = "gate"
           \/ pc[p] = "gate" /\ to = "create"
           \/ pc[p] \in {"wait", "get", "check"} /\ to = "cleanup" /\ p \in requested
           \/ pc[p] = "wait" /\ to = "get"
           \/ pc[p] = "get" /\ to = "check"
           \/ pc[p] = "check" /\ to = "dispatch" /\ p \notin requested
    PROVE  Inv'
<1>1. /\ TypeOK' /\ (canceler \in [Procs -> Threads])' /\ Alone(p) /\ pc'[p] = to
      /\ Sandboxes' = Sandboxes /\ Current(p)' = Current(p)
      /\ UNCHANGED <<attempt, clean, fault, sent, result, requested, committed, active, acked, ran, returned>>
  BY StayTypes DEF Stay, localVars, registryVars, callVars
<1>2. ProcOK(p) /\ AttemptOK(p)
  BY DEF Inv, ProcOK
<1>3. AttemptOK(p)'
  BY <1>1, <1>2 DEF AttemptOK, Untouched, NoneAlive, boxVars, Created
<1>4. DeliveryOK(p)' /\ CallOK(p)'
  BY <1>1, <1>2 DEF ProcOK, DeliveryOK, CallOK, Delivering, Holding, Early, InFlight
<1>5. ActiveOK(p)'
  BY <1>1, <1>2 DEF ProcOK, ActiveOK, Working, Holding, boxVars
<1>6. CancelerOK(p)'
  BY <1>1, <1>2 DEF ProcOK, CancelerOK, InFlight, NoThread, boxVars
<1>7. ProcOK(p)'
  BY <1>3, <1>4, <1>5, <1>6 DEF ProcOK
<1> QED BY <1>1, <1>7, LocalStep

LEMMA HeadStep ==
    ASSUME Inv, NEW p \in Procs, Loop(p) \/ Gate(p) \/ CreateRefused(p), scope' = scope
    PROVE  Inv'
<1>0. /\ UNCHANGED <<row, boxVars, canceler, paid, heard, faultVars, scope>>
      /\ pc[p] \in {"loop", "gate", "create"} /\ pc[p] \in Working
  BY DEF Loop, Gate, CreateRefused, Working
<1>1. AttemptOK(p)
  BY <1>0 DEF Inv, ProcOK
<1>2. NoneAlive /\ clean[p]
  BY <1>0, <1>1, CurrentFacts DEF AttemptOK, Untouched, NoneAlive
<1>3. /\ \A c \in BOOLEAN : Canceled(c) \in Results /\ Failure(c, FALSE) \in Results
      /\ clean[p] \in BOOLEAN
  BY DEF Canceled, Failure, Results, Inv, TypeOK
<1>4. ASSUME NEW r \in Results, Publish(p, r), r.status # "success", ~r.retryable
      PROVE  Inv'
  BY <1>0, <1>2, <1>4, PublishStep
<1>5. \A c \in BOOLEAN : /\ Canceled(c).status # "success" /\ ~Canceled(c).retryable
                         /\ Failure(c, FALSE).status # "success" /\ ~Failure(c, FALSE).retryable
  BY DEF Canceled, Failure
<1>6. CASE Loop(p)
  BY <1>0, <1>3, <1>4, <1>5, <1>6, GoOn DEF Loop, Points, Working
<1>7. CASE Gate(p)
  BY <1>0, <1>3, <1>4, <1>5, <1>7, GoOn DEF Gate, Points, Working
<1>8. CASE CreateRefused(p)
  BY <1>3, <1>4, <1>5, <1>8 DEF CreateRefused
<1> QED BY <1>6, <1>7, <1>8

LEMMA RegisterStep ==
    ASSUME Inv, NEW p \in Procs, RegisterSandbox(p), scope' = scope
    PROVE  Inv'
<1>0. /\ MaxRetries' = MaxRetries /\ Sandboxes' = Sandboxes /\ pc[p] = "register" /\ Current(p)' = Current(p)
      /\ UNCHANGED <<row, attempt, clean, fault, sent, result, requested, committed, boxVars, canceler, paid, heard,
                     acked, ran, returned, late>>
  BY ScopeKept DEF RegisterSandbox, localVars, callVars, faultVars, Current
<1>1. /\ pc' \in [Procs -> Points] /\ pc'[p] = "wait" /\ \A q \in Procs \ {p} : pc'[q] = pc[q]
      /\ active' \in [Procs -> Sandboxes \cup {None}] /\ active'[p] = Current(p)
      /\ \A q \in Procs \ {p} : active'[q] = active[q]
  BY CurrentFacts DEF RegisterSandbox, Goto, Inv, TypeOK, Points
<1>2. TypeOK' /\ (canceler \in [Procs -> Threads])'
  BY <1>0, <1>1 DEF Inv, TypeOK, boxVars, Threads
<1>3. Alone(p)
  BY <1>0, <1>1 DEF Alone
<1>4. ProcOK(p) /\ AttemptOK(p) /\ Current(p) # None
  BY <1>0, CurrentFacts DEF Inv, ProcOK, Working
<1>5. AttemptOK(p)'
  BY <1>0, <1>1, <1>4 DEF AttemptOK, Untouched, NoneAlive, boxVars, Created
<1>6. DeliveryOK(p)' /\ CallOK(p)' /\ CancelerOK(p)'
  BY <1>0, <1>1, <1>4 DEF ProcOK, DeliveryOK, CallOK, CancelerOK, Delivering, Holding, Early, InFlight, NoThread, boxVars
<1>7. ActiveOK(p)'
  BY <1>0, <1>1, <1>4 DEF ProcOK, AttemptOK, ActiveOK, Working, Holding, Created, boxVars
<1>8. ProcOK(p)'
  BY <1>5, <1>6, <1>7 DEF ProcOK
<1> QED BY <1>0, <1>1, <1>2, <1>3, <1>8, LocalStep DEF Working

\* The attempt is over, with a fault or with the answer of a command.
LEMMA FaultedStep ==
    ASSUME Inv, NEW p \in Procs, NEW f \in {"none", "provider", "terminal"}, Faulted(p, f, "cleanup"),
           pc[p] \in {"wait", "get", "running"}, f = "none" => Current(p) \in paid,
           UNCHANGED <<row, boxVars, canceler, paid, heard, faultVars, scope>>
    PROVE  Inv'
<1>0. /\ MaxRetries' = MaxRetries /\ Sandboxes' = Sandboxes /\ Current(p)' = Current(p)
      /\ UNCHANGED <<attempt, clean, sent, result, requested, committed, active, acked, ran, returned, late>>
  BY ScopeKept DEF Faulted, registryVars, callVars, faultVars, Current
<1>1. /\ pc' \in [Procs -> Points] /\ pc'[p] = "cleanup" /\ \A q \in Procs \ {p} : pc'[q] = pc[q]
      /\ fault' \in [Procs -> {"none", "provider", "terminal"}] /\ fault'[p] = f
      /\ \A q \in Procs \ {p} : fault'[q] = fault[q]
  BY DEF Faulted, Goto, Inv, TypeOK, Points
<1>2. TypeOK' /\ (canceler \in [Procs -> Threads])'
  BY <1>0, <1>1 DEF Inv, TypeOK, boxVars, Threads
<1>3. Alone(p)
  BY <1>0, <1>1 DEF Alone
<1>4. ProcOK(p) /\ AttemptOK(p)
  BY <1>0 DEF Inv, ProcOK, Working
<1>5. AttemptOK(p)'
  BY <1>0, <1>1, <1>4 DEF AttemptOK, Untouched, NoneAlive, boxVars, Created
<1>6. DeliveryOK(p)' /\ CallOK(p)' /\ CancelerOK(p)'
  BY <1>0, <1>1, <1>4 DEF ProcOK, DeliveryOK, CallOK, CancelerOK, Delivering, Holding, Early, InFlight, NoThread, boxVars
<1>7. ActiveOK(p)'
  BY <1>0, <1>1, <1>4 DEF ProcOK, ActiveOK, Working, Holding, boxVars
<1>8. ProcOK(p)'
  BY <1>5, <1>6, <1>7 DEF ProcOK
<1> QED BY <1>0, <1>1, <1>2, <1>3, <1>8, LocalStep DEF Working

LEMMA AttemptStep ==
    ASSUME Inv, NEW p \in Procs, Provision(p) \/ CheckCanceled(p) \/ Command(p), scope' = scope
    PROVE  Inv'
<1>0. UNCHANGED <<row, boxVars, canceler, paid, heard, faultVars, scope>>
  BY DEF Provision, CheckCanceled, Command
<1>1. CASE Provision(p)
  BY <1>0, <1>1, GoOn, FaultedStep DEF Provision, Points, Working
<1>2. CASE CheckCanceled(p)
  BY <1>0, <1>2, GoOn DEF CheckCanceled, Points, Working
<1>3. CASE Command(p)
  BY <1>0, <1>3, FaultedStep DEF Command
<1> QED BY <1>1, <1>2, <1>3

\* The other thread's delete succeeded, or nobody knows.
LEMMA AwaitStep ==
    ASSUME Inv, NEW p \in Procs, Await(p), scope' = scope
    PROVE  Inv'
<1>0. /\ MaxRetries' = MaxRetries /\ Sandboxes' = Sandboxes /\ Current(p)' = Current(p) /\ pc[p] = "await"
      /\ UNCHANGED <<row, attempt, fault, sent, result, requested, committed, active, boxVars, canceler, paid, heard,
                     acked, ran, returned, late>>
  BY ScopeKept DEF Await, registryVars, callVars, faultVars, Current
<1>1. /\ pc' \in [Procs -> Points] /\ pc'[p] = "exit" /\ \A q \in Procs \ {p} : pc'[q] = pc[q]
      /\ clean' \in [Procs -> BOOLEAN] /\ \A q \in Procs \ {p} : clean'[q] = clean[q]
      /\ clean'[p] => cleanup[Current(p)] = "ok"
  <2>1. PICK c \in BOOLEAN : clean' = [clean EXCEPT ![p] = c] /\ (c => cleanup[Current(p)] = "ok")
    BY DEF Await
  <2> QED BY <2>1 DEF Await, Goto, Inv, TypeOK, Points
<1>2. TypeOK' /\ (canceler \in [Procs -> Threads])'
  BY <1>0, <1>1 DEF Inv, TypeOK, boxVars, Threads
<1>3. Alone(p)
  BY <1>0, <1>1 DEF Alone
<1>4. ProcOK(p) /\ AttemptOK(p) /\ (cleanup[Current(p)] = "ok" => box[Current(p)] = "gone")
  BY <1>0, CurrentFacts DEF Inv, ProcOK, Working, BoxesOK
<1>5. AttemptOK(p)'
  BY <1>0, <1>1, <1>4 DEF AttemptOK, Untouched, NoneAlive, boxVars, Created
<1>6. DeliveryOK(p)' /\ CallOK(p)' /\ CancelerOK(p)'
  BY <1>0, <1>1, <1>4 DEF ProcOK, DeliveryOK, CallOK, CancelerOK, Delivering, Holding, Early, InFlight, NoThread, boxVars
<1>7. ActiveOK(p)'
  BY <1>0, <1>1, <1>4 DEF ProcOK, ActiveOK, Working, Holding, boxVars
<1>8. ProcOK(p)'
  BY <1>5, <1>6, <1>7 DEF ProcOK
<1> QED BY <1>0, <1>1, <1>2, <1>3, <1>8, LocalStep DEF Working

\* Another attempt, when the last one cost nothing and left nothing behind.
LEMMA RetryStep ==
    ASSUME Inv, NEW p \in Procs, pc[p] = "exit", clean[p], ~sent[p],
           attempt[p] + 1 <= MaxRetries, attempt' = [attempt EXCEPT ![p] = @ + 1],
           fault' = [fault EXCEPT ![p] = "none"], Goto(p, "loop"),
           UNCHANGED <<clean, sent, result, registryVars, callVars>>,
           UNCHANGED <<row, boxVars, canceler, paid, heard, faultVars, scope>>
    PROVE  Inv'
<1>0. /\ MaxRetries' = MaxRetries /\ Sandboxes' = Sandboxes /\ MaxRetries \in Nat
      /\ UNCHANGED <<clean, sent, result, requested, committed, active, acked, ran, returned, late>>
  BY ScopeKept, BoundFacts DEF Inv, registryVars, callVars, faultVars
<1>1. /\ pc' \in [Procs -> Points] /\ pc'[p] = "loop" /\ \A q \in Procs \ {p} : pc'[q] = pc[q]
      /\ fault' \in [Procs -> {"none", "provider", "terminal"}] /\ \A q \in Procs \ {p} : fault'[q] = fault[q]
      /\ attempt' \in [Procs -> 0 .. MaxRetries] /\ attempt'[p] = attempt[p] + 1
      /\ \A q \in Procs \ {p} : attempt'[q] = attempt[q]
  BY <1>0 DEF Goto, Inv, TypeOK, Points
<1>2. TypeOK' /\ (canceler \in [Procs -> Threads])'
  BY <1>0, <1>1 DEF Inv, TypeOK, boxVars, Threads
<1>3. Alone(p)
  BY <1>0, <1>1 DEF Alone
<1>4. ProcOK(p) /\ AttemptOK(p)
  BY <1>0 DEF Inv, ProcOK, Working
<1>5. /\ attempt[p] \in Nat /\ Current(p) \in Sandboxes /\ Current(p)[1] = p
      /\ \A s \in Sandboxes : s[1] \in Procs /\ s[2] \in Nat
      /\ \A s \in Sandboxes : s[1] = p /\ s # Current(p) => s[2] <= attempt[p] \/ s[2] > attempt[p] + 1
  BY CurrentFacts
<1>6. Current(p)' \in Sandboxes /\ Current(p)'[1] = p /\ Current(p)'[2] > attempt[p] + 1
  BY <1>0, <1>1, <1>5 DEF Current, Sandboxes
<1>7. AttemptOK(p)'
  <2>1. \A s \in Sandboxes : s[1] # p \/ s[2] > attempt'[p] + 1 => Untouched(s)
    BY <1>1, <1>4, <1>5 DEF AttemptOK
  <2>2. \A s \in Sandboxes : s[1] = p /\ s[2] <= attempt'[p] => box[s] # "alive" /\ s \notin paid
    BY <1>1, <1>4, <1>5 DEF AttemptOK
  <2>3. Untouched(Current(p)')
    BY <1>4, <1>6 DEF AttemptOK
  <2>4. \A s : Untouched(s)' = Untouched(s)
    BY DEF Untouched, boxVars
  <2> QED BY <1>0, <1>1, <1>4, <2>1, <2>2, <2>3, <2>4 DEF AttemptOK, Untouched, NoneAlive, boxVars, Created
<1>8. DeliveryOK(p)' /\ CallOK(p)' /\ CancelerOK(p)'
  BY <1>0, <1>1, <1>4 DEF ProcOK, DeliveryOK, CallOK, CancelerOK, Delivering, Holding, Early, InFlight, NoThread, boxVars
<1>9. ActiveOK(p)'
  BY <1>0, <1>1, <1>4 DEF ProcOK, ActiveOK, Working, Holding, boxVars
<1>10. ProcOK(p)'
  BY <1>7, <1>8, <1>9 DEF ProcOK
<1> QED BY <1>0, <1>1, <1>2, <1>3, <1>10, LocalStep DEF Working

LEMMA ClassifyStep ==
    ASSUME Inv, NEW p \in Procs, Classify(p), scope' = scope
    PROVE  Inv'
<1>0. /\ UNCHANGED <<row, boxVars, canceler, paid, heard, faultVars, scope>>
      /\ pc[p] = "exit" /\ pc[p] \in Working /\ clean[p] \in BOOLEAN /\ sent[p] \in BOOLEAN
  BY DEF Classify, Working, Inv, TypeOK
<1>1. AttemptOK(p)
  BY <1>0 DEF Inv, ProcOK
<1>2. clean[p] => NoneAlive
  BY <1>0, <1>1, CurrentFacts DEF AttemptOK, Untouched, NoneAlive
<1>3. ~sent[p] => paid = {}
  BY <1>1, CurrentFacts DEF AttemptOK, Untouched, Inv, TypeOK
<1>4. p \notin requested /\ fault[p] = "none" => paid # {}
  BY <1>0, <1>1 DEF AttemptOK
<1>5. ASSUME NEW r \in Results, Publish(p, r), r.cleanup => clean[p], r.retryable => clean[p] /\ ~sent[p],
             r.status = "success" => p \notin requested /\ fault[p] = "none"
      PROVE  Inv'
  BY <1>0, <1>2, <1>3, <1>4, <1>5, PublishStep
<1>6. /\ \A c, r \in BOOLEAN : /\ Failure(c, r) \in Results /\ Failure(c, r).cleanup = c
                               /\ Failure(c, r).retryable = r /\ Failure(c, r).status = "error"
      /\ \A c \in BOOLEAN : /\ Canceled(c) \in Results /\ Canceled(c).cleanup = c
                            /\ Canceled(c).retryable = FALSE /\ Canceled(c).status = "canceled"
      /\ Success \in Results /\ Success.retryable = FALSE
  BY DEF Canceled, Failure, Success, Results
<1>7. CASE p \in requested /\ Publish(p, Canceled(clean[p]))
  BY <1>0, <1>5, <1>6, <1>7
<1>8. CASE Publish(p, Failure(clean[p], FALSE))
  BY <1>0, <1>5, <1>6, <1>8
<1>9. CASE p \notin requested /\ fault[p] = "none" /\ Publish(p, IF clean[p] THEN Success ELSE Failure(FALSE, FALSE))
  BY <1>0, <1>5, <1>6, <1>9
<1>10. ASSUME NEW exitFails \in BOOLEAN, ProviderFault(p, exitFails) PROVE Inv'
  <2>1. CASE ~clean[p] \/ sent[p]
    BY <1>8, <1>10, <2>1 DEF ProviderFault
  <2>2. CASE clean[p] /\ ~sent[p] /\ exitFails
    BY <1>5, <1>6, <1>10, <2>2 DEF ProviderFault
  <2>3. CASE clean[p] /\ ~sent[p] /\ ~exitFails
    <3>1. Retry(p)
      BY <1>10, <2>3 DEF ProviderFault
    <3>2. CASE attempt[p] + 1 <= MaxRetries
      BY <1>0, <2>3, <3>1, <3>2, RetryStep DEF Retry
    <3>3. CASE ~(attempt[p] + 1 <= MaxRetries)
      BY <1>0, <1>5, <1>6, <2>3, <3>1, <3>3 DEF Retry
    <3> QED BY <3>2, <3>3
  <2> QED BY <1>0, <1>10, <2>1, <2>2, <2>3
<1> QED BY <1>7, <1>8, <1>9, <1>10 DEF Classify

\* The lock section that orders the result against cancellation.
LEMMA LinearizeStep ==
    ASSUME Inv, NEW p \in Procs, Linearize(p), scope' = scope
    PROVE  Inv'
<1>0. /\ MaxRetries' = MaxRetries /\ Sandboxes' = Sandboxes /\ Current(p)' = Current(p) /\ pc[p] = "publish"
      /\ UNCHANGED <<row, attempt, clean, fault, sent, requested, active, boxVars, canceler, paid, heard,
                     acked, ran, returned, late>>
      /\ committed' = committed \cup {p}
  BY ScopeKept DEF Linearize, callVars, faultVars, Current
<1>1. ProcOK(p) /\ AttemptOK(p) /\ result[p] \in Results
  BY <1>0 DEF Inv, ProcOK, Working, AttemptOK
<1>2. /\ pc' \in [Procs -> Points] /\ pc'[p] = "commit" /\ \A q \in Procs \ {p} : pc'[q] = pc[q]
      /\ result'[p] = IF p \in requested THEN Canceled(result[p].cleanup) ELSE result[p]
      /\ result' \in [Procs -> Results \cup {None}] /\ \A q \in Procs \ {p} : result'[q] = result[q]
  BY <1>1 DEF Linearize, Goto, Inv, TypeOK, Points, Canceled, Results
<1>3. /\ result'[p] \in Results /\ result'[p].cleanup = result[p].cleanup
      /\ result'[p].retryable => result[p].retryable
      /\ result'[p].status = "success" => result[p].status = "success"
      /\ p \in requested => result'[p].status = "canceled"
  BY <1>1, <1>2 DEF Canceled, Results
<1>4. TypeOK' /\ (canceler \in [Procs -> Threads])'
  BY <1>0, <1>2 DEF Inv, TypeOK, boxVars, Threads
<1>5. Alone(p)
  BY <1>0, <1>2 DEF Alone
<1>6. AttemptOK(p)'
  BY <1>0, <1>1, <1>2, <1>3 DEF AttemptOK, Untouched, NoneAlive, boxVars, Created
<1>7. DeliveryOK(p)' /\ CallOK(p)' /\ CancelerOK(p)'
  BY <1>0, <1>1, <1>2, <1>3 DEF ProcOK, DeliveryOK, CallOK, CancelerOK, Delivering, Holding, Early, InFlight, NoThread, boxVars
<1>8. ActiveOK(p)'
  BY <1>0, <1>1, <1>2 DEF ProcOK, ActiveOK, Working, Holding, boxVars
<1>9. ProcOK(p)'
  BY <1>6, <1>7, <1>8 DEF ProcOK
<1> QED BY <1>0, <1>2, <1>4, <1>5, <1>9, LocalStep DEF Working

\* cancel_request, unless the result is committed already.
LEMMA CancelRequestStep ==
    ASSUME Inv, NEW p \in Procs, CancelRequest(p), scope' = scope
    PROVE  Inv'
<1>0. /\ MaxRetries' = MaxRetries /\ Sandboxes' = Sandboxes /\ Current(p)' = Current(p)
      /\ InFlight(p) /\ p \notin committed /\ canceler[p] = NoThread /\ requested' = requested \cup {p}
      /\ UNCHANGED <<row, pc, attempt, clean, fault, sent, result, committed, active, boxVars, paid, heard,
                     ran, returned, late>>
  BY ScopeKept DEF CancelRequest, localVars, faultVars, Current
<1>1. ProcOK(p) /\ (pc[p] \in Working => AttemptOK(p))
  BY DEF Inv, ProcOK
<1>2. \/ active[p] = None /\ acked' = acked \cup {p} /\ UNCHANGED canceler
      \/ /\ active[p] # None /\ UNCHANGED acked
         /\ canceler' = [canceler EXCEPT ![p] = [at |-> "cleanup", box |-> active[p]]]
  BY DEF CancelRequest
<1>3. active[p] # None => active[p] = Current(p) /\ Current(p) \in Sandboxes /\ Current(p)[1] = p
  BY <1>1, CurrentFacts DEF ProcOK, ActiveOK
<1>4. /\ canceler' \in [Procs -> Threads] /\ \A q \in Procs \ {p} : canceler'[q] = canceler[q]
      /\ acked' \subseteq Procs /\ \A q \in Procs \ {p} : q \in acked' <=> q \in acked
      /\ canceler'[p] = IF active[p] = None THEN NoThread ELSE [at |-> "cleanup", box |-> Current(p)]
  BY <1>0, <1>2, <1>3 DEF Inv, TypeOK, Threads
<1>5. TypeOK' /\ (canceler \in [Procs -> Threads])'
  BY <1>0, <1>4 DEF Inv, TypeOK, boxVars, Threads
<1>6. Alone(p)
  BY <1>0, <1>4 DEF Alone
<1>7. (pc[p] \in Working => AttemptOK(p))'
  BY <1>0, <1>1 DEF AttemptOK, Untouched, NoneAlive, boxVars
<1>8. DeliveryOK(p)' /\ CallOK(p)'
  BY <1>0, <1>1, <1>2 DEF ProcOK, DeliveryOK, CallOK, ActiveOK, Delivering, InFlight, boxVars
<1>9. ActiveOK(p)'
  BY <1>0, <1>1, <1>4 DEF ProcOK, ActiveOK, boxVars, NoThread
<1>10. CancelerOK(p)'
  BY <1>0, <1>1, <1>3, <1>4 DEF ProcOK, ActiveOK, CancelerOK, InFlight, NoThread, boxVars
<1>11. ProcOK(p)'
  BY <1>7, <1>8, <1>9, <1>10 DEF ProcOK
<1> QED BY <1>0, <1>5, <1>6, <1>11, LocalStep

\* A cancel call returns. What it acknowledges was deleted.
LEMMA CancelReturnsProc ==
    ASSUME Inv, NEW p \in Procs, NEW ok \in BOOLEAN, CancelReturns(p, ok), canceler[p] # NoThread,
           ok => cleanup[canceler[p].box] = "ok",
           UNCHANGED <<row, pc, localVars, registryVars, boxVars, paid, heard, ran, returned, faultVars, scope>>
    PROVE  Inv'
<1>0. /\ MaxRetries' = MaxRetries /\ Sandboxes' = Sandboxes /\ Current(p)' = Current(p)
      /\ UNCHANGED <<row, pc, attempt, clean, fault, sent, result, requested, committed, active, boxVars, paid, heard,
                     ran, returned, late>>
  BY ScopeKept DEF localVars, registryVars, faultVars, Current
<1>1. ProcOK(p) /\ (pc[p] \in Working => AttemptOK(p))
  BY DEF Inv, ProcOK
<1>2. /\ canceler' \in [Procs -> Threads] /\ \A q \in Procs \ {p} : canceler'[q] = canceler[q]
      /\ canceler'[p] = NoThread
      /\ acked' \subseteq Procs /\ \A q \in Procs \ {p} : q \in acked' <=> q \in acked
      /\ p \in acked' => p \in acked \/ (ok /\ InFlight(p))
  <2>1. PICK raised \in BOOLEAN : acked' = IF ok /\ ~raised /\ InFlight(p) THEN acked \cup {p} ELSE acked
    BY DEF CancelReturns
  <2> QED BY <2>1 DEF CancelReturns, Inv, TypeOK, Threads
<1>3. TypeOK' /\ (canceler \in [Procs -> Threads])'
  BY <1>0, <1>2 DEF Inv, TypeOK, boxVars, Threads
<1>4. Alone(p)
  BY <1>0, <1>2 DEF Alone
<1>5. (pc[p] \in Working => AttemptOK(p))'
  BY <1>0, <1>1 DEF AttemptOK, Untouched, NoneAlive, boxVars
<1>6. DeliveryOK(p)' /\ CancelerOK(p)'
  BY <1>0, <1>1, <1>2 DEF ProcOK, DeliveryOK, CancelerOK, Delivering, NoThread
<1>7. CallOK(p)'
  BY <1>0, <1>1, <1>2 DEF ProcOK, CallOK, CancelerOK, InFlight, boxVars
<1>8. ActiveOK(p)'
  BY <1>0, <1>1, <1>2, CurrentFacts DEF ProcOK, ActiveOK, boxVars, NoThread
<1>9. ProcOK(p)'
  BY <1>5, <1>6, <1>7, <1>8 DEF ProcOK
<1> QED BY <1>0, <1>3, <1>4, <1>9, LocalStep

LEMMA CancelAwaitStep ==
    ASSUME Inv, NEW p \in Procs, CancelAwait(p), scope' = scope
    PROVE  Inv'
<1>1. PICK ok \in BOOLEAN : CancelReturns(p, ok) /\ (ok => cleanup[canceler[p].box] = "ok")
  BY DEF CancelAwait
<1>2. canceler[p] # NoThread
  BY DEF CancelAwait, NoThread
<1> QED BY <1>1, <1>2, CancelReturnsProc DEF CancelAwait

LEMMA CrashStep ==
    ASSUME Inv, NEW p \in Procs, Crash(p), scope' = scope
    PROVE  Inv'
<1>0. /\ EndTask(p) /\ UNCHANGED callVars /\ Sandboxes' = Sandboxes /\ InFlight(p)
      /\ UNCHANGED <<row, boxVars, paid, heard, late>>
  BY ScopeKept DEF Crash
<1>1. /\ canceler' \in [Procs -> Threads] /\ canceler'[p] = NoThread
      /\ \A q \in Procs \ {p} : canceler'[q] = canceler[q]
  BY DEF Crash, Inv, Threads
<1>2. TypeOK' /\ (canceler \in [Procs -> Threads])'
  BY <1>0, <1>1, EndTypes DEF Inv, TypeOK, callVars, boxVars, Threads
<1>3. Alone(p) /\ pc'[p] = "idle"
  BY <1>0, <1>1, EndTypes DEF Alone, callVars
<1>4. returned'[p] = None
  BY <1>0 DEF Inv, ProcOK, CallOK, callVars
<1>5. ProcOK(p)'
  BY <1>0, <1>1, <1>4, EndProc
<1> QED BY <1>0, <1>2, <1>3, <1>5, LocalStep DEF Working

-----------------------------------------------------------------------------
(* The steps that touch a sandbox. *)

\* They are the worker's, or those of a cancel call for its sandbox.
LEMMA SandboxStep ==
    ASSUME Inv, NEW p \in Procs, scope' = scope, NEW s \in Sandboxes, s[1] = p, ~Untouched(s) \/ pc[p] \in Working,
           UNCHANGED <<row, heard>>, Alone(p), TypeOK', (canceler \in [Procs -> Threads])', deletes' \in [Sandboxes -> Nat],
           \A t \in Sandboxes \ {s} : /\ box'[t] = box[t] /\ cleanup'[t] = cleanup[t] /\ deletes'[t] = deletes[t]
                                      /\ t \in paid' <=> t \in paid,
           deletes'[s] <= 1, cleanup'[s] = "no" => deletes'[s] = 0, cleanup'[s] = "ok" => box'[s] = "gone",
           box'[s] = "alive" => box[s] = "alive" \/ pc[p] \in Working,
           s \in paid' => s \in paid \/ pc[p] \in Working,
           pc'[p] \in Working => pc[p] \in Working, ProcOK(p)'
    PROVE  Inv'
<1>0. Sandboxes' = Sandboxes /\ row' = row
  BY ScopeKept
<1>1. \A q \in Procs \ {p} : pc[q] \notin Working
  BY DEF Inv, ProcOK, AttemptOK, OneWorker
<1>2. row.state # "none" /\ (pc[p] \in Working => row.state = "claimed")
  BY DEF Inv, ProcOK, AttemptOK, BoxesOK
<1>3. Shares(p)
  BY <1>0, <1>1 DEF Shares
<1>4. (\A q \in Procs : ProcOK(q))'
  BY <1>3, Others
<1>5. (CleanupHonest /\ RetryableIsUnpaid)'
  BY <1>0, <1>2 DEF Inv, TypeOK, CleanupHonest, RetryableIsUnpaid, Replayable
<1>6. (BoxesOK /\ HeardOK)'
  BY <1>0, <1>2 DEF Inv, BoxesOK, HeardOK
<1>7. OneWorker'
  BY WorkerStays
<1> QED BY <1>4, <1>5, <1>6, <1>7 DEF Inv

\* Nobody cancels a sandbox that does not exist yet.
LEMMA FreshSandbox ==
    ASSUME Inv, NEW p \in Procs, pc[p] = "create"
    PROVE  /\ ProcOK(p) /\ AttemptOK(p) /\ Untouched(Current(p)) /\ active[p] = None
           /\ canceler[p] # NoThread => canceler[p].box # Current(p)
           /\ canceler[p].box # Current(p)
<1>1. ProcOK(p) /\ AttemptOK(p) /\ Untouched(Current(p)) /\ active[p] = None /\ Current(p) # None
  BY CurrentFacts DEF Inv, ProcOK, AttemptOK, ActiveOK, Working
<1>2. canceler[p] # NoThread => canceler[p].box # Current(p)
  BY <1>1 DEF ProcOK, CancelerOK, Untouched
<1> QED BY <1>1, <1>2 DEF NoThread

LEMMA CreateStep ==
    ASSUME Inv, NEW p \in Procs, Create(p), scope' = scope
    PROVE  Inv'
<1> DEFINE s == Current(p)
<1>0. /\ MaxRetries' = MaxRetries /\ Sandboxes' = Sandboxes /\ Current(p)' = s /\ pc[p] = "create"
      /\ UNCHANGED <<row, attempt, clean, fault, sent, result, requested, committed, active, cleanup, deletes, canceler,
                     paid, heard, acked, ran, returned, late>>
  BY ScopeKept DEF Create, Stay, localVars, registryVars, callVars, faultVars, Current
<1>1. /\ s \in Sandboxes /\ s[1] = p
      /\ \A t \in Sandboxes : t[1] = p /\ t # s => t[2] <= attempt[p] \/ t[2] > attempt[p] + 1
      /\ s[2] = attempt[p] + 1 /\ attempt[p] \in Nat
  BY CurrentFacts
<1>2. /\ ProcOK(p) /\ AttemptOK(p) /\ Untouched(s) /\ active[p] = None /\ canceler[p].box # s
      /\ canceler[p] # NoThread => canceler[p].box # s
  BY <1>0, FreshSandbox
<1> HIDE DEF s
<1>3. /\ pc' \in [Procs -> Points] /\ pc'[p] = "register" /\ \A q \in Procs \ {p} : pc'[q] = pc[q]
      /\ box' \in [Sandboxes -> {"none", "alive", "gone"}] /\ box'[s] = "alive"
      /\ \A t \in Sandboxes \ {s} : box'[t] = box[t]
  BY <1>1 DEF Create, Stay, Goto, Inv, TypeOK, Points, s
<1>4. TypeOK' /\ (canceler \in [Procs -> Threads])'
  BY <1>0, <1>3 DEF Inv, TypeOK, Threads
<1>5. Alone(p)
  BY <1>0, <1>3 DEF Alone
<1>6. AttemptOK(p)'
  <2>1. AttemptOK(p) /\ s = Current(p)
    BY <1>2 DEF s
  <2> QED BY <1>0, <1>1, <1>2, <1>3, <2>1 DEF AttemptOK, Untouched, NoneAlive, Created
<1>7. DeliveryOK(p)' /\ CallOK(p)'
  BY <1>0, <1>2, <1>3 DEF ProcOK, DeliveryOK, CallOK, Delivering, Holding, Early, InFlight
<1>8. ActiveOK(p)'
  BY <1>0, <1>2, <1>3 DEF ProcOK, ActiveOK, Untouched
<1>9. CancelerOK(p)'
  BY <1>0, <1>2, <1>3 DEF ProcOK, CancelerOK, InFlight, NoThread
<1>10. ProcOK(p)'
  BY <1>6, <1>7, <1>8, <1>9 DEF ProcOK
<1> QED BY <1>0, <1>1, <1>2, <1>3, <1>4, <1>5, <1>10, SandboxStep DEF Working, Untouched, Inv, BoxesOK

LEMMA CreateUnknownStep ==
    ASSUME Inv, NEW p \in Procs, CreateUnknown(p), scope' = scope
    PROVE  Inv'
<1> DEFINE s == Current(p)
           r == IF p \in requested THEN Canceled(FALSE) ELSE Failure(FALSE, FALSE)
<1>0. /\ MaxRetries' = MaxRetries /\ Sandboxes' = Sandboxes /\ Current(p)' = s /\ pc[p] = "create"
      /\ UNCHANGED <<row, attempt, clean, fault, sent, requested, committed, active, cleanup, deletes, canceler,
                     paid, heard, acked, ran, returned, late>>
  BY ScopeKept DEF CreateUnknown, Publish, localVars, registryVars, callVars, faultVars, Current
<1>1. /\ s \in Sandboxes /\ s[1] = p
      /\ \A t \in Sandboxes : t[1] = p /\ t # s => t[2] <= attempt[p] \/ t[2] > attempt[p] + 1
      /\ s[2] = attempt[p] + 1 /\ attempt[p] \in Nat
  BY CurrentFacts
<1>2. /\ ProcOK(p) /\ AttemptOK(p) /\ Untouched(s) /\ active[p] = None /\ canceler[p].box # s
      /\ canceler[p] # NoThread => canceler[p].box # s
  BY <1>0, FreshSandbox
<1>3. r \in Results /\ ~r.cleanup /\ ~r.retryable /\ r.status # "success"
  BY DEF Canceled, Failure, Results
<1> HIDE DEF s, r
<1>4. /\ pc' \in [Procs -> Points] /\ pc'[p] = "publish" /\ \A q \in Procs \ {p} : pc'[q] = pc[q]
      /\ result' \in [Procs -> Results \cup {None}] /\ result'[p] = r /\ \A q \in Procs \ {p} : result'[q] = result[q]
  BY <1>3 DEF CreateUnknown, Publish, Goto, Inv, TypeOK, Points, r
<1>5. /\ box' \in [Sandboxes -> {"none", "alive", "gone"}] /\ \A t \in Sandboxes \ {s} : box'[t] = box[t]
      /\ box'[s] \in {"none", "alive"}
  BY <1>1 DEF CreateUnknown, Inv, TypeOK, s
<1>6. TypeOK' /\ (canceler \in [Procs -> Threads])'
  BY <1>0, <1>4, <1>5 DEF Inv, TypeOK, Threads
<1>7. Alone(p)
  BY <1>0, <1>4 DEF Alone
<1>8. AttemptOK(p)'
  <2>1. AttemptOK(p) /\ s = Current(p)
    BY <1>2 DEF s
  <2> QED BY <1>0, <1>1, <1>2, <1>3, <1>4, <1>5, <2>1 DEF AttemptOK, Untouched, NoneAlive, Created
<1>9. DeliveryOK(p)' /\ CallOK(p)'
  BY <1>0, <1>2, <1>4 DEF ProcOK, DeliveryOK, CallOK, Delivering, Holding, Early, InFlight
<1>10. ActiveOK(p)'
  BY <1>0, <1>2, <1>4 DEF ProcOK, ActiveOK
<1>11. CancelerOK(p)'
  BY <1>0, <1>2, <1>4, <1>5 DEF ProcOK, CancelerOK, InFlight, NoThread
<1>12. ProcOK(p)'
  BY <1>8, <1>9, <1>10, <1>11 DEF ProcOK
<1> QED BY <1>0, <1>1, <1>2, <1>4, <1>5, <1>6, <1>7, <1>12, SandboxStep DEF Working, Untouched, Inv, BoxesOK

LEMMA DispatchStep ==
    ASSUME Inv, NEW p \in Procs, Dispatch(p), scope' = scope
    PROVE  Inv'
<1> DEFINE s == Current(p)
<1>0. /\ MaxRetries' = MaxRetries /\ Sandboxes' = Sandboxes /\ Current(p)' = s /\ pc[p] = "dispatch"
      /\ UNCHANGED <<row, attempt, clean, fault, result, requested, committed, active, boxVars, canceler,
                     heard, acked, ran, returned, late>>
      /\ paid' = paid \/ paid' = paid \cup {s}
  BY ScopeKept DEF Dispatch, registryVars, callVars, faultVars, Current
<1>1. /\ s \in Sandboxes /\ s[1] = p /\ s[2] = attempt[p] + 1 /\ attempt[p] \in Nat
      /\ \A t \in Sandboxes : t[1] = p /\ t # s => t[2] <= attempt[p] \/ t[2] > attempt[p] + 1
  BY CurrentFacts
<1>2. ProcOK(p) /\ AttemptOK(p) /\ s = Current(p)
  BY <1>0 DEF Inv, ProcOK, Working
<1> HIDE DEF s
<1>3. /\ pc' \in [Procs -> Points] /\ pc'[p] = "running" /\ \A q \in Procs \ {p} : pc'[q] = pc[q]
      /\ sent' \in [Procs -> BOOLEAN] /\ sent'[p] /\ \A q \in Procs \ {p} : sent'[q] = sent[q]
  BY DEF Dispatch, Goto, Inv, TypeOK, Points
<1>4. TypeOK' /\ (canceler \in [Procs -> Threads])'
  BY <1>0, <1>1, <1>3 DEF Inv, TypeOK, Threads, boxVars
<1>5. Alone(p)
  BY <1>0, <1>3 DEF Alone
<1>6. AttemptOK(p)'
  BY <1>0, <1>1, <1>2, <1>3 DEF AttemptOK, Untouched, NoneAlive, Created, boxVars
<1>7. DeliveryOK(p)' /\ CallOK(p)' /\ CancelerOK(p)'
  BY <1>0, <1>2, <1>3 DEF ProcOK, DeliveryOK, CallOK, CancelerOK, Delivering, Holding, Early, InFlight, NoThread, boxVars
<1>8. ActiveOK(p)'
  BY <1>0, <1>2, <1>3 DEF ProcOK, ActiveOK, Working, Holding, boxVars
<1>9. ProcOK(p)'
  BY <1>6, <1>7, <1>8 DEF ProcOK
<1> QED BY <1>0, <1>1, <1>2, <1>3, <1>4, <1>5, <1>9, SandboxStep DEF Working, boxVars, Inv, BoxesOK

\* The execution becomes the one that deletes, or waits for the cancel call.
LEMMA CleanupStep ==
    ASSUME Inv, NEW p \in Procs, Cleanup(p), scope' = scope
    PROVE  Inv'
<1> DEFINE s == Current(p)
<1>0. /\ MaxRetries' = MaxRetries /\ Sandboxes' = Sandboxes /\ Current(p)' = s /\ pc[p] = "cleanup"
      /\ UNCHANGED <<row, attempt, clean, fault, sent, result, requested, committed, active, box, deletes, canceler,
                     paid, heard, acked, ran, returned, late>>
  BY ScopeKept DEF Cleanup, Stay, localVars, registryVars, callVars, faultVars, Current
<1>1. /\ s \in Sandboxes /\ s[1] = p /\ s[2] = attempt[p] + 1 /\ attempt[p] \in Nat
      /\ \A t \in Sandboxes : t[1] = p /\ t # s => t[2] <= attempt[p] \/ t[2] > attempt[p] + 1
  BY CurrentFacts
<1>2. ProcOK(p) /\ AttemptOK(p) /\ s = Current(p) /\ (cleanup[s] = "no" => deletes[s] = 0)
  BY <1>0, <1>1 DEF Inv, ProcOK, Working, BoxesOK
<1> HIDE DEF s
<1>3. /\ pc' \in [Procs -> Points] /\ \A q \in Procs \ {p} : pc'[q] = pc[q]
      /\ \/ cleanup[s] = "no" /\ cleanup' = [cleanup EXCEPT ![s] = "started"] /\ pc'[p] = "delete"
         \/ cleanup[s] # "no" /\ cleanup' = cleanup /\ pc'[p] = "await"
  BY <1>2 DEF Cleanup, OwnsCleanup, Stay, Goto, Inv, TypeOK, Points
<1>4. /\ cleanup' \in [Sandboxes -> {"no", "started", "ok", "failed"}]
      /\ \A t \in Sandboxes \ {s} : cleanup'[t] = cleanup[t]
      /\ cleanup'[s] = IF pc'[p] = "delete" THEN "started" ELSE cleanup[s]
  BY <1>1, <1>3 DEF Inv, TypeOK
<1>5. TypeOK' /\ (canceler \in [Procs -> Threads])'
  BY <1>0, <1>3, <1>4 DEF Inv, TypeOK, Threads
<1>6. Alone(p)
  BY <1>0, <1>3 DEF Alone
<1>7. AttemptOK(p)'
  BY <1>0, <1>1, <1>2, <1>3, <1>4 DEF AttemptOK, Untouched, NoneAlive, Created
<1>8. DeliveryOK(p)' /\ CallOK(p)'
  BY <1>0, <1>2, <1>3 DEF ProcOK, DeliveryOK, CallOK, Delivering, Holding, Early, InFlight
<1>9. CancelerOK(p)'
  BY <1>0, <1>2, <1>3, <1>4 DEF ProcOK, CancelerOK, InFlight, NoThread
<1>10. ActiveOK(p)'
  BY <1>0, <1>1, <1>2, <1>3, <1>4 DEF ProcOK, ActiveOK, CancelerOK, Working, Holding, NoThread
<1>11. ProcOK(p)'
  BY <1>7, <1>8, <1>9, <1>10 DEF ProcOK
<1>12. pc[p] \in Working /\ pc'[p] \in Working
  BY <1>0, <1>3 DEF Working
<1>13. deletes'[s] <= 1 /\ (cleanup'[s] = "no" => deletes'[s] = 0) /\ (cleanup'[s] = "ok" => box'[s] = "gone")
  BY <1>0, <1>1, <1>2, <1>3, <1>4 DEF Inv, BoxesOK
<1> QED BY <1>0, <1>1, <1>2, <1>4, <1>5, <1>6, <1>11, <1>12, <1>13, SandboxStep DEF Inv, BoxesOK

\* One call of client.delete.
LEMMA DeleteFacts ==
    ASSUME Inv, NEW p \in Procs, NEW s \in Sandboxes, deletes[s] = 0, DeleteSandbox(p, s), scope' = scope
    PROVE  /\ deletes' \in [Sandboxes -> Nat] /\ deletes'[s] = 1
           /\ cleanup' \in [Sandboxes -> {"no", "started", "ok", "failed"}] /\ cleanup'[s] \in {"ok", "failed"}
           /\ box' \in [Sandboxes -> {"none", "alive", "gone"}] /\ box'[s] \in {"alive", "gone"}
           /\ cleanup'[s] = "ok" => box'[s] = "gone"
           /\ box'[s] = "alive" => box[s] = "alive"
           /\ \A t \in Sandboxes \ {s} : box'[t] = box[t] /\ cleanup'[t] = cleanup[t] /\ deletes'[t] = deletes[t]
           /\ active' \in [Procs -> Sandboxes \cup {None}]
           /\ active'[p] = IF active[p] = s THEN None ELSE active[p]
           /\ \A q \in Procs \ {p} : active'[q] = active[q]
<1>0. /\ deletes \in [Sandboxes -> Nat] /\ cleanup \in [Sandboxes -> {"no", "started", "ok", "failed"}]
      /\ box \in [Sandboxes -> {"none", "alive", "gone"}] /\ active \in [Procs -> Sandboxes \cup {None}]
  BY DEF Inv, BoxesOK, TypeOK
<1>1. /\ deletes' \in [Sandboxes -> Nat] /\ deletes'[s] = 1
      /\ \A t \in Sandboxes \ {s} : deletes'[t] = deletes[t]
  BY <1>0 DEF DeleteSandbox
<1>2. /\ active' \in [Procs -> Sandboxes \cup {None}]
      /\ active'[p] = IF active[p] = s THEN None ELSE active[p]
      /\ \A q \in Procs \ {p} : active'[q] = active[q]
  BY <1>0 DEF DeleteSandbox
<1>3. PICK c \in {"ok", "failed"}, b \in {"alive", "gone"} :
         /\ cleanup' = [cleanup EXCEPT ![s] = c] /\ box' = [box EXCEPT ![s] = b]
         /\ (c = "ok" => b = "gone") /\ (b = "alive" => box[s] = "alive")
  BY DEF DeleteSandbox
<1> QED BY <1>0, <1>1, <1>2, <1>3

LEMMA DeleteStep ==
    ASSUME Inv, NEW p \in Procs, Delete(p), scope' = scope
    PROVE  Inv'
<1> DEFINE s == Current(p)
<1>0. /\ MaxRetries' = MaxRetries /\ Sandboxes' = Sandboxes /\ Current(p)' = s /\ pc[p] = "delete"
      /\ UNCHANGED <<row, attempt, fault, sent, result, requested, committed, canceler,
                     paid, heard, acked, ran, returned, late>>
  BY ScopeKept DEF Delete, callVars, faultVars, Current
<1>1. /\ s \in Sandboxes /\ s[1] = p /\ s[2] = attempt[p] + 1 /\ attempt[p] \in Nat
      /\ \A t \in Sandboxes : t[1] = p /\ t # s => t[2] <= attempt[p] \/ t[2] > attempt[p] + 1
  BY CurrentFacts
<1>2. ProcOK(p) /\ AttemptOK(p) /\ s = Current(p) /\ deletes[s] = 0 /\ DeleteSandbox(p, s)
  BY <1>0 DEF Inv, ProcOK, Working, ActiveOK, Delete
<1>3. /\ deletes' \in [Sandboxes -> Nat] /\ deletes'[s] = 1
      /\ cleanup' \in [Sandboxes -> {"no", "started", "ok", "failed"}] /\ cleanup'[s] \in {"ok", "failed"}
      /\ box' \in [Sandboxes -> {"none", "alive", "gone"}] /\ box'[s] \in {"alive", "gone"}
      /\ cleanup'[s] = "ok" => box'[s] = "gone"
      /\ box'[s] = "alive" => box[s] = "alive"
      /\ \A t \in Sandboxes \ {s} : box'[t] = box[t] /\ cleanup'[t] = cleanup[t] /\ deletes'[t] = deletes[t]
      /\ active' \in [Procs -> Sandboxes \cup {None}]
      /\ active'[p] = IF active[p] = s THEN None ELSE active[p]
      /\ \A q \in Procs \ {p} : active'[q] = active[q]
  BY <1>1, <1>2, DeleteFacts
<1>4. active'[p] = None
  BY <1>2, <1>3 DEF ProcOK, ActiveOK
<1> HIDE DEF s
<1>5. /\ pc' \in [Procs -> Points] /\ pc'[p] = "exit" /\ \A q \in Procs \ {p} : pc'[q] = pc[q]
      /\ clean' \in [Procs -> BOOLEAN] /\ (clean'[p] => cleanup'[s] = "ok")
      /\ \A q \in Procs \ {p} : clean'[q] = clean[q]
  BY <1>2 DEF Delete, Goto, Inv, TypeOK, Points
<1>6. TypeOK' /\ (canceler \in [Procs -> Threads])'
  BY <1>0, <1>3, <1>5 DEF Inv, TypeOK, Threads
<1>7. Alone(p)
  BY <1>0, <1>3, <1>5 DEF Alone
<1>8. AttemptOK(p)'
  BY <1>0, <1>1, <1>2, <1>3, <1>5 DEF AttemptOK, Untouched, NoneAlive, Created
<1>9. DeliveryOK(p)' /\ CallOK(p)'
  BY <1>0, <1>2, <1>5 DEF ProcOK, DeliveryOK, CallOK, Delivering, Holding, Early, InFlight
<1>10. CancelerOK(p)'
  BY <1>0, <1>2, <1>3, <1>5 DEF ProcOK, CancelerOK, ActiveOK, InFlight, NoThread
<1>11. ActiveOK(p)'
  BY <1>0, <1>4, <1>5 DEF ActiveOK
<1>12. ProcOK(p)'
  BY <1>8, <1>9, <1>10, <1>11 DEF ProcOK
<1> QED BY <1>0, <1>1, <1>3, <1>5, <1>6, <1>7, <1>12, SandboxStep DEF Working

\* The sandbox of a cancel call.
LEMMA CancelerFacts ==
    ASSUME Inv, NEW p \in Procs, canceler[p].at # "idle"
    PROVE  /\ canceler[p].box \in Sandboxes /\ canceler[p].box[1] = p
           /\ canceler[p] # NoThread /\ ~Untouched(canceler[p].box)
           /\ canceler[p] \in [at : {"cleanup", "delete", "await"}, box : Sandboxes]
BY DEF Inv, ProcOK, CancelerOK, NoThread, Untouched

LEMMA CancelCleanupStep ==
    ASSUME Inv, NEW p \in Procs, CancelCleanup(p), scope' = scope
    PROVE  Inv'
<1>0. /\ MaxRetries' = MaxRetries /\ Sandboxes' = Sandboxes /\ Current(p)' = Current(p) /\ canceler[p].at = "cleanup"
      /\ UNCHANGED <<row, pc, attempt, clean, fault, sent, result, requested, committed, active, box, deletes,
                     paid, heard, ran, returned, late>>
  BY ScopeKept DEF CancelCleanup, localVars, registryVars, faultVars, Current
<1>1. PICK s \in Sandboxes : /\ s = canceler[p].box /\ s[1] = p /\ ~Untouched(s) /\ canceler[p] # NoThread
                             /\ canceler[p] \in [at : {"cleanup", "delete", "await"}, box : Sandboxes]
  BY <1>0, CancelerFacts
<1>2. CASE CancelReturns(p, FALSE) /\ UNCHANGED cleanup
  BY <1>1, <1>2, CancelReturnsProc DEF CancelCleanup, boxVars
<1>3. CASE \/ OwnsCleanup(s) /\ cleanup' = [cleanup EXCEPT ![s] = "started"]
              /\ canceler' = [canceler EXCEPT ![p].at = "delete"] /\ UNCHANGED acked
           \/ ~OwnsCleanup(s) /\ canceler' = [canceler EXCEPT ![p].at = "await"] /\ UNCHANGED <<cleanup, acked>>
  <2>1. ProcOK(p) /\ (pc[p] \in Working => AttemptOK(p)) /\ (cleanup[s] = "no" => deletes[s] = 0)
    BY DEF Inv, ProcOK, BoxesOK
  <2>2. PICK to \in {"delete", "await"} :
           /\ canceler' = [canceler EXCEPT ![p].at = to] /\ acked' = acked
           /\ cleanup' = IF to = "delete" THEN [cleanup EXCEPT ![s] = "started"] ELSE cleanup
           /\ (to = "delete") = (cleanup[s] = "no")
    BY <1>3 DEF OwnsCleanup
  <2>3. /\ canceler'[p] = [at |-> to, box |-> s] /\ canceler' \in [Procs -> Threads]
        /\ \A q \in Procs \ {p} : canceler'[q] = canceler[q]
    BY <1>0, <1>1, <2>2 DEF Inv, Threads
  <2>4. /\ cleanup' \in [Sandboxes -> {"no", "started", "ok", "failed"}]
        /\ \A t \in Sandboxes \ {s} : cleanup'[t] = cleanup[t]
        /\ cleanup'[s] = IF to = "delete" THEN "started" ELSE cleanup[s]
    BY <2>2 DEF Inv, TypeOK
  <2>5. TypeOK' /\ (canceler \in [Procs -> Threads])'
    BY <1>0, <2>2, <2>3, <2>4 DEF Inv, TypeOK, Threads
  <2>6. Alone(p)
    BY <1>0, <2>2, <2>3 DEF Alone
  <2>7. (pc[p] \in Working => AttemptOK(p))'
    BY <1>0, <1>1, <2>1, <2>2, <2>4 DEF AttemptOK, Untouched, NoneAlive, Created
  <2>8. DeliveryOK(p)' /\ CallOK(p)'
    BY <1>0, <2>1, <2>2, <2>4, CurrentFacts DEF ProcOK, DeliveryOK, CallOK, Delivering, InFlight
  <2>9. CancelerOK(p)'
    BY <1>0, <1>1, <2>1, <2>2, <2>3, <2>4 DEF ProcOK, CancelerOK, InFlight, NoThread
  <2>10. ActiveOK(p)'
    BY <1>0, <1>1, <2>1, <2>2, <2>3, <2>4, CurrentFacts DEF ProcOK, ActiveOK, NoThread
  <2>11. ProcOK(p)'
    BY <2>7, <2>8, <2>9, <2>10 DEF ProcOK
  <2>12. deletes'[s] <= 1 /\ (cleanup'[s] = "no" => deletes'[s] = 0) /\ (cleanup'[s] = "ok" => box'[s] = "gone")
    BY <1>0, <2>1, <2>2, <2>4 DEF Inv, BoxesOK
  <2> QED BY <1>0, <1>1, <2>4, <2>5, <2>6, <2>11, <2>12, SandboxStep DEF Inv, BoxesOK
<1> QED BY <1>1, <1>2, <1>3 DEF CancelCleanup

LEMMA CancelDeleteStep ==
    ASSUME Inv, NEW p \in Procs, CancelDelete(p), scope' = scope
    PROVE  Inv'
<1>0. /\ MaxRetries' = MaxRetries /\ Sandboxes' = Sandboxes /\ Current(p)' = Current(p) /\ canceler[p].at = "delete"
      /\ UNCHANGED <<row, pc, attempt, clean, fault, sent, result, requested, committed,
                     paid, heard, ran, returned, late>>
  BY ScopeKept DEF CancelDelete, localVars, faultVars, Current
<1>1. PICK s \in Sandboxes : /\ s = canceler[p].box /\ s[1] = p /\ ~Untouched(s) /\ canceler[p] # NoThread
                             /\ canceler[p] \in [at : {"cleanup", "delete", "await"}, box : Sandboxes]
  BY <1>0, CancelerFacts
<1>2. /\ ProcOK(p) /\ (pc[p] \in Working => AttemptOK(p)) /\ deletes[s] = 0 /\ cleanup[s] = "started"
      /\ box[s] # "none" /\ DeleteSandbox(p, s)
  BY <1>0, <1>1 DEF Inv, ProcOK, CancelerOK, CancelDelete
<1>3. /\ deletes' \in [Sandboxes -> Nat] /\ deletes'[s] = 1
      /\ cleanup' \in [Sandboxes -> {"no", "started", "ok", "failed"}] /\ cleanup'[s] \in {"ok", "failed"}
      /\ box' \in [Sandboxes -> {"none", "alive", "gone"}] /\ box'[s] \in {"alive", "gone"}
      /\ cleanup'[s] = "ok" => box'[s] = "gone"
      /\ box'[s] = "alive" => box[s] = "alive"
      /\ \A t \in Sandboxes \ {s} : box'[t] = box[t] /\ cleanup'[t] = cleanup[t] /\ deletes'[t] = deletes[t]
      /\ active' \in [Procs -> Sandboxes \cup {None}]
      /\ active'[p] = IF active[p] = s THEN None ELSE active[p]
      /\ \A q \in Procs \ {p} : active'[q] = active[q]
  BY <1>2, DeleteFacts
<1>4. /\ canceler' \in [Procs -> Threads] /\ \A q \in Procs \ {p} : canceler'[q] = canceler[q]
      /\ canceler'[p] = NoThread
      /\ acked' \subseteq Procs /\ \A q \in Procs \ {p} : q \in acked' <=> q \in acked
      /\ p \in acked' => p \in acked \/ (cleanup'[s] = "ok" /\ InFlight(p))
  <2>1. CancelReturns(p, cleanup'[s] = "ok")
    BY <1>1 DEF CancelDelete
  <2>2. PICK raised \in BOOLEAN : acked' = IF cleanup'[s] = "ok" /\ ~raised /\ InFlight(p) THEN acked \cup {p} ELSE acked
    BY <2>1 DEF CancelReturns
  <2>3. canceler' = [canceler EXCEPT ![p] = NoThread]
    BY <2>1 DEF CancelReturns
  <2> QED BY <1>0, <2>2, <2>3 DEF Inv, TypeOK, Threads
<1>5. TypeOK' /\ (canceler \in [Procs -> Threads])'
  BY <1>0, <1>3, <1>4 DEF Inv, TypeOK, Threads
<1>6. Alone(p)
  BY <1>0, <1>3, <1>4 DEF Alone
<1>7. (pc[p] \in Working => AttemptOK(p))'
  <2> SUFFICES ASSUME pc[p] \in Working PROVE AttemptOK(p)'
    BY <1>0
  <2>1. AttemptOK(p) /\ Current(p) \in Sandboxes
    BY <1>2, CurrentFacts
  <2>2. \A t \in Sandboxes : Untouched(t) => Untouched(t)'
    BY <1>0, <1>1, <1>3 DEF Untouched
  <2>3. \A t \in Sandboxes : /\ box'[t] = "alive" => box[t] = "alive"
                             /\ box[t] # "none" => box'[t] # "none"
    BY <1>3
  <2>4. NoneAlive => NoneAlive'
    BY <1>0, <2>3 DEF NoneAlive
  <2> QED BY <1>0, <2>1, <2>2, <2>3, <2>4 DEF AttemptOK
<1>8. DeliveryOK(p)' /\ CancelerOK(p)'
  BY <1>0, <1>2, <1>4 DEF ProcOK, DeliveryOK, CancelerOK, Delivering, NoThread
<1>9. CallOK(p)'
  BY <1>0, <1>1, <1>2, <1>3, <1>4, CurrentFacts DEF ProcOK, CallOK, CancelerOK, InFlight
<1>10. ActiveOK(p)'
  BY <1>0, <1>1, <1>2, <1>3, <1>4, CurrentFacts DEF ProcOK, ActiveOK, NoThread
<1>11. ProcOK(p)'
  BY <1>7, <1>8, <1>9, <1>10 DEF ProcOK
<1> QED BY <1>0, <1>1, <1>3, <1>5, <1>6, <1>11, SandboxStep

-----------------------------------------------------------------------------
(* The steps that write the row, and the sink. *)

\* The claim makes p the worker: nothing was done for the request before.
LEMMA ClaimStep ==
    ASSUME Inv, NEW p \in Procs, Claim(p), scope' = scope
    PROVE  Inv'
<1>0. UNCHANGED <<boxVars, canceler, paid, heard, faultVars, scope>> /\ pc[p] = "claim" /\ InFlight(p)
  BY DEF Claim, InFlight
<1>1. CASE UNCHANGED row /\ ((Replayable /\ Adopt(p)) \/ Raise(p))
  BY <1>0, <1>1, AdoptStep, RaiseStep
<1>2. CASE /\ ~Replayable /\ ~Pending
           /\ row' = Claimed /\ ran' = ran \cup {p} /\ Goto(p, "loop")
           /\ UNCHANGED <<localVars, registryVars, acked, returned>>
  <2>0. /\ MaxRetries' = MaxRetries /\ Sandboxes' = Sandboxes /\ Current(p)' = Current(p)
        /\ UNCHANGED <<attempt, clean, fault, sent, result, requested, committed, active, acked, returned, late>>
        /\ row.state = "none" /\ ran' = ran \cup {p}
    BY <1>0, <1>2, ScopeKept DEF localVars, registryVars, faultVars, Current, Replayable, Pending, Inv, TypeOK
  <2>1. /\ row' = [state |-> "claimed", result |-> None, delivered |-> FALSE, token |-> None, expired |-> FALSE]
        /\ pc' \in [Procs -> Points] /\ pc'[p] = "loop" /\ \A q \in Procs \ {p} : pc'[q] = pc[q]
    BY <1>2 DEF Claimed, NoRow, Goto, Inv, TypeOK, Points
  <2>2. TypeOK' /\ (canceler \in [Procs -> Threads])'
    BY <1>0, <2>0, <2>1 DEF Inv, TypeOK, boxVars, Threads
  <2>3. Alone(p)
    BY <1>0, <2>0, <2>1 DEF Alone
  <2>4. \A q \in Procs : pc[q] \notin Working /\ row.token = None
    BY <2>0 DEF Inv, ProcOK, AttemptOK, TypeOK
  <2>5. Shares(p)
    BY <1>0, <2>0, <2>4, NoneAssumption DEF Shares, boxVars
  <2>6. ProcOK(p) /\ (\A s \in Sandboxes : Untouched(s)) /\ heard = {} /\ Current(p) \in Sandboxes
    BY <2>0, CurrentFacts DEF Inv, BoxesOK, HeardOK
  <2>7. AttemptOK(p)'
    <3>1. clean[p] /\ ~sent[p]
      BY <1>0, <2>6 DEF ProcOK, CallOK, Early
    <3> QED BY <1>0, <2>0, <2>1, <2>6, <3>1 DEF AttemptOK, Untouched, NoneAlive, boxVars, Created
  <2>8. DeliveryOK(p)' /\ CallOK(p)'
    BY <1>0, <2>0, <2>1, <2>6 DEF ProcOK, DeliveryOK, CallOK, Delivering, Holding, Early, InFlight
  <2>9. ActiveOK(p)' /\ CancelerOK(p)'
    BY <1>0, <2>0, <2>1, <2>6 DEF ProcOK, ActiveOK, CancelerOK, Working, Holding, InFlight, NoThread, boxVars
  <2>10. (\A q \in Procs : ProcOK(q))'
    BY <2>3, <2>5, <2>7, <2>8, <2>9, Others DEF ProcOK
  <2>11. (CleanupHonest /\ RetryableIsUnpaid /\ HeardOK)'
    BY <1>0, <2>1, <2>6 DEF CleanupHonest, RetryableIsUnpaid, Replayable, HeardOK
  <2>12. BoxesOK'
    BY <1>0, <2>0, <2>1 DEF Inv, BoxesOK, boxVars
  <2>13. OneWorker'
    BY <2>0, <2>3, WorkerStays
  <2> QED BY <2>2, <2>10, <2>11, <2>12, <2>13 DEF Inv
<1> QED BY <1>1, <1>2 DEF Claim

\* A step that changes who delivers a result, not the result.
LEMMA DeliveryStep ==
    ASSUME Inv, NEW p \in Procs, row.state = "completed", row'.state = "completed", row'.result = row.result,
           UNCHANGED <<boxVars, paid, scope>>, heard' \subseteq heard \cup {row.result}, Alone(p), TypeOK',
           (canceler \in [Procs -> Threads])', pc'[p] \notin Working, ProcOK(p)',
           \A q \in Procs \ {p} : row.token = q /\ ~row.expired => row'.token = q /\ ~row'.expired
    PROVE  Inv'
<1>0. Sandboxes' = Sandboxes
  BY ScopeKept
<1>1. \A q \in Procs : pc[q] \notin Working
  BY DEF Inv, ProcOK, AttemptOK
<1>2. Shares(p)
  BY <1>1 DEF Shares, boxVars
<1>3. (\A q \in Procs : ProcOK(q))'
  BY <1>2, Others
<1>4. (CleanupHonest /\ RetryableIsUnpaid)'
  BY <1>0 DEF Inv, CleanupHonest, RetryableIsUnpaid, Replayable, boxVars
<1>5. (BoxesOK /\ HeardOK)'
  BY <1>0 DEF Inv, BoxesOK, HeardOK, boxVars
<1>6. OneWorker'
  BY WorkerStays
<1> QED BY <1>3, <1>4, <1>5, <1>6 DEF Inv

\* An execution returns the row's result, and a canceled one if a cancel call was
\* acknowledged while it ran the request.
LEMMA ReturnStep ==
    ASSUME Inv, NEW p \in Procs, pc[p] \in {"reserve", "ack"}, Return(p), UNCHANGED <<boxVars, canceler, paid, heard, scope>>,
           row'.state = "completed", row'.result = row.result, late' = late,
           row'.delivered \in BOOLEAN, row'.token \in {None, row.token}, row'.expired \in BOOLEAN,
           row'.delivered => row'.token = None,
           row' \in [state : {"none", "claimed", "completed"}, result : Results \cup {None}, delivered : BOOLEAN,
                     token : Procs \cup {None}, expired : BOOLEAN],
           \A q \in Procs \ {p} : row.token = q /\ ~row.expired => row'.token = q /\ ~row'.expired
    PROVE  Inv'
<1>0. /\ EndTask(p) /\ returned' = [returned EXCEPT ![p] = result[p]] /\ UNCHANGED <<acked, ran>>
      /\ Sandboxes' = Sandboxes
  BY ScopeKept DEF Return
<1>1. /\ ProcOK(p) /\ row.state = "completed" /\ result[p] = row.result /\ row.result \in Results /\ InFlight(p)
      /\ p \in acked /\ p \in ran => result[p].status = "canceled"
  BY DEF Inv, ProcOK, DeliveryOK, CallOK, Holding, InFlight, TypeOK
<1>2. /\ returned' \in [Procs -> Results \cup {None}] /\ returned'[p] = result[p]
      /\ \A q \in Procs \ {p} : returned'[q] = returned[q]
  BY <1>0, <1>1 DEF Inv, TypeOK
<1>3. TypeOK' /\ (canceler \in [Procs -> Threads])'
  BY <1>0, <1>1, <1>2, EndTypes, NoneAssumption DEF Inv, TypeOK, boxVars, Threads
<1>4. Alone(p) /\ pc'[p] = "idle"
  BY <1>0, <1>2, EndTypes DEF Alone
<1>5. ProcOK(p)'
  BY <1>0, <1>1, <1>2, EndProc
<1> QED BY <1>1, <1>3, <1>4, <1>5, DeliveryStep DEF Working

LEMMA RowFacts ==
    ASSUME Inv
    PROVE  /\ row \in [state : {"none", "claimed", "completed"}, result : Results \cup {None}, delivered : BOOLEAN,
                       token : Procs \cup {None}, expired : BOOLEAN]
           /\ (row.state = "completed") = (row.result # None)
           /\ row.delivered \/ row.token # None => row.state = "completed"
           /\ ~(row.delivered /\ row.token # None)
BY DEF Inv, TypeOK

\* The result is written, and delivered from then on.
LEMMA CommitStep ==
    ASSUME Inv, NEW p \in Procs, Commit(p), scope' = scope
    PROVE  Inv'
<1>0. UNCHANGED <<boxVars, canceler, paid, heard, faultVars, scope>> /\ pc[p] = "commit" /\ InFlight(p)
  BY DEF Commit, InFlight
<1>1. CASE Raise(p) /\ UNCHANGED row
  BY <1>0, <1>1, RaiseStep
<1>2. CASE row' = Committed(result[p], p \notin Sinkless) /\ Stay(p, "reserve")
  <2>0. /\ MaxRetries' = MaxRetries /\ Sandboxes' = Sandboxes /\ Current(p)' = Current(p)
        /\ UNCHANGED <<attempt, clean, fault, sent, result, requested, committed, active, acked, ran, returned, late>>
    BY <1>0, <1>2, ScopeKept DEF Stay, localVars, registryVars, callVars, faultVars, Current
  <2>1. ProcOK(p) /\ AttemptOK(p) /\ result[p] \in Results /\ row.state = "claimed"
    BY <1>0 DEF Inv, ProcOK, Working, AttemptOK
  <2>2. /\ row.result = None /\ row.token = None /\ ~row.delivered /\ result[p] # None /\ heard = {}
    BY <2>1, NoneAssumption DEF Inv, TypeOK, HeardOK
  <2>3. /\ row' \in [state : {"none", "claimed", "completed"}, result : Results \cup {None}, delivered : BOOLEAN,
                     token : Procs \cup {None}, expired : BOOLEAN]
        /\ row'.state = "completed" /\ row'.result = result[p] /\ row'.token = None
    BY <1>2, <2>1, <2>2, RowFacts DEF Committed
  <2>4. pc' \in [Procs -> Points] /\ pc'[p] = "reserve" /\ \A q \in Procs \ {p} : pc'[q] = pc[q]
    BY <1>2 DEF Stay, Goto, Inv, TypeOK, Points
  <2>5. TypeOK' /\ (canceler \in [Procs -> Threads])'
    BY <1>0, <2>0, <2>2, <2>3, <2>4 DEF Inv, TypeOK, boxVars, Threads
  <2>6. Alone(p)
    BY <1>0, <2>0, <2>4 DEF Alone
  <2>7. \A q \in Procs \ {p} : pc[q] \notin Working
    BY <1>0 DEF Inv, OneWorker, Working
  <2>8. Shares(p)
    BY <1>0, <2>1, <2>2, <2>7, NoneAssumption DEF Shares, boxVars
  <2>9. DeliveryOK(p)' /\ CallOK(p)'
    BY <1>0, <2>0, <2>1, <2>3, <2>4 DEF ProcOK, DeliveryOK, CallOK, Delivering, Holding, Early, InFlight
  <2>10. ActiveOK(p)' /\ CancelerOK(p)'
    BY <1>0, <2>0, <2>1, <2>4 DEF ProcOK, ActiveOK, CancelerOK, Working, Holding, InFlight, NoThread, boxVars
  <2>11. ProcOK(p)'
    BY <2>4, <2>9, <2>10 DEF ProcOK, Working
  <2>12. (\A q \in Procs : ProcOK(q))'
    BY <2>6, <2>8, <2>11, Others
  <2>13. (CleanupHonest /\ RetryableIsUnpaid)'
    BY <1>0, <2>0, <2>1, <2>3 DEF AttemptOK, NoneAlive, CleanupHonest, RetryableIsUnpaid, boxVars
  <2>14. (BoxesOK /\ HeardOK)'
    BY <1>0, <2>0, <2>2, <2>3 DEF Inv, BoxesOK, HeardOK, boxVars
  <2>15. OneWorker'
    BY <2>4, <2>6, WorkerStays DEF Working
  <2> QED BY <2>5, <2>12, <2>13, <2>14, <2>15 DEF Inv
<1> QED BY <1>1, <1>2 DEF Commit

\* The delivery lease is taken when it is free or has run out.
LEMMA ReserveStep ==
    ASSUME Inv, NEW p \in Procs, Reserve(p), scope' = scope
    PROVE  Inv'
<1>0. /\ UNCHANGED <<boxVars, canceler, paid, heard, slow, crashes, scope>> /\ pc[p] = "reserve" /\ InFlight(p)
      /\ ProcOK(p) /\ row.state = "completed" /\ result[p] = row.result
  BY DEF Reserve, InFlight, Inv, ProcOK, DeliveryOK, Holding
<1>1. CASE Raise(p) /\ UNCHANGED <<row, late>>
  BY <1>0, <1>1, RaiseStep DEF faultVars
<1>2. CASE Return(p) /\ UNCHANGED <<row, late>>
  BY <1>0, <1>2, RowFacts, ReturnStep
<1>3. CASE Reservable /\ row' = Reserved(p) /\ late' = late \ {p} /\ Stay(p, "sink")
  <2>0. /\ MaxRetries' = MaxRetries /\ Sandboxes' = Sandboxes /\ Current(p)' = Current(p)
        /\ UNCHANGED <<attempt, clean, fault, sent, result, requested, committed, active, acked, ran, returned>>
    BY <1>0, <1>3, ScopeKept DEF Stay, localVars, registryVars, callVars, Current
  <2>1. /\ row' \in [state : {"none", "claimed", "completed"}, result : Results \cup {None}, delivered : BOOLEAN,
                     token : Procs \cup {None}, expired : BOOLEAN]
        /\ row'.state = "completed" /\ row'.result = row.result /\ row'.token = p /\ ~row'.expired /\ ~row'.delivered
        /\ row.token = None \/ row.expired
    BY <1>0, <1>3, RowFacts DEF Reservable, Reserved
  <2>2. pc' \in [Procs -> Points] /\ pc'[p] = "sink" /\ \A q \in Procs \ {p} : pc'[q] = pc[q]
    BY <1>3 DEF Stay, Goto, Inv, TypeOK, Points
  <2>3. TypeOK' /\ (canceler \in [Procs -> Threads])'
    BY <1>0, <1>3, <2>0, <2>1, <2>2 DEF Inv, TypeOK, boxVars, Threads
  <2>4. Alone(p)
    BY <1>0, <1>3, <2>0, <2>2 DEF Alone
  <2>5. DeliveryOK(p)' /\ CallOK(p)'
    BY <1>0, <2>0, <2>1, <2>2 DEF ProcOK, DeliveryOK, CallOK, Delivering, Holding, Early, InFlight
  <2>6. ActiveOK(p)' /\ CancelerOK(p)'
    BY <1>0, <2>0, <2>2 DEF ProcOK, ActiveOK, CancelerOK, Working, Holding, InFlight, NoThread, boxVars
  <2>7. ProcOK(p)'
    BY <2>2, <2>5, <2>6 DEF ProcOK, Working
  <2>8. \A q \in Procs \ {p} : row.token = q /\ ~row.expired => row'.token = q /\ ~row'.expired
    BY <2>1, NoneAssumption
  <2> QED BY <1>0, <2>1, <2>2, <2>3, <2>4, <2>7, <2>8, DeliveryStep DEF Working
<1> QED BY <1>1, <1>2, <1>3 DEF Reserve

LEMMA SinkStep ==
    ASSUME Inv, NEW p \in Procs, SinkTakes(p) \/ SinkRaises(p), scope' = scope
    PROVE  Inv'
<1>0. /\ UNCHANGED <<row, boxVars, canceler, paid, faultVars, scope>> /\ pc[p] = "sink"
      /\ ProcOK(p) /\ row.state = "completed"
      /\ heard' \subseteq heard \cup {row.result}
  BY DEF SinkTakes, SinkRaises, Inv, ProcOK, DeliveryOK, Holding
<1>1. PICK to \in {"ack", "fail"} : Stay(p, to)
  BY DEF SinkTakes, SinkRaises
<1>2. /\ MaxRetries' = MaxRetries /\ Sandboxes' = Sandboxes /\ Current(p)' = Current(p)
      /\ UNCHANGED <<attempt, clean, fault, sent, result, requested, committed, active, acked, ran, returned, late>>
  BY <1>0, <1>1, ScopeKept DEF Stay, localVars, registryVars, callVars, faultVars, Current
<1>3. pc' \in [Procs -> Points] /\ pc'[p] = to /\ \A q \in Procs \ {p} : pc'[q] = pc[q]
  BY <1>1 DEF Stay, Goto, Inv, TypeOK, Points
<1>4. TypeOK' /\ (canceler \in [Procs -> Threads])'
  BY <1>0, <1>2, <1>3, NoneAssumption DEF Inv, TypeOK, boxVars, Threads
<1>5. Alone(p)
  BY <1>0, <1>2, <1>3 DEF Alone
<1>6. DeliveryOK(p)' /\ CallOK(p)'
  BY <1>0, <1>2, <1>3 DEF ProcOK, DeliveryOK, CallOK, Delivering, Holding, Early, InFlight
<1>7. ActiveOK(p)' /\ CancelerOK(p)'
  BY <1>0, <1>2, <1>3 DEF ProcOK, ActiveOK, CancelerOK, Working, Holding, InFlight, NoThread, boxVars
<1>8. ProcOK(p)'
  BY <1>3, <1>6, <1>7 DEF ProcOK, Working
<1> QED BY <1>0, <1>3, <1>4, <1>5, <1>8, DeliveryStep DEF Working

\* Only the process whose token the row has acknowledges or releases.
LEMMA AckStep ==
    ASSUME Inv, NEW p \in Procs, MarkSinkDelivered(p) \/ RecordSinkFailure(p), scope' = scope
    PROVE  Inv'
<1>0. /\ UNCHANGED <<boxVars, canceler, paid, heard, faultVars, scope>> /\ pc[p] \in {"ack", "fail"} /\ InFlight(p)
      /\ ProcOK(p) /\ row.state = "completed" /\ result[p] = row.result /\ late' = late
  BY DEF MarkSinkDelivered, RecordSinkFailure, InFlight, Inv, ProcOK, DeliveryOK, Holding, faultVars
<1>1. CASE Raise(p) /\ UNCHANGED row
  BY <1>0, <1>1, RaiseStep
<1>2. CASE pc[p] = "ack" /\ Return(p) /\ UNCHANGED row
  BY <1>0, <1>2, RowFacts, ReturnStep
<1>3. CASE pc[p] = "ack" /\ OwnsLease(p) /\ row' = Acknowledged /\ Return(p)
  <2>1. /\ row' \in [state : {"none", "claimed", "completed"}, result : Results \cup {None}, delivered : BOOLEAN,
                     token : Procs \cup {None}, expired : BOOLEAN]
        /\ row'.state = "completed" /\ row'.result = row.result /\ row'.token = None
        /\ row.token = p
    BY <1>0, <1>3, RowFacts DEF OwnsLease, Acknowledged
  <2> QED BY <1>0, <1>3, <2>1, ReturnStep
<1>4. CASE OwnsLease(p) /\ row' = Released /\ Raise(p)
  <2>0. EndTask(p) /\ UNCHANGED callVars /\ Sandboxes' = Sandboxes
    BY <1>0, <1>4, ScopeKept DEF Raise
  <2>1. /\ row' \in [state : {"none", "claimed", "completed"}, result : Results \cup {None}, delivered : BOOLEAN,
                     token : Procs \cup {None}, expired : BOOLEAN]
        /\ row'.state = "completed" /\ row'.result = row.result /\ row'.token = None
        /\ row.token = p
    BY <1>0, <1>4, RowFacts DEF OwnsLease, Released
  <2>2. TypeOK' /\ (canceler \in [Procs -> Threads])'
    BY <1>0, <2>0, <2>1, EndTypes DEF Inv, TypeOK, callVars, boxVars, faultVars, Threads
  <2>3. Alone(p) /\ pc'[p] = "idle"
    BY <1>0, <2>0, EndTypes DEF Alone, callVars
  <2>4. returned'[p] = None
    BY <1>0, <2>0 DEF Inv, ProcOK, CallOK, callVars
  <2>5. ProcOK(p)'
    BY <1>0, <2>0, <2>4, EndProc
  <2> QED BY <1>0, <2>1, <2>2, <2>3, <2>5, DeliveryStep DEF Working
<1> QED BY <1>0, <1>1, <1>2, <1>3, <1>4 DEF MarkSinkDelivered, RecordSinkFailure

\* A lease runs out; a delivery under it is late from then on.
LEMMA ExpireStep ==
    ASSUME Inv, Expire, scope' = scope
    PROVE  Inv'
<1>0. /\ UNCHANGED <<pc, attempt, clean, fault, sent, result, requested, committed, active, boxVars, canceler, paid, heard,
                     acked, ran, returned, scope>>
      /\ row.token # None /\ ~row.expired /\ row' = Lapsed /\ Sandboxes' = Sandboxes /\ MaxRetries' = MaxRetries
      /\ row.token \in Procs /\ row.state = "completed"
  BY RowFacts, ScopeKept DEF Expire, localVars, registryVars, callVars
<1>1. PICK p \in Procs : p = row.token
  BY <1>0
<1>2. /\ row' \in [state : {"none", "claimed", "completed"}, result : Results \cup {None}, delivered : BOOLEAN,
                   token : Procs \cup {None}, expired : BOOLEAN]
      /\ row'.state = "completed" /\ row'.result = row.result /\ row'.token = p /\ row'.delivered = row.delivered
  BY <1>0, <1>1, RowFacts DEF Lapsed
<1>3. late' \in {late, late \cup {p}} /\ (Delivering(p) => p \in late')
  BY <1>1 DEF Expire
<1>4. TypeOK' /\ (canceler \in [Procs -> Threads])'
  BY <1>0, <1>1, <1>2, <1>3 DEF Inv, TypeOK, boxVars, Threads
<1>5. Alone(p)
  BY <1>0, <1>3 DEF Alone
<1>6. ProcOK(p) /\ pc[p] \notin Working
  BY <1>0 DEF Inv, ProcOK, AttemptOK
<1>7. DeliveryOK(p)' /\ CallOK(p)'
  BY <1>0, <1>2, <1>3, <1>6 DEF ProcOK, DeliveryOK, CallOK, Delivering, InFlight, boxVars, Current
<1>8. ActiveOK(p)' /\ CancelerOK(p)'
  BY <1>0, <1>6 DEF ProcOK, ActiveOK, CancelerOK, InFlight, NoThread, boxVars, Current
<1>9. ProcOK(p)'
  BY <1>0, <1>6, <1>7, <1>8 DEF ProcOK
<1>10. \A q \in Procs \ {p} : row.token = q /\ ~row.expired => row'.token = q /\ ~row'.expired
  BY <1>1
<1> QED BY <1>0, <1>2, <1>4, <1>5, <1>6, <1>9, <1>10, DeliveryStep

-----------------------------------------------------------------------------
(* The invariant. *)

LEMMA InitInv == Init => Inv
<1> SUFFICES ASSUME Init PROVE Inv
  OBVIOUS
<1>0. MaxRetries \in Nat /\ None \notin Sandboxes /\ scope \in Scopes
  BY BoundFacts DEF Init
<1>1. row = [state |-> "none", result |-> None, delivered |-> FALSE, token |-> None, expired |-> FALSE]
  BY DEF Init, NoRow
<1>2. TypeOK
  BY <1>0, <1>1 DEF Init, TypeOK, Points
<1>3. canceler \in [Procs -> Threads]
  BY DEF Init, Threads
<1>4. CleanupHonest /\ RetryableIsUnpaid /\ BoxesOK /\ HeardOK
  BY <1>1 DEF Init, CleanupHonest, RetryableIsUnpaid, Replayable, BoxesOK, HeardOK, Untouched
<1>5. OneWorker /\ \A p \in Procs : ProcOK(p)
  BY DEF Init, OneWorker, ProcOK, DeliveryOK, ActiveOK, CancelerOK, CallOK, Delivering, InFlight, Working, Holding, Early, NoThread
<1> QED BY <1>0, <1>2, <1>3, <1>4, <1>5 DEF Inv

LEMMA StutterStep ==
    ASSUME Inv, UNCHANGED <<vars, scope>>
    PROVE  Inv'
<1>0. /\ Sandboxes' = Sandboxes /\ MaxRetries' = MaxRetries
      /\ UNCHANGED <<row, pc, attempt, clean, fault, sent, result, requested, committed, active, box, cleanup, deletes,
                     canceler, paid, heard, acked, ran, returned, late, scope>>
  BY ScopeKept DEF vars, localVars, registryVars, boxVars, callVars, faultVars
<1>1. (TypeOK /\ canceler \in [Procs -> Threads])'
  BY <1>0 DEF Inv, TypeOK, Threads
<1>2. (CleanupHonest /\ RetryableIsUnpaid /\ BoxesOK /\ HeardOK /\ OneWorker)'
  BY <1>0 DEF Inv, CleanupHonest, RetryableIsUnpaid, Replayable, BoxesOK, HeardOK, Untouched, OneWorker
<1>3. ASSUME NEW p \in Procs PROVE ProcOK(p)'
  <2>1. ProcOK(p)
    BY DEF Inv
  <2>2. (pc[p] \in Working => AttemptOK(p))'
    BY <1>0, <2>1 DEF ProcOK, AttemptOK, Untouched, NoneAlive, Current
  <2>3. DeliveryOK(p)' /\ ActiveOK(p)' /\ CancelerOK(p)' /\ CallOK(p)'
    BY <1>0, <2>1 DEF ProcOK, DeliveryOK, ActiveOK, CancelerOK, CallOK, Delivering, InFlight, Current, NoThread
  <2> QED BY <2>2, <2>3 DEF ProcOK
<1> QED BY <1>0, <1>1, <1>2, <1>3 DEF Inv

LEMMA NextInv == Inv /\ [Next]_<<vars, scope>> => Inv'
<1> SUFFICES ASSUME Inv, [Next]_<<vars, scope>> PROVE Inv'
  OBVIOUS
<1>1. CASE UNCHANGED <<vars, scope>>
  BY <1>1, StutterStep
<1>2. ASSUME scope' = scope, NEW p \in Procs, Step(p) PROVE Inv'
  BY <1>2, ReplayStep, ClaimStep, DeliverReplayedStep, HeadStep, CreateUnknownStep, CreateStep, RegisterStep,
     AttemptStep, DispatchStep, CleanupStep, DeleteStep, AwaitStep, ClassifyStep, LinearizeStep, CommitStep,
     ReserveStep, SinkStep, AckStep DEF Step
<1>3. ASSUME scope' = scope, NEW p \in Procs, CancelStep(p) PROVE Inv'
  BY <1>3, CancelRequestStep, CancelCleanupStep, CancelDeleteStep, CancelAwaitStep DEF CancelStep
<1> QED BY <1>1, <1>2, <1>3, BeginStep, CrashStep, ExpireStep DEF Next

LEMMA SpecInv == Spec => []Inv
BY InitInv, NextInv, PTL DEF Spec

\* Whatever fails, races or dies: a result that reports its cleanup leaves no
\* sandbox running, one that may be retried has cost nothing, a sandbox is
\* deleted once, an acknowledged cancel is honoured, and a delivery that is not
\* late holds the lease.
THEOREM ClientSafe == Spec => []ClientInv
BY SpecInv, InvClient, PTL

\* execute_request returns the committed result of the request and no other,
\* whichever process computed it.
ReturnedIsRecorded == \A p \in Procs : returned[p] # None => Replayable /\ returned[p] = row.result
THEOREM ReturnsTheRecord == Spec => []ReturnedIsRecorded
<1>1. Inv => ReturnedIsRecorded
  BY DEF Inv, ProcOK, CallOK, ReturnedIsRecorded, Replayable
<1> QED BY <1>1, SpecInv, PTL

-----------------------------------------------------------------------------
(* The client implements PaidEvaluation. *)

\* Four kinds of steps are visible there.
LEMMA VisibleSteps ==
    ASSUME Inv, [Next]_<<vars, scope>>
    PROVE  \/ row'.state = row.state /\ row'.result = row.result /\ UNCHANGED <<paid, heard>>
           \/ row.state = "none" /\ row' = Claimed /\ UNCHANGED <<paid, heard>>
           \/ \E p \in Procs : Dispatch(p)
           \/ \E p \in Procs : /\ pc[p] = "commit" /\ row.state = "claimed" /\ UNCHANGED <<paid, heard>>
                               /\ row' = Committed(result[p], p \notin Sinkless)
           \/ \E p \in Procs : /\ pc[p] = "sink" /\ UNCHANGED <<row, paid>>
                               /\ heard' \in {heard, heard \cup {row.result}}
<1> DEFINE Hidden == row'.state = row.state /\ row'.result = row.result /\ UNCHANGED <<paid, heard>>
<1>1. CASE UNCHANGED <<vars, scope>>
  BY <1>1 DEF vars
<1>2. CASE Expire
  BY <1>2, RowFacts DEF Expire, Lapsed
<1>3. ASSUME NEW p \in Procs, Begin(p) \/ CancelStep(p) \/ Crash(p) PROVE Hidden
  BY <1>3 DEF Begin, CancelStep, CancelRequest, CancelCleanup, CancelDelete, CancelAwait, Crash
<1>4. ASSUME NEW p \in Procs,
             \/ Replay(p) \/ Preflight(p) \/ DeliverReplayed(p)
             \/ Loop(p) \/ Gate(p) \/ CreateRefused(p) \/ CreateUnknown(p) \/ Create(p) \/ RegisterSandbox(p)
             \/ Provision(p) \/ CheckCanceled(p) \/ Command(p) \/ Linearize(p)
             \/ Cleanup(p) \/ Delete(p) \/ Await(p) \/ Classify(p)
      PROVE  Hidden
  BY <1>4 DEF Replay, Preflight, DeliverReplayed, Loop, Gate, CreateRefused, CreateUnknown, Create, RegisterSandbox,
              Provision, CheckCanceled, Command, Linearize, Cleanup, Delete, Await, Classify
<1>5. ASSUME NEW p \in Procs, Claim(p)
      PROVE  Hidden \/ (row.state = "none" /\ row' = Claimed /\ UNCHANGED <<paid, heard>>)
  BY <1>5, RowFacts DEF Claim, Replayable, Pending
<1>6. ASSUME NEW p \in Procs, Commit(p)
      PROVE  \/ Hidden
             \/ /\ pc[p] = "commit" /\ row.state = "claimed" /\ UNCHANGED <<paid, heard>>
                /\ row' = Committed(result[p], p \notin Sinkless)
  <2>1. pc[p] = "commit" /\ row.state = "claimed"
    BY <1>6 DEF Commit, Inv, ProcOK, AttemptOK, Working
  <2> QED BY <1>6, <2>1 DEF Commit
<1>7. ASSUME NEW p \in Procs, Reserve(p) \/ MarkSinkDelivered(p) \/ RecordSinkFailure(p) PROVE Hidden
  BY <1>7, RowFacts DEF Reserve, MarkSinkDelivered, RecordSinkFailure, Reserved, Acknowledged, Released
<1>8. ASSUME NEW p \in Procs, SinkTakes(p) \/ SinkRaises(p)
      PROVE  /\ pc[p] = "sink" /\ UNCHANGED <<row, paid>>
             /\ heard' \in {heard, heard \cup {row.result}}
  BY <1>8 DEF SinkTakes, SinkRaises
<1> QED BY <1>1, <1>2, <1>3, <1>4, <1>5, <1>6, <1>7, <1>8 DEF Next, Step

\* What the worker has paid for: one command at most.
LEMMA PaidByWorker ==
    ASSUME Inv, NEW p \in Procs, pc[p] \in Working
    PROVE  row.state = "claimed" /\ row.result = None /\ paid \subseteq {Current(p)} /\ heard = {}
<1>1. AttemptOK(p) /\ row.state = "claimed"
  BY DEF Inv, ProcOK, AttemptOK
<1>2. row.result = None /\ heard = {}
  BY <1>1 DEF Inv, TypeOK, HeardOK
<1>3. paid \subseteq {Current(p)}
  BY <1>1, CurrentFacts DEF AttemptOK, Untouched, Inv, TypeOK
<1> QED BY <1>1, <1>2, <1>3

LEMMA RefinedStep == Inv /\ [Next]_<<vars, scope>> => [Evaluation!Next]_(Evaluation!vars)
<1> SUFFICES ASSUME Inv, [Next]_<<vars, scope>> PROVE Evaluation!Next \/ UNCHANGED Evaluation!vars
  OBVIOUS
<1>1. CASE row'.state = row.state /\ row'.result = row.result /\ UNCHANGED <<paid, heard>>
  BY <1>1 DEF Evaluation!vars
<1>2. CASE row.state = "none" /\ row' = Claimed /\ UNCHANGED <<paid, heard>>
  <2>1. row.result = None /\ row'.state = "claimed" /\ row'.result = None
    BY <1>2, RowFacts DEF Claimed, NoRow
  <2>2. Evaluation!Claim
    BY <1>2, <2>1 DEF Evaluation!Claim
  <2> QED BY <2>2 DEF Evaluation!Next
<1>3. ASSUME NEW p \in Procs, Dispatch(p) PROVE Evaluation!Next \/ UNCHANGED Evaluation!vars
  <2>1. /\ pc[p] = "dispatch" /\ UNCHANGED <<row, heard>>
        /\ paid' = paid \/ paid' = paid \cup {Current(p)}
    BY <1>3 DEF Dispatch
  <2>2. row.state = "claimed" /\ row.result = None /\ paid = {}
    <3>1. paid \subseteq {Current(p)} /\ row.state = "claimed" /\ row.result = None
      BY <2>1, PaidByWorker DEF Working
    <3>2. Current(p) \notin paid
      BY <2>1 DEF Inv, ProcOK, AttemptOK, Working
    <3> QED BY <3>1, <3>2
  <2>3. CASE paid' = paid
    BY <2>1, <2>3 DEF Evaluation!vars
  <2>4. CASE paid' = {Current(p)}
    <3>1. Cardinality(paid) = 0 /\ Cardinality(paid') = 1
      BY <2>2, <2>4, FS_EmptySet, FS_Singleton
    <3>2. Evaluation!Pay
      BY <2>1, <2>2, <3>1 DEF Evaluation!Pay
    <3> QED BY <3>2 DEF Evaluation!Next
  <2> QED BY <2>1, <2>2, <2>3, <2>4
<1>4. ASSUME NEW p \in Procs, pc[p] = "commit", row.state = "claimed", UNCHANGED <<paid, heard>>,
             row' = Committed(result[p], p \notin Sinkless)
      PROVE  Evaluation!Next
  <2>1. /\ result[p] \in Results /\ row.result = None /\ paid \subseteq {Current(p)}
        /\ result[p].status = "success" => paid # {}
    BY <1>4, PaidByWorker DEF Inv, ProcOK, AttemptOK, Working
  <2>2. result[p].status = "success" => Cardinality(paid) = 1
    <3>1. paid # {} => paid = {Current(p)}
      BY <2>1
    <3> QED BY <2>1, <3>1, FS_Singleton
  <2>3. row'.state = "completed" /\ row'.result = result[p]
    BY <1>4, RowFacts DEF Committed
  <2>4. Evaluation!Decide(result[p])
    BY <1>4, <2>1, <2>2, <2>3 DEF Evaluation!Decide
  <2> QED BY <2>1, <2>4 DEF Evaluation!Next
<1>5. ASSUME NEW p \in Procs, pc[p] = "sink", UNCHANGED <<row, paid>>, heard' \in {heard, heard \cup {row.result}}
      PROVE  Evaluation!Next \/ UNCHANGED Evaluation!vars
  <2>1. row.result # None /\ heard \subseteq {row.result}
    BY <1>5, NoneAssumption DEF Inv, ProcOK, DeliveryOK, Holding, HeardOK, TypeOK
  <2>2. CASE heard' = heard
    BY <1>5, <2>2 DEF Evaluation!vars
  <2>3. CASE heard' = {row.result}
    <3>1. Evaluation!Hear
      BY <1>5, <2>1, <2>3 DEF Evaluation!Hear
    <3> QED BY <3>1 DEF Evaluation!Next
  <2> QED BY <1>5, <2>1, <2>2, <2>3
<1> QED BY <1>1, <1>2, <1>3, <1>4, <1>5, VisibleSteps

\* The client and its outbox implement PaidEvaluation: the request is claimed
\* before it is paid for, paid for at most once, decided once, and the sink
\* hears that decision only.
THEOREM ClientImplementsEvaluation == Spec => Implements
<1>1. Init => Evaluation!Init
  BY FS_EmptySet DEF Init, NoRow, Evaluation!Init
<1> QED BY <1>1, SpecInv, RefinedStep, PTL DEF Spec, Implements, Evaluation!Spec

-----------------------------------------------------------------------------
(* Action properties. *)

\* Once a cancel call returned True its execution pays for nothing more, but in
\* a sandbox whose delete failed.
THEOREM CanceledPaysNothing == Spec => CanceledIsNotPaid
<1>1. Inv /\ [Next]_<<vars, scope>> => [\A s \in paid' \ paid : s[1] \in acked => cleanup[s] = "failed"]_vars
  <2> SUFFICES ASSUME Inv, [Next]_<<vars, scope>>, NEW s \in paid' \ paid, s[1] \in acked
               PROVE  cleanup[s] = "failed"
    OBVIOUS
  <2>1. PICK p \in Procs : Dispatch(p)
    BY VisibleSteps
  <2>2. /\ s = Current(p) /\ box[Current(p)] = "alive" /\ pc[p] = "dispatch"
        /\ Current(p) \in Sandboxes /\ Current(p)[1] = p
    BY <2>1, CurrentFacts DEF Dispatch
  <2>3. cleanup[s] \in {"ok", "failed"} /\ cleanup[s] # "ok"
    BY <2>2 DEF Inv, ProcOK, CallOK, BoxesOK
  <2> QED BY <2>3
<1> QED BY <1>1, SpecInv, PTL DEF Spec, CanceledIsNotPaid

\* An execution acknowledges only what the sink took.
AckIsHeard == \A p \in Procs : pc[p] = "ack" => heard # {}

LEMMA AckIsHeardStep ==
    ASSUME Inv, AckIsHeard, [Next]_<<vars, scope>>
    PROVE  AckIsHeard'
<1>0. heard \subseteq heard'
  BY VisibleSteps DEF Dispatch
<1>1. \A p \in Procs : pc'[p] = "ack" => pc[p] = "ack" \/ heard' # {}
  <2>0. pc \in [Procs -> Points]
    BY DEF Inv, TypeOK
  <2>1. ASSUME NEW p \in Procs, NEW to, Goto(p, to), to # "ack"
        PROVE  \A q \in Procs : pc'[q] = "ack" => pc[q] = "ack"
    BY <2>0, <2>1 DEF Goto
  <2>2. ASSUME NEW p \in Procs, SinkTakes(p) PROVE heard' # {}
    BY <2>2 DEF SinkTakes
  <2>3. CASE UNCHANGED pc
    BY <2>3
  <2>4. ASSUME NEW p \in Procs, Begin(p) \/ Crash(p)
        PROVE  \E to : Goto(p, to) /\ to # "ack"
    BY <2>4 DEF Begin, Crash, EndTask
  <2>5. ASSUME NEW p \in Procs,
             \/ Replay(p) \/ Preflight(p) \/ Claim(p) \/ DeliverReplayed(p)
             \/ Loop(p) \/ Gate(p) \/ CreateRefused(p) \/ CreateUnknown(p) \/ Create(p) \/ RegisterSandbox(p)
        PROVE  \E to : Goto(p, to) /\ to # "ack"
    <3>1. \A r : Publish(p, r) => Goto(p, "publish")
      BY DEF Publish
    <3>2. CASE Replay(p) \/ Claim(p)
      BY <3>2 DEF Replay, Claim, Adopt, Raise, EndTask, Stay
    <3>3. CASE Preflight(p) \/ DeliverReplayed(p) \/ Create(p) \/ RegisterSandbox(p)
      BY <3>3 DEF Preflight, DeliverReplayed, Create, RegisterSandbox, Stay
    <3>4. CASE Loop(p) \/ Gate(p)
      <4>1. Goto(p, "publish") \/ Goto(p, "gate") \/ Goto(p, "create")
        BY <3>4, <3>1 DEF Loop, Gate, Stay
      <4> QED BY <4>1
    <3>5. CASE CreateRefused(p) \/ CreateUnknown(p)
      <4>1. Goto(p, "publish")
        BY <3>5 DEF CreateRefused, CreateUnknown, Publish
      <4> QED BY <4>1
    <3> QED BY <2>5, <3>2, <3>3, <3>4, <3>5
  <2>6. ASSUME NEW p \in Procs,
             \/ Provision(p) \/ CheckCanceled(p) \/ Dispatch(p) \/ Command(p) \/ Linearize(p)
             \/ Cleanup(p) \/ Delete(p) \/ Await(p) \/ Classify(p)
        PROVE  \E to : Goto(p, to) /\ to # "ack"
    <3>1. CASE Provision(p)
      BY <3>1 DEF Provision, Faulted, Stay
    <3>2. CASE CheckCanceled(p) \/ Cleanup(p)
      BY <3>2 DEF CheckCanceled, Cleanup, Stay
    <3>3. CASE Dispatch(p) \/ Command(p) \/ Linearize(p) \/ Delete(p) \/ Await(p)
      BY <3>3 DEF Dispatch, Command, Linearize, Delete, Await, Faulted
    <3>4. CASE Classify(p)
      <4>1. ASSUME NEW exitFails \in BOOLEAN, ProviderFault(p, exitFails)
            PROVE  Goto(p, "publish") \/ Goto(p, "loop")
        BY <4>1 DEF ProviderFault, Retry, Publish
      <4>2. Goto(p, "publish") \/ Goto(p, "loop")
        BY <3>4, <4>1 DEF Classify, Publish
      <4> QED BY <4>2
    <3> QED BY <2>6, <3>1, <3>2, <3>3, <3>4
  <2>7. ASSUME NEW p \in Procs,
             Commit(p) \/ Reserve(p) \/ SinkRaises(p) \/ MarkSinkDelivered(p) \/ RecordSinkFailure(p)
        PROVE  \E to : Goto(p, to) /\ to # "ack"
    BY <2>7 DEF Commit, Reserve, SinkRaises, MarkSinkDelivered, RecordSinkFailure, Stay, Raise, Return, EndTask
  <2>8. ASSUME NEW p \in Procs, CancelStep(p) PROVE UNCHANGED pc
    BY <2>8 DEF CancelStep, CancelRequest, CancelCleanup, CancelDelete, CancelAwait
  <2>9. CASE Expire \/ UNCHANGED <<vars, scope>>
    BY <2>9 DEF Expire, vars
  <2>10. ASSUME NEW p \in Procs, Begin(p) \/ Crash(p) \/ Step(p)
         PROVE  \A q \in Procs : pc'[q] = "ack" => pc[q] = "ack" \/ heard' # {}
    BY <2>1, <2>2, <2>4, <2>5, <2>6, <2>7, <2>10 DEF Step
  <2> QED BY <2>3, <2>8, <2>9, <2>10 DEF Next
<1> QED BY <1>0, <1>1 DEF AckIsHeard

\* A row becomes delivered only when the sink has taken its entry, or when a
\* client without a sink commits it.
THEOREM SettledWasHeard == Spec => SettledIsHeard
<1>1. Init => AckIsHeard
  BY DEF Init, AckIsHeard
<1>2. Inv /\ AckIsHeard /\ [Next]_<<vars, scope>> =>
        [~row.delivered /\ row'.delivered =>
            heard # {} \/ (row.state = "claimed" /\ \E p \in Sinkless : pc[p] = "commit")]_vars
  <2> SUFFICES ASSUME Inv, AckIsHeard, [Next]_<<vars, scope>>, ~row.delivered, row'.delivered
               PROVE  heard # {} \/ (row.state = "claimed" /\ \E p \in Sinkless : pc[p] = "commit")
    OBVIOUS
  <2>1. row' # row
    OBVIOUS
  <2>2. CASE Expire
    BY <2>2, RowFacts DEF Expire, Lapsed
  <2>3. ASSUME NEW p \in Procs, Claim(p) PROVE FALSE
    BY <2>1, <2>3 DEF Claim, Claimed, NoRow
  <2>4. ASSUME NEW p \in Procs, Commit(p) PROVE row.state = "claimed" /\ \E q \in Sinkless : pc[q] = "commit"
    <3>1. pc[p] = "commit" /\ row.state = "claimed" /\ row' = Committed(result[p], p \notin Sinkless)
      BY <2>1, <2>4 DEF Commit, Inv, ProcOK, AttemptOK, Working
    <3>2. p \in Sinkless
      BY <3>1, RowFacts DEF Committed
    <3> QED BY <3>1, <3>2
  <2>5. ASSUME NEW p \in Procs, Reserve(p) PROVE FALSE
    BY <2>1, <2>5, RowFacts DEF Reserve, Reserved
  <2>6. ASSUME NEW p \in Procs, MarkSinkDelivered(p) PROVE heard # {}
    BY <2>6 DEF MarkSinkDelivered, AckIsHeard
  <2>7. ASSUME NEW p \in Procs, RecordSinkFailure(p) PROVE FALSE
    BY <2>1, <2>7, RowFacts DEF RecordSinkFailure, Released
  <2>8. ASSUME NEW p \in Procs, Begin(p) \/ CancelStep(p) \/ Crash(p) PROVE row' = row
    BY <2>8 DEF Begin, CancelStep, CancelRequest, CancelCleanup, CancelDelete, CancelAwait, Crash
  <2>9. ASSUME NEW p \in Procs,
             \/ Replay(p) \/ Preflight(p) \/ DeliverReplayed(p)
             \/ Loop(p) \/ Gate(p) \/ CreateRefused(p) \/ CreateUnknown(p) \/ Create(p) \/ RegisterSandbox(p)
             \/ Provision(p) \/ CheckCanceled(p) \/ Dispatch(p) \/ Command(p) \/ Linearize(p)
             \/ Cleanup(p) \/ Delete(p) \/ Await(p) \/ Classify(p) \/ SinkTakes(p) \/ SinkRaises(p)
      PROVE  row' = row
    BY <2>9 DEF Replay, Preflight, DeliverReplayed, Loop, Gate, CreateRefused, CreateUnknown, Create, RegisterSandbox,
              Provision, CheckCanceled, Dispatch, Command, Linearize, Cleanup, Delete, Await, Classify, SinkTakes, SinkRaises
  <2>10. CASE UNCHANGED <<vars, scope>>
    BY <2>1, <2>10 DEF vars
  <2> QED BY <2>1, <2>2, <2>3, <2>4, <2>5, <2>6, <2>7, <2>8, <2>9, <2>10 DEF Next, Step
<1> QED BY <1>1, <1>2, SpecInv, AckIsHeardStep, PTL DEF Spec, SettledIsHeard
=============================================================================
