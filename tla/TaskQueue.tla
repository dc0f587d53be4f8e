------------------------------ MODULE TaskQueue ------------------------------
(***************************************************************************)
(* The statements on the task_queue table (sqlite_store_task_queue.py and  *)
(* its twin ts/src/storage/task-queue-store.ts).  Each is one transaction, *)
(* written here as an operator from a table to a table; a table is a       *)
(* function from task ids to rows.  Two clock readings are kept as facts:  *)
(* `due` (scheduled_at is null or in the past) and `stale` (started_at is  *)
(* at least stale_running_after_s ago).  Rows of one priority are claimed  *)
(* in an order left open: created_at only has seconds.                     *)
(***************************************************************************)
EXTENDS Integers, FiniteSets

CONSTANTS Tasks,        \* task ids
          Native,       \* tasks whose config carries native saved-task metadata
          Priority,     \* task -> priority
          MaxAttempts,  \* max_attempts of every runner
          None

Statuses == {"absent", "pending", "running", "completed", "failed"}

Rows == [status : Statuses, attempts : Nat, due : BOOLEAN, stale : BOOLEAN, output : Nat \cup {None}]

NoRow == [status |-> "absent", attempts |-> 0, due |-> FALSE, stale |-> FALSE, output |-> None]

Spent(row) == row.attempts >= MaxAttempts

(* enqueue_task inserts a row, perhaps scheduled for later.                *)
enqueue_task(q, t, now) == [q EXCEPT ![t] = [NoRow EXCEPT !.status = "pending", !.due = now]]

(* The rows a claim may choose from: a Python worker leaves native rows.   *)
Claimable(q, python) ==
    {t \in Tasks : q[t].status = "pending" /\ q[t].due /\ (python => t \notin Native)}

(* What the claim's subquery can return.                                   *)
Candidates(q, python) ==
    {t \in Claimable(q, python) : \A u \in Claimable(q, python) : Priority[u] <= Priority[t]}

(* Mutant: the attempt is counted when the task fails, not at the claim.   *)
ClaimedUncounted(row) == [row EXCEPT !.status = "running", !.stale = FALSE]

(* A claimed row is running since now, and has burned an attempt.          *)
Claimed(row) ==
    [status |-> "running", attempts |-> row.attempts + 1, due |-> row.due, stale |-> FALSE,
     output |-> row.output]

(* The claim is a single statement.                                        *)
claim(q, t) == [q EXCEPT ![t] = Claimed(@)]

complete_task(q, t, attempt) == [q EXCEPT ![t].status = "completed", ![t].output = attempt]

(* A row the sweep finds goes back to pending, or dead-letters.            *)
Swept(row) == [row EXCEPT !.status = IF Spent(row) THEN "failed" ELSE "pending"]

(* The rows the sweep finds.                                               *)
StaleRunning(q) == {t \in Tasks : q[t].status = "running" /\ q[t].stale}

requeue_stale_running(q) == [t \in Tasks |-> IF t \in StaleRunning(q) THEN Swept(q[t]) ELSE q[t]]

(* fail_task dead-letters a spent row and schedules any other one for      *)
(* later.  It does not ask who is running the task by now.  (The runners   *)
(* always pass max_attempts: the legacy form that fails at once is unused.)*)
fail_task(q, t) ==
    [q EXCEPT ![t] = IF Spent(@) THEN [@ EXCEPT !.status = "failed"]
                                 ELSE [@ EXCEPT !.status = "pending", !.due = FALSE]]
=============================================================================
