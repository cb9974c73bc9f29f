------------------------------ MODULE EventLog ------------------------------
(***************************************************************************)
(* The append-only event log of ONE task (src/src/worker/storage/repo.py,  *)
(* section "Events") and the coroutines that write to it.                  *)
(*                                                                         *)
(* All coroutines share one aiosqlite connection, so every statement is    *)
(* atomic, every await between two statements is an interleaving point, a  *)
(* SELECT sees rows that are not committed yet, and any COMMIT commits the *)
(* uncommitted rows of everybody.                                          *)
(*                                                                         *)
(* The writers are the task's queue runner (queue._run_one and what it     *)
(* awaits), the handlers that run beside it (driver._handle_permission     *)
(* tasks, which nobody awaits, the SSE consumer, submit_decision) and the  *)
(* requests POST /tasks/{id}/abort.                                        *)
(***************************************************************************)
EXTENDS Integers, Sequences, FiniteSets

CONSTANTS
  Runner,       \* the coroutine queue._run_one(task_id)
  Handlers,     \* detached coroutines that append one event and set a status
  Aborters,     \* in-flight POST /tasks/{id}/abort requests
  MaxProgress,  \* bound: non-terminal events the runner writes
  MaxCrash      \* bound: crashes of the worker process

Writers == {Runner} \cup Handlers \cup Aborters

ASSUME WritersAssumption ==
  /\ Runner \notin Handlers \cup Aborters
  /\ Handlers \cap Aborters = {}
  /\ MaxProgress \in Nat
  /\ MaxCrash \in Nat

VARIABLES
  status,       \* tasks.status, abstracted to "active" | "terminal"
  rows,         \* task_events rows as the connection sees them
  durable,      \* how many of them are committed
  registry,     \* the lock object in _event_locks[task_id], 0 when absent
  nLocks,       \* lock objects created so far (a lock object is a number)
  pc,           \* where each coroutine is
  lockOf,       \* the lock object each coroutine obtained
  eid,          \* the event_id each coroutine read from SELECT MAX + 1
  kind,         \* the kind of the event each coroutine is writing
  progress,     \* non-terminal events the runner has written
  discarded,    \* history: discard_task_locks was called in this process
  crashes

logVars == <<status, rows, durable, registry, nLocks, pc, lockOf, eid, kind,
             progress, discarded, crashes>>

NoLock == 0
Kinds == {"progress", "terminal"}
Statuses == {"active", "terminal"}
Holding == {"select", "insert", "commit"}
PCs == {"idle", "checked", "updated", "wait", "written", "after", "raised",
        "cancelled", "recover", "done"} \cup Holding

Rows == [eid : Nat \ {0}, kind : Kinds]

Init ==
  /\ status = "active"
  /\ rows = <<>>
  /\ durable = 0
  /\ registry = NoLock
  /\ nLocks = 0
  /\ pc = [w \in Writers |-> "idle"]
  /\ lockOf = [w \in Writers |-> NoLock]
  /\ eid = [w \in Writers |-> 0]
  /\ kind = [w \in Writers |-> "progress"]
  /\ progress = 0
  /\ discarded = FALSE
  /\ crashes = 0

(***************************************************************************)
(* tasks.status.  UPDATE and COMMIT of update_task_status; the commit also *)
(* makes every row the connection has inserted durable.                    *)
(***************************************************************************)
update_task_status(s) ==
  /\ status' = s
  /\ durable' = Len(rows)

\* The runner moves the task on and will append the matching event.
RunnerProgress ==
  /\ pc[Runner] = "idle" /\ progress < MaxProgress
  /\ update_task_status("active")
  /\ progress' = progress + 1
  /\ kind' = [kind EXCEPT ![Runner] = "progress"]
  /\ pc' = [pc EXCEPT ![Runner] = "updated"]
  /\ UNCHANGED <<rows, registry, nLocks, lockOf, eid, discarded, crashes>>

\* queue._write_terminal, or step 10 of run_task: terminal status first.
RunnerTerminal ==
  /\ pc[Runner] \in {"idle", "cancelled"}
  /\ update_task_status("terminal")
  /\ kind' = [kind EXCEPT ![Runner] = "terminal"]
  /\ pc' = [pc EXCEPT ![Runner] = "updated"]
  /\ UNCHANGED <<rows, registry, nLocks, lockOf, eid, progress, discarded,
                 crashes>>

\* abort_task reads the status (409 when terminal) ...
AbortCheck(w) ==
  /\ w \in Aborters /\ pc[w] = "idle"
  /\ pc' = [pc EXCEPT ![w] = IF status = "terminal" THEN "done" ELSE "checked"]
  /\ UNCHANGED <<status, rows, durable, registry, nLocks, lockOf, eid, kind,
                 progress, discarded, crashes>>

\* ... and only then, after an await, writes it.
AbortUpdate(w) ==
  /\ w \in Aborters /\ pc[w] = "checked"
  /\ update_task_status("terminal")
  /\ kind' = [kind EXCEPT ![w] = "terminal"]
  /\ pc' = [pc EXCEPT ![w] = "updated"]
  /\ UNCHANGED <<rows, registry, nLocks, lockOf, eid, progress, discarded,
                 crashes>>

\* _handle_permission writes awaiting_human once hitl_required is committed, and
\* planning/executing after decision_received unless an abort was signalled;
\* submit_decision appends decision_received and writes no status.
HandlerStatus(w) ==
  /\ w \in Handlers /\ pc[w] = "after"
  /\ \/ update_task_status("active")
     \/ UNCHANGED <<status, durable>>
  /\ pc' = [pc EXCEPT ![w] = "done"]
  /\ UNCHANGED <<rows, registry, nLocks, lockOf, eid, kind, progress,
                 discarded, crashes>>

(***************************************************************************)
(* insert_event                                                            *)
(***************************************************************************)
Holds(w, l) == lockOf[w] = l /\ pc[w] \in Holding
Waits(w, l) == lockOf[w] = l /\ pc[w] = "wait"

ReadyToInsert(w) ==
  \/ w \in Handlers /\ pc[w] = "idle"
  \/ w \notin Handlers /\ pc[w] = "updated"

\* Variant: a lock per call, as without the registry.
_get_event_lock_PerCall == nLocks + 1

\* The lock in the registry, a new one on first access.
_get_event_lock == IF registry = NoLock THEN nLocks + 1 ELSE registry

\* A free lock without waiters is taken without suspending, any other one is
\* waited for.
insert_event(w) ==
  LET l == _get_event_lock
      free == \A v \in Writers \ {w} : ~Holds(v, l) /\ ~Waits(v, l)
  IN /\ ReadyToInsert(w)
     /\ registry' = l
     /\ nLocks' = IF l > nLocks THEN l ELSE nLocks
     /\ lockOf' = [lockOf EXCEPT ![w] = l]
     /\ pc' = [pc EXCEPT ![w] = IF free THEN "select" ELSE "wait"]
     /\ UNCHANGED <<status, rows, durable, eid, kind, progress, discarded,
                    crashes>>

AcquireLock(w) ==
  /\ pc[w] = "wait"
  /\ \A v \in Writers \ {w} : ~Holds(v, lockOf[w])
  /\ pc' = [pc EXCEPT ![w] = "select"]
  /\ UNCHANGED <<status, rows, durable, registry, nLocks, lockOf, eid, kind,
                 progress, discarded, crashes>>

\* SELECT COALESCE(MAX(event_id), 0) + 1
EventIds == {rows[i].eid : i \in DOMAIN rows}
MaxId == CHOOSE m \in EventIds : \A n \in EventIds : n <= m

\* Variant: COALESCE(MAX, 1).
NextId_CoalesceOne == IF rows = <<>> THEN 2 ELSE MaxId + 1

NextId == IF rows = <<>> THEN 1 ELSE MaxId + 1

_next_event_id(w) ==
  /\ pc[w] = "select"
  /\ eid' = [eid EXCEPT ![w] = NextId]
  /\ pc' = [pc EXCEPT ![w] = "insert"]
  /\ UNCHANGED <<status, rows, durable, registry, nLocks, lockOf, kind,
                 progress, discarded, crashes>>

\* UNIQUE (task_id, event_id) refuses a second row with the same event_id.
Conflict(w) == eid[w] \in EventIds
NewRow(w) == [eid |-> eid[w], kind |-> kind[w]]

InsertRow(w) ==
  /\ pc[w] = "insert"
  /\ rows' = IF Conflict(w) THEN rows ELSE Append(rows, NewRow(w))
  /\ pc' = [pc EXCEPT ![w] = IF Conflict(w) THEN "raised" ELSE "commit"]
  /\ UNCHANGED <<status, durable, registry, nLocks, lockOf, eid, kind,
                 progress, discarded, crashes>>

AfterInsert(w) ==
  CASE w \in Handlers -> "after"
    [] w \in Aborters \/ crashes > 0 -> "done"
    [] OTHER -> IF kind[w] = "terminal" THEN "written" ELSE "idle"

CommitRow(w) ==
  /\ pc[w] = "commit"
  /\ durable' = Len(rows)
  /\ pc' = [pc EXCEPT ![w] = AfterInsert(w)]
  /\ UNCHANGED <<status, rows, registry, nLocks, lockOf, eid, kind, progress,
                 discarded, crashes>>

\* asyncio.wait_for cancels the runner at the task's timeout (the terminal
\* write follows), and _run_inner cancels the SSE consumer.  The coroutine
\* leaves "async with lock", but a statement it already handed to the thread of
\* the connection still executes: its row may stay inserted and uncommitted.
CancelInsert(w) ==
  /\ \/ w \in Handlers
     \/ w = Runner /\ kind[w] = "progress"
  /\ pc[w] \in Holding \cup {"wait"}
  /\ \/ UNCHANGED <<rows, durable>>
     \/ /\ pc[w] = "insert" /\ ~Conflict(w)
        /\ rows' = Append(rows, NewRow(w))
        /\ UNCHANGED durable
     \/ /\ pc[w] = "commit"
        /\ durable' = Len(rows)
        /\ UNCHANGED rows
  /\ pc' = [pc EXCEPT ![w] = "cancelled"]
  /\ UNCHANGED <<status, registry, nLocks, lockOf, eid, kind, progress,
                 discarded, crashes>>

\* Variant: locks discarded before the terminal event is written.
discard_task_locks_Early ==
  /\ pc[Runner] = "updated" /\ kind[Runner] = "terminal"
  /\ registry' = NoLock
  /\ discarded' = TRUE
  /\ UNCHANGED <<status, rows, durable, nLocks, pc, lockOf, eid, kind, progress,
                 crashes>>

\* The finally blocks of queue._write_terminal and queue._run_one; there is no
\* await between the two calls.
discard_task_locks ==
  /\ pc[Runner] = "written"
  /\ registry' = NoLock
  /\ discarded' = TRUE
  /\ pc' = [pc EXCEPT ![Runner] = "done"]
  /\ UNCHANGED <<status, rows, durable, nLocks, lockOf, eid, kind, progress,
                 crashes>>

(***************************************************************************)
(* Crash of the process: uncommitted rows, locks and coroutines are gone.  *)
(* The startup that follows runs alone, as the Runner: the reaper marks    *)
(* the task failed, whatever its status, when it found its exited          *)
(* container; otherwise recover_orphaned_tasks does so unless the status   *)
(* is terminal.  Neither discards the lock that insert_event creates.      *)
(***************************************************************************)
CrashRestart ==
  /\ crashes < MaxCrash
  /\ crashes' = crashes + 1
  /\ rows' = SubSeq(rows, 1, durable)
  /\ registry' = NoLock
  /\ discarded' = FALSE
  /\ pc' = [w \in Writers |-> IF w = Runner THEN "recover" ELSE "done"]
  /\ UNCHANGED <<status, durable, nLocks, lockOf, eid, kind, progress>>

MarkOrphanFailed ==
  /\ pc[Runner] = "recover"
  /\ update_task_status("terminal")
  /\ kind' = [kind EXCEPT ![Runner] = "terminal"]
  /\ pc' = [pc EXCEPT ![Runner] = "updated"]
  /\ UNCHANGED <<rows, registry, nLocks, lockOf, eid, progress, discarded,
                 crashes>>

RecoverySkips ==
  /\ pc[Runner] = "recover" /\ status = "terminal"
  /\ pc' = [pc EXCEPT ![Runner] = "done"]
  /\ UNCHANGED <<status, rows, durable, registry, nLocks, lockOf, eid, kind,
                 progress, discarded, crashes>>

RunnerStep ==
  \/ RunnerProgress \/ RunnerTerminal \/ discard_task_locks
  \/ MarkOrphanFailed \/ RecoverySkips

WriterStep(w) ==
  \/ AbortCheck(w) \/ AbortUpdate(w) \/ HandlerStatus(w)
  \/ insert_event(w) \/ AcquireLock(w) \/ _next_event_id(w)
  \/ InsertRow(w) \/ CommitRow(w)

Next ==
  \/ RunnerStep
  \/ \E w \in Writers : WriterStep(w) \/ CancelInsert(w)
  \/ CrashRestart

Spec == Init /\ [][Next]_logVars

(***************************************************************************)
(* Properties                                                              *)
(***************************************************************************)
\* Every variable has its type; committed rows are a prefix of the inserted ones
\* and event ids start at 1 (SELECT COALESCE(MAX, 0) + 1).
TypeOK ==
  /\ status \in Statuses
  /\ rows \in Seq(Rows)
  /\ durable \in 0..Len(rows)
  /\ registry \in 0..nLocks
  /\ nLocks \in Nat
  /\ pc \in [Writers -> PCs]
  /\ lockOf \in [Writers -> 0..nLocks]
  /\ eid \in [Writers -> Nat]
  /\ kind \in [Writers -> Kinds]
  /\ progress \in 0..MaxProgress
  /\ discarded \in BOOLEAN
  /\ crashes \in 0..MaxCrash

\* Whatever is interleaved, cancelled or lost in a crash, the event ids that
\* insert_event hands out are 1, 2, 3, ... in insertion order: the cursor of an
\* event identifies it and "event_id > cursor" (get_events_after) skips nothing.
GapFree == \A i \in DOMAIN rows : rows[i].eid = i

\* As long as the runner has not called discard_task_locks, the per-task lock
\* of insert_event keeps every writer from hitting UNIQUE(task_id, event_id).
ConflictOnlyAfterDiscard ==
  (\E w \in Writers : pc[w] = "raised") => discarded

\* The IntegrityError that the lock was introduced against never reaches the
\* runner, so queue._run_one never marks a task failed because of it.
RunnerNeverRaises == pc[Runner] # "raised"

\* When the runner releases the lock and the wakeup bus of the task, the log
\* holds a committed terminal event, the one late subscribers exit on.
DiscardAfterTerminalRow ==
  discarded => \E i \in 1..durable : rows[i].kind = "terminal"

(***************************************************************************)
(* A statement of the repository the code does not meet                    *)
(***************************************************************************)
\* What the docstring of insert_event promises: concurrent coroutines of one
\* task never hit the UNIQUE(task_id, event_id) constraint.
NoIntegrityError == \A w \in Writers : pc[w] # "raised"
=============================================================================
