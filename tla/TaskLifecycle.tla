---------------------------- MODULE TaskLifecycle ----------------------------
(***************************************************************************)
(* The life of tasks from POST /tasks to the release of their slot:        *)
(* api/routes.py (create, abort, delete), orchestrator/queue.py,           *)
(* orchestrator/orchestrator.py (run_task, _cleanup), sandbox/manager.py   *)
(* (containers, reaper), orchestrator/recovery.py and the startup sequence *)
(* of main.py after a crash.                                               *)
(*                                                                         *)
(* A POST request and the run it leads to share one identity p: the queue  *)
(* holds task ids, but each id was put there by one request.  The statuses *)
(* the driver writes (planning, executing, awaiting_human, ...) are one,   *)
(* "driving"; of the event log only the terminal events are kept, since    *)
(* EventLog models how an event is written.                                *)
(***************************************************************************)
EXTENDS Integers, Sequences, FiniteSets

CONSTANTS
  Tasks,      \* task ids
  Posts,      \* POST /tasks requests
  TaskOf,     \* the task id of each request
  Aborts,     \* task ids for which POST .../abort is sent once
  Deletes,    \* task ids for which DELETE is sent once
  Local,      \* task ids with workspace.kind = "local"
  Git,        \* task ids with workspace.kind = "git"; the others are tarballs
  MaxSlots,   \* max_concurrent_tasks
  MaxCrash,   \* bound: crashes of the worker process
  MaxRestart  \* bound: crashes and orderly shutdowns

ASSUME LifecycleAssumption ==
  /\ TaskOf \in [Posts -> Tasks]
  /\ Aborts \subseteq Tasks /\ Deletes \subseteq Tasks
  /\ Local \subseteq Tasks /\ Git \subseteq Tasks \ Local
  /\ MaxSlots \in Nat \ {0} /\ MaxCrash \in Nat /\ MaxRestart \in Nat

VARIABLES
  row,         \* tasks.status, "none" when there is no row
  events,      \* terminal events in task_events, in order
  pc,          \* where each request or run is
  resp,        \* HTTP status of each POST
  outcome,     \* how each run ends
  queue,       \* the asyncio.Queue
  container,   \* the container each run started
  workspace,   \* the directory workspaces/{task_id}
  filler,      \* the extraction or clone of each run once it has outlived the
               \* coroutine that waited for it: busy, then ended
  policy,      \* the broker policy of the task
  handler,     \* a detached _handle_permission coroutine of each run
  late,        \* history: a handler overwrote a terminal status
  abortPc, deletePc,
  phase,       \* of the process: reap, mark, recover, serving, stopping
  reaped, marked,
  thread,      \* a Docker call in an executor thread whose coroutine was cancelled
  cleanupFailed,\* history: a container or file operation of a cleanup failed, or a
               \* shutdown came between
  crashes, stops

vars == <<row, events, pc, resp, outcome, queue, container, workspace, filler, policy,
          handler, late, abortPc, deletePc, phase, reaped, marked, thread,
          cleanupFailed, crashes, stops>>
apiVars == <<abortPc, deletePc>>
startVars == <<phase, reaped, marked, thread, crashes, stops>>
hostVars == <<container, workspace, filler, policy, cleanupFailed>>
runVars == <<pc, resp, outcome, queue>>
handlerVars == <<handler, late>>

TERMINAL_STATUSES == {"completed", "failed", "aborted", "timed_out"}
NonTerminal == {"pending", "queued", "preparing_workspace", "starting_container",
                "starting_opencode", "driving"}
TaskStatus == TERMINAL_STATUSES \cup NonTerminal

Cleaning == {"stop", "remove", "wipe"}
InTry == {"prepare", "extract", "policy", "start", "health", "drive", "completing", "completed"}
InSlot == {"load", "fail", "failing", "release"} \cup InTry \cup Cleaning
Live == {"inserted", "queued", "put", "dispatched"} \cup InSlot
PCs == {"idle", "checked", "refused", "done", "dead"} \cup Live

PostsOf(t) == {p \in Posts : TaskOf[p] = t}
Serving == phase = "serving"

Init ==
  /\ row = [t \in Tasks |-> "none"]
  /\ events = [t \in Tasks |-> <<>>]
  /\ pc = [p \in Posts |-> "idle"]
  /\ resp = [p \in Posts |-> 0]
  /\ outcome = [p \in Posts |-> "none"]
  /\ queue = <<>>
  /\ container = [p \in Posts |-> "none"]
  /\ workspace = [t \in Tasks |-> FALSE]
  /\ filler = [p \in Posts |-> "none"]
  /\ policy = [t \in Tasks |-> FALSE]
  /\ handler = [p \in Posts |-> FALSE]
  /\ late = [t \in Tasks |-> FALSE]
  /\ abortPc = [t \in Tasks |-> "idle"]
  /\ deletePc = [t \in Tasks |-> "idle"]
  /\ phase = "serving"
  /\ reaped = {} /\ marked = {}
  /\ thread = [p \in Posts |-> "none"]
  /\ cleanupFailed = FALSE
  /\ crashes = 0 /\ stops = 0

\* UPDATE tasks SET status: unconditional, and nothing when there is no row.
update_task_status(t, s) ==
  row' = [row EXCEPT ![t] = IF @ = "none" THEN @ ELSE s]

Goto(p, l) == pc' = [pc EXCEPT ![p] = l]

\* Variant: the kind of the exception is lost.
Raise_NoOutcome(p, o) == Goto(p, "stop") /\ UNCHANGED outcome

\* A step of a run raises: outcome o, and the finally block cleans up.
Raise(p, o) ==
  /\ outcome' = [outcome EXCEPT ![p] = o]
  /\ Goto(p, "stop")

(***************************************************************************)
(* POST /tasks                                                             *)
(***************************************************************************)
create_task(p) ==
  /\ Serving /\ pc[p] = "idle"
  /\ IF row[TaskOf[p]] # "none"
     THEN Goto(p, "refused") /\ resp' = [resp EXCEPT ![p] = 409]
     ELSE Goto(p, "checked") /\ UNCHANGED resp
  /\ UNCHANGED <<row, events, outcome, queue, hostVars, handlerVars, apiVars, startVars>>

\* Variant: INSERT OR REPLACE.
insert_task_Replace(p) ==
  /\ pc[p] = "checked"
  /\ row' = [row EXCEPT ![TaskOf[p]] = "pending"]
  /\ Goto(p, "inserted")
  /\ UNCHANGED <<events, resp, outcome, queue, hostVars, handlerVars, apiVars, startVars>>

\* The primary key refuses a second row: an IntegrityError nobody catches.
insert_task(p) ==
  /\ pc[p] = "checked"
  /\ IF row[TaskOf[p]] # "none"
     THEN /\ Goto(p, "refused") /\ resp' = [resp EXCEPT ![p] = 500]
          /\ UNCHANGED row
     ELSE /\ row' = [row EXCEPT ![TaskOf[p]] = "pending"]
          /\ Goto(p, "inserted") /\ UNCHANGED resp
  /\ UNCHANGED <<events, outcome, queue, hostVars, handlerVars, apiVars, startVars>>

enqueue_task(p) ==
  /\ pc[p] = "inserted"
  /\ update_task_status(TaskOf[p], "queued")
  /\ Goto(p, "queued")
  /\ UNCHANGED <<events, resp, outcome, queue, hostVars, handlerVars, apiVars, startVars>>

PutQueue(p) ==
  /\ pc[p] = "queued"
  /\ queue' = Append(queue, p)
  /\ resp' = [resp EXCEPT ![p] = 201]
  /\ Goto(p, "put")
  /\ UNCHANGED <<row, events, outcome, hostVars, handlerVars, apiVars, startVars>>

(***************************************************************************)
(* queue._worker_loop and queue._run_one                                   *)
(***************************************************************************)
_worker_loop ==
  /\ Serving /\ queue # <<>>
  /\ Goto(Head(queue), "dispatched")
  /\ queue' = Tail(queue)
  /\ UNCHANGED <<row, events, resp, outcome, hostVars, handlerVars, apiVars, startVars>>

SlotFree == Cardinality({p \in Posts : pc[p] \in InSlot}) < MaxSlots

AcquireSlot(p) ==
  /\ pc[p] = "dispatched" /\ SlotFree
  /\ Goto(p, "load")
  /\ UNCHANGED <<row, events, resp, outcome, queue, hostVars, handlerVars, apiVars, startVars>>

\* _write_terminal: the status, then the event.
WriteTerminalStatus(p) ==
  /\ pc[p] = "fail"
  /\ update_task_status(TaskOf[p], outcome[p])
  /\ Goto(p, "failing")
  /\ UNCHANGED <<events, resp, outcome, queue, hostVars, handlerVars, apiVars, startVars>>

WriteTerminalEvent(p) ==
  /\ pc[p] = "failing"
  /\ events' = [events EXCEPT ![TaskOf[p]] = Append(@, outcome[p])]
  /\ Goto(p, "release")
  /\ UNCHANGED <<row, resp, outcome, queue, hostVars, handlerVars, apiVars, startVars>>

\* Variant: only a successful run gives its slot back.
ReleaseSlot_OnSuccess(p) ==
  /\ pc[p] = "release" /\ outcome[p] = "completed"
  /\ Goto(p, "done")
  /\ UNCHANGED <<row, events, resp, outcome, queue, hostVars, handlerVars, apiVars, startVars>>

ReleaseSlot(p) ==
  /\ pc[p] = "release"
  /\ Goto(p, "done")
  /\ UNCHANGED <<row, events, resp, outcome, queue, hostVars, handlerVars, apiVars, startVars>>

(***************************************************************************)
(* orchestrator.run_task                                                   *)
(***************************************************************************)
\* Without a row run_task raises before its try block: nothing is cleaned up.
\* The host-mount gate is the first step inside it.
_load_request(p) ==
  /\ pc[p] = "load"
  /\ \/ /\ row[TaskOf[p]] = "none"
        /\ outcome' = [outcome EXCEPT ![p] = "failed"]
        /\ Goto(p, "fail")
     \/ /\ row[TaskOf[p]] # "none"
        /\ Raise(p, "failed")
     \/ /\ row[TaskOf[p]] # "none"
        /\ Goto(p, "prepare") /\ UNCHANGED outcome
  /\ UNCHANGED <<row, events, resp, queue, hostVars, handlerVars, apiVars, startVars>>

\* mkdir precedes the download, extraction or clone, which is awaited.
prepare_workspace(p) ==
  /\ pc[p] = "prepare"
  /\ update_task_status(TaskOf[p], "preparing_workspace")
  /\ workspace' = [workspace EXCEPT ![TaskOf[p]] = TRUE]
  /\ Goto(p, "extract")
  /\ UNCHANGED <<events, resp, outcome, queue, container, filler, policy, cleanupFailed,
                 handlerVars, apiVars, startVars>>

\* _extract_tarball in an executor thread, or git in a child process.  The time
\* limit on git gives up waiting and does not stop the process.
FillWorkspace(p) ==
  /\ pc[p] = "extract"
  /\ \/ Raise(p, "failed") /\ UNCHANGED filler
     \/ /\ TaskOf[p] \in Git
        /\ Raise(p, "failed") /\ filler' = [filler EXCEPT ![p] = "busy"]
     \/ Goto(p, "policy") /\ UNCHANGED <<outcome, filler>>
  /\ UNCHANGED <<row, events, resp, queue, container, workspace, policy, cleanupFailed,
                 handlerVars, apiVars, startVars>>

\* What outlived its coroutine comes to its end; writing into the directory of
\* the task it creates it again where it was removed meanwhile.
FillerEnds(p) ==
  /\ filler[p] = "busy"
  /\ filler' = [filler EXCEPT ![p] = "ended"]
  /\ UNCHANGED workspace \/ workspace' = [workspace EXCEPT ![TaskOf[p]] = TRUE]
  /\ UNCHANGED <<row, events, runVars, container, policy, cleanupFailed, handlerVars,
                 apiVars, startVars>>

\* ensure_worker_network may fail; then set_task_policy.
set_task_policy(p) ==
  /\ pc[p] = "policy"
  /\ \/ Raise(p, "failed") /\ UNCHANGED policy
     \/ /\ policy' = [policy EXCEPT ![TaskOf[p]] = TRUE]
        /\ Goto(p, "start") /\ UNCHANGED outcome
  /\ UNCHANGED <<row, events, resp, queue, container, workspace, filler, cleanupFailed,
                 handlerVars, apiVars, startVars>>

\* The container's name is derived from the task id.
NameTaken(t) == \E q \in PostsOf(t) : container[q] # "none"

\* containers.run creates the container, then starts it.
start_container(p) ==
  /\ pc[p] = "start"
  /\ update_task_status(TaskOf[p], "starting_container")
  /\ \/ Raise(p, "failed") /\ UNCHANGED container
     \/ /\ ~NameTaken(TaskOf[p])
        /\ container' = [container EXCEPT ![p] = "created"]
        /\ Raise(p, "failed")
     \/ /\ ~NameTaken(TaskOf[p])
        /\ container' = [container EXCEPT ![p] = "running"]
        /\ Goto(p, "health") /\ UNCHANGED outcome
  /\ UNCHANGED <<events, resp, queue, workspace, filler, policy, cleanupFailed,
                 handlerVars, apiVars, startVars>>

wait_for_opencode_health(p) ==
  /\ pc[p] = "health"
  /\ update_task_status(TaskOf[p], "starting_opencode")
  /\ Raise(p, "failed") \/ (Goto(p, "drive") /\ UNCHANGED outcome)
  /\ UNCHANGED <<events, resp, queue, hostVars, handlerVars, apiVars, startVars>>

\* The driver sets statuses and detaches a permission handler as it goes ...
DriverWrites(p) ==
  /\ pc[p] = "drive"
  /\ update_task_status(TaskOf[p], "driving")
  /\ handler' = [handler EXCEPT ![p] = TRUE]
  /\ UNCHANGED <<events, runVars, hostVars, late, apiVars, startVars>>

\* ... which sets a status of its own, even when the run is over.
HandlerWrites(p) ==
  /\ handler[p]
  /\ update_task_status(TaskOf[p], "driving")
  /\ handler' = [handler EXCEPT ![p] = FALSE]
  /\ late' = [late EXCEPT ![TaskOf[p]] = @ \/ row[TaskOf[p]] \in TERMINAL_STATUSES]
  /\ UNCHANGED <<events, runVars, hostVars, apiVars, startVars>>

\* The driver returns, or raises for a timeout, an abort or an error.
DriverEnds(p) ==
  /\ pc[p] = "drive"
  /\ \/ Goto(p, "completing") /\ UNCHANGED outcome
     \/ \E o \in TERMINAL_STATUSES \ {"completed"} : Raise(p, o)
  /\ UNCHANGED <<row, events, resp, queue, hostVars, handlerVars, apiVars, startVars>>

\* Variant: the terminal event is forgotten.
CompleteStatus_NoEvent(p) ==
  /\ pc[p] = "completing"
  /\ update_task_status(TaskOf[p], "completed")
  /\ Raise(p, "completed")
  /\ UNCHANGED <<events, resp, queue, hostVars, handlerVars, apiVars, startVars>>

CompleteStatus(p) ==
  /\ pc[p] = "completing"
  /\ update_task_status(TaskOf[p], "completed")
  /\ Goto(p, "completed")
  /\ UNCHANGED <<events, resp, outcome, queue, hostVars, handlerVars, apiVars, startVars>>

CompleteEvent(p) ==
  /\ pc[p] = "completed"
  /\ events' = [events EXCEPT ![TaskOf[p]] = Append(@, "completed")]
  /\ Raise(p, "completed")
  /\ UNCHANGED <<row, resp, queue, hostVars, handlerVars, apiVars, startVars>>

(***************************************************************************)
(* orchestrator._cleanup.  Containers are found by the label of the task.  *)
(***************************************************************************)
\* An exception in stop_container skips remove_container.
stop_container(p) ==
  /\ pc[p] = "stop"
  /\ \/ /\ container' = [q \in Posts |->
             IF TaskOf[q] = TaskOf[p] /\ container[q] = "running" THEN "exited"
             ELSE container[q]]
        /\ Goto(p, "remove") /\ UNCHANGED cleanupFailed
     \/ /\ Goto(p, "wipe") /\ cleanupFailed' = TRUE
        /\ UNCHANGED container
  /\ UNCHANGED <<row, events, resp, outcome, queue, workspace, filler, policy, handlerVars,
                 apiVars, startVars>>

remove_container(p) ==
  /\ pc[p] = "remove"
  /\ \/ /\ container' = [q \in Posts |->
             IF TaskOf[q] = TaskOf[p] THEN "none" ELSE container[q]]
        /\ UNCHANGED cleanupFailed
     \/ cleanupFailed' = TRUE /\ UNCHANGED container
  /\ Goto(p, "wipe")
  /\ UNCHANGED <<row, events, resp, outcome, queue, workspace, filler, policy, handlerVars,
                 apiVars, startVars>>

\* _run_one catches what the run raised, but not a CancelledError.
AfterCleanup(p) ==
  CASE outcome[p] = "completed" -> "release"
    [] outcome[p] = "cancelled" -> "dead"
    [] OTHER -> "fail"

\* Variant: the workspace is removed and the policy stays.
cleanup_workspace_KeepsPolicy(p) ==
  /\ pc[p] = "wipe"
  /\ workspace' = [workspace EXCEPT ![TaskOf[p]] = FALSE]
  /\ Goto(p, AfterCleanup(p))
  /\ UNCHANGED <<row, events, resp, outcome, queue, container, filler, policy,
                 cleanupFailed, handlerVars, apiVars, startVars>>

\* rmtree(ignore_errors=True) unless the workspace is local, then
\* remove_task_policy; the exception of the run goes on.
cleanup_workspace(p) ==
  /\ pc[p] = "wipe"
  /\ \/ /\ workspace' = [workspace EXCEPT ![TaskOf[p]] = @ /\ TaskOf[p] \in Local]
        /\ UNCHANGED cleanupFailed
     \/ cleanupFailed' = TRUE /\ UNCHANGED workspace
  /\ policy' = [policy EXCEPT ![TaskOf[p]] = FALSE]
  /\ Goto(p, AfterCleanup(p))
  /\ UNCHANGED <<row, events, resp, outcome, queue, container, filler, handlerVars, apiVars,
                 startVars>>

\* The container stops by itself (external).
ContainerExits(p) ==
  /\ container[p] = "running"
  /\ container' = [container EXCEPT ![p] = "exited"]
  /\ UNCHANGED <<row, events, runVars, workspace, filler, policy, cleanupFailed, handlerVars,
                 apiVars, startVars>>

(***************************************************************************)
(* POST /tasks/{id}/abort and DELETE /tasks/{id}: check, await, act.       *)
(***************************************************************************)
AbortCheck(t) ==
  /\ Serving /\ t \in Aborts /\ abortPc[t] = "idle" /\ row[t] # "none"
  /\ abortPc' = [abortPc EXCEPT ![t] =
                   IF row[t] \in TERMINAL_STATUSES THEN "done" ELSE "checked"]
  /\ UNCHANGED <<row, events, runVars, hostVars, handlerVars, deletePc, startVars>>

AbortStatus(t) ==
  /\ abortPc[t] = "checked"
  /\ update_task_status(t, "aborted")
  /\ abortPc' = [abortPc EXCEPT ![t] = "updated"]
  /\ UNCHANGED <<events, runVars, hostVars, handlerVars, deletePc, startVars>>

AbortEvent(t) ==
  /\ abortPc[t] = "updated"
  /\ events' = [events EXCEPT ![t] = Append(@, "aborted")]
  /\ abortPc' = [abortPc EXCEPT ![t] = "done"]
  /\ UNCHANGED <<row, runVars, hostVars, handlerVars, deletePc, startVars>>

DeleteCheck(t) ==
  /\ Serving /\ t \in Deletes /\ deletePc[t] = "idle"
  /\ row[t] \in TERMINAL_STATUSES
  /\ deletePc' = [deletePc EXCEPT ![t] = "checked"]
  /\ UNCHANGED <<row, events, runVars, hostVars, handlerVars, abortPc, startVars>>

\* Foreign keys are off (no PRAGMA foreign_keys): only the task row goes.
delete_task(t) ==
  /\ deletePc[t] = "checked"
  /\ row' = [row EXCEPT ![t] = "none"]
  /\ deletePc' = [deletePc EXCEPT ![t] = "done"]
  /\ UNCHANGED <<events, runVars, hostVars, handlerVars, abortPc, startVars>>

(***************************************************************************)
(* The shutdown half of main.lifespan, after the requests in flight have   *)
(* been answered.  The CancelledError of queue_task passes its except      *)
(* Exception: the rest of the block is skipped, and the event loop cancels *)
(* every coroutine that is left and runs until they have ended.            *)
(***************************************************************************)
\* Variant: run_task has no finally block.
CancelRun_NoFinally(p) == IF pc[p] \in {"idle", "refused", "done"} THEN pc[p] ELSE "dead"

\* A run inside the try block of run_task goes to its cleanup; one that is there
\* already, or outside the block, stops where it is.
CancelRun(p) ==
  CASE pc[p] \in InTry -> "stop"
    [] pc[p] \in {"idle", "refused", "done"} -> pc[p]
    [] pc[p] = "release" -> "done"
    [] OTHER -> "dead"

\* deaf: the driver awaited a task of its own that it had cancelled, and takes
\* the CancelledError for that task's.
Shutdown ==
  /\ Serving /\ crashes + stops < MaxRestart
  /\ \A p \in Posts : pc[p] \notin {"checked", "inserted", "queued"}
  /\ \A t \in Tasks : {abortPc[t], deletePc[t]} \subseteq {"idle", "done"}
  /\ stops' = stops + 1 /\ phase' = "stopping"
  /\ \E deaf \in SUBSET {p \in Posts : pc[p] = "drive"} :
       /\ pc' = [p \in Posts |-> IF p \in deaf THEN pc[p] ELSE CancelRun(p)]
       /\ outcome' = [p \in Posts |->
            IF pc[p] \in InTry /\ p \notin deaf THEN "cancelled" ELSE outcome[p]]
  /\ thread' = [p \in Posts |->
                  IF pc[p] \in {"start", "stop", "remove"} THEN pc[p] ELSE "none"]
  /\ filler' = [p \in Posts |->
                  IF pc[p] = "extract" /\ TaskOf[p] \notin Local THEN "busy" ELSE filler[p]]
  /\ cleanupFailed' = (cleanupFailed \/ \E p \in Posts : pc[p] \in Cleaning \cup {"start"})
  /\ queue' = <<>>
  /\ handler' = [p \in Posts |-> FALSE]
  /\ UNCHANGED <<row, events, resp, container, workspace, policy, late, apiVars, reaped,
                 marked, crashes>>

\* The Docker call of a cancelled coroutine is carried out, or fails.
ThreadEnds(p) ==
  /\ thread[p] # "none"
  /\ thread' = [thread EXCEPT ![p] = "none"]
  /\ \/ UNCHANGED container
     \/ /\ thread[p] = "start" /\ ~NameTaken(TaskOf[p])
        /\ \E s \in {"created", "running"} : container' = [container EXCEPT ![p] = s]
     \/ /\ thread[p] = "stop"
        /\ container' = [q \in Posts |->
             IF TaskOf[q] = TaskOf[p] /\ container[q] = "running" THEN "exited"
             ELSE container[q]]
     \/ /\ thread[p] = "remove"
        /\ container' = [q \in Posts |->
             IF TaskOf[q] = TaskOf[p] THEN "none" ELSE container[q]]
  /\ UNCHANGED <<row, events, runVars, workspace, filler, policy, cleanupFailed, handlerVars,
                 apiVars, phase, reaped, marked, crashes, stops>>

(***************************************************************************)
(* The end of the process, and the startup of main.lifespan, which runs    *)
(* before any request.  Containers, directories, committed rows and git    *)
(* processes survive the process.                                          *)
(***************************************************************************)
NewProcess ==
  /\ phase' = "reap" /\ reaped' = {} /\ marked' = {}
  /\ queue' = <<>>
  /\ thread' = [p \in Posts |-> "none"]
  /\ filler' = [p \in Posts |->
                  IF filler[p] = "busy" /\ TaskOf[p] \notin Git THEN "ended" ELSE filler[p]]
  /\ handler' = [p \in Posts |-> FALSE]
  /\ policy' = [t \in Tasks |-> FALSE]
  /\ UNCHANGED <<row, events, resp, outcome, container, workspace, late, cleanupFailed,
                 stops>>

Crash ==
  /\ crashes < MaxCrash /\ crashes + stops < MaxRestart
  /\ crashes' = crashes + 1
  /\ pc' = [p \in Posts |-> IF pc[p] \in {"idle", "refused", "done"} THEN pc[p] ELSE "dead"]
  /\ abortPc' = [t \in Tasks |-> IF abortPc[t] = "idle" THEN "idle" ELSE "done"]
  /\ deletePc' = [t \in Tasks |-> IF deletePc[t] = "idle" THEN "idle" ELSE "done"]
  /\ NewProcess

Restart ==
  /\ phase = "stopping"
  /\ \A p \in Posts : pc[p] \notin Live /\ thread[p] = "none"
  /\ \A p \in Posts : filler[p] = "busy" => TaskOf[p] \in Git
  /\ NewProcess
  /\ UNCHANGED <<pc, apiVars, crashes>>

\* Only containers in state exited or dead are listed; without Docker the
\* whole step is skipped.
reap_orphaned_containers ==
  /\ phase = "reap"
  /\ \/ /\ reaped' = {t \in Tasks : \E p \in PostsOf(t) : container[p] = "exited"}
        /\ container' = [p \in Posts |->
                           IF container[p] = "exited" THEN "none" ELSE container[p]]
        /\ phase' = "mark"
     \/ phase' = "recover" /\ UNCHANGED <<reaped, container>>
  /\ UNCHANGED <<row, events, runVars, workspace, filler, policy, cleanupFailed, handlerVars,
                 apiVars, marked, thread, crashes, stops>>

MarkFailed(t) ==
  /\ update_task_status(t, "failed")
  /\ events' = [events EXCEPT ![t] = Append(@, "failed")]
  /\ UNCHANGED <<runVars, hostVars, handlerVars, apiVars, phase, reaped, thread, crashes,
                 stops>>

\* main.lifespan marks every reaped task failed, whatever its status.
MarkReaped(t) ==
  /\ phase = "mark" /\ t \in reaped \ marked
  /\ marked' = marked \cup {t}
  /\ MarkFailed(t)

MarkDone ==
  /\ phase = "mark" /\ reaped = marked
  /\ phase' = "recover"
  /\ UNCHANGED <<row, events, runVars, hostVars, handlerVars, apiVars, reaped, marked,
                 thread, crashes, stops>>

\* Variant: tasks that were still queued are left alone.
Orphans_SkipQueued == {t \in Tasks \ reaped : row[t] \in NonTerminal \ {"queued"}}

\* list_non_terminal_tasks, minus the tasks the reaper has marked.
Orphans == {t \in Tasks \ reaped : row[t] \in NonTerminal}

recover_orphaned_tasks(t) ==
  /\ phase = "recover" /\ t \in Orphans
  /\ MarkFailed(t)
  /\ UNCHANGED marked

Serve ==
  /\ phase = "recover" /\ Orphans = {}
  /\ phase' = "serving"
  /\ UNCHANGED <<row, events, runVars, hostVars, handlerVars, apiVars, reaped, marked,
                 thread, crashes, stops>>

PostStep(p) == create_task(p) \/ insert_task(p) \/ enqueue_task(p) \/ PutQueue(p)

\* The steps of a run outside the driver.
RunStep(p) ==
  \/ AcquireSlot(p) \/ _load_request(p) \/ prepare_workspace(p) \/ FillWorkspace(p)
  \/ set_task_policy(p) \/ start_container(p) \/ wait_for_opencode_health(p)
  \/ CompleteStatus(p) \/ CompleteEvent(p)
  \/ stop_container(p) \/ remove_container(p) \/ cleanup_workspace(p)
  \/ WriteTerminalStatus(p) \/ WriteTerminalEvent(p) \/ ReleaseSlot(p)

ApiStep(t) == AbortCheck(t) \/ AbortStatus(t) \/ AbortEvent(t) \/ DeleteCheck(t) \/ delete_task(t)

StartStep ==
  \/ Restart \/ reap_orphaned_containers \/ MarkDone \/ Serve
  \/ \E t \in Tasks : MarkReaped(t) \/ recover_orphaned_tasks(t)

Next ==
  \/ \E p \in Posts : PostStep(p) \/ RunStep(p) \/ DriverEnds(p) \/ DriverWrites(p)
                      \/ HandlerWrites(p) \/ ContainerExits(p) \/ ThreadEnds(p) \/ FillerEnds(p)
  \/ _worker_loop
  \/ \E t \in Tasks : ApiStep(t)
  \/ Shutdown \/ Crash
  \/ StartStep

Spec == Init /\ [][Next]_vars

\* The event loop runs every coroutine that can run, the Docker daemon answers,
\* a download is limited in size and git in time, startup goes on.  A driver
\* need not return, and a crash, a request or the end of git may never come.
Fairness ==
  /\ \A p \in Posts :
       /\ WF_vars(insert_task(p) \/ enqueue_task(p) \/ PutQueue(p))
       /\ WF_vars(RunStep(p)) /\ WF_vars(ThreadEnds(p))
       /\ WF_vars(TaskOf[p] \notin Git /\ FillerEnds(p))
  /\ WF_vars(_worker_loop)
  /\ WF_vars(StartStep)

FairSpec == Spec /\ Fairness

(***************************************************************************)
(* Properties                                                              *)
(***************************************************************************)
\* Every variable has its type; in particular the event log only ever gets
\* terminal outcomes from a run that has one (_write_terminal).
TypeOK ==
  /\ row \in [Tasks -> TaskStatus \cup {"none"}]
  /\ events \in [Tasks -> Seq(TERMINAL_STATUSES)]
  /\ pc \in [Posts -> PCs]
  /\ resp \in [Posts -> {0, 201, 409, 500}]
  /\ outcome \in [Posts -> TERMINAL_STATUSES \cup {"none", "cancelled"}]
  /\ queue \in Seq(Posts)
  /\ container \in [Posts -> {"none", "created", "running", "exited"}]
  /\ workspace \in [Tasks -> BOOLEAN]
  /\ filler \in [Posts -> {"none", "busy", "ended"}]
  /\ policy \in [Tasks -> BOOLEAN]
  /\ handler \in [Posts -> BOOLEAN]
  /\ late \in [Tasks -> BOOLEAN]
  /\ abortPc \in [Tasks -> {"idle", "checked", "updated", "done"}]
  /\ deletePc \in [Tasks -> {"idle", "checked", "done"}]
  /\ phase \in {"reap", "mark", "recover", "serving", "stopping"}
  /\ reaped \subseteq Tasks /\ marked \subseteq Tasks
  /\ thread \in [Posts -> {"none", "start", "stop", "remove"}]
  /\ cleanupFailed \in BOOLEAN
  /\ crashes \in 0..MaxCrash /\ stops \in 0..MaxRestart

\* A container lives inside the slot of the run that started it: unless the
\* process crashed or a cleanup failed, there are never more
\* containers than max_concurrent_tasks and none outlives its run, also when a
\* shutdown cancels the run, is not heard by it, or finds it in the queue.
ContainersWithinSlots ==
  crashes = 0 /\ ~cleanupFailed =>
    /\ \A p \in Posts : container[p] # "none" => pc[p] \in InSlot
    /\ Cardinality({p \in Posts : container[p] # "none"}) <= MaxSlots

\* No extraction or clone of the task has outlived the coroutine waiting for it.
NotRefilled(t) == \A p \in PostsOf(t) : filler[p] = "none"

\* The broker policy and the workspace of a task exist only while a run of it
\* holds a slot, through orderly shutdowns too (the policy is in memory and goes
\* with the process).  Directories are left behind by a crash, a failed rmtree,
\* a local workspace, and by an extraction or clone that went on after its run
\* was cancelled or gave up on it.
NothingLeftBehind ==
  \A t \in Tasks :
    \/ policy[t] /\ phase # "stopping"
    \/ workspace[t] /\ crashes = 0 /\ ~cleanupFailed /\ t \notin Local /\ NotRefilled(t)
    => \E p \in PostsOf(t) : pc[p] \in InSlot

\* While the worker serves requests, a task whose status is not terminal has a
\* request or a run that will still end it; recovery leaves none behind.  The
\* one exception is a handler that overwrote a terminal status.
NoStuckTask ==
  Serving =>
    \A t \in Tasks :
      row[t] \in NonTerminal => late[t] \/ \E p \in PostsOf(t) : pc[p] \in Live

\* A run that has released its slot has a terminal event in the log.
DoneHasTerminalEvent ==
  \A p \in Posts : pc[p] = "done" => events[TaskOf[p]] # <<>>

\* A task id is accepted (201) once, unless it was deleted in between: of two
\* requests that both passed the check of create_task one is refused by the
\* primary key, so no two runs are started for one row.
AcceptedOnce ==
  \A p, q \in Posts :
    p # q /\ TaskOf[p] = TaskOf[q] /\ resp[p] = 201 /\ resp[q] = 201 =>
      deletePc[TaskOf[p]] = "done"

\* No driver runs for ever.  The code does not see to it: the driver may take the
\* cancellation of its timeout for another one, and its last requests to opencode
\* are made outside the timeout and without one of their own.
DriversReturn == \A p \in Posts : []<>(pc[p] # "drive")

\* As long as no driver runs for ever, every accepted task reaches a terminal
\* status (or is deleted), through slots that are all taken, aborts, crashes and
\* shutdowns of the worker.
TaskSettles ==
  DriversReturn =>
    \A p \in Posts : pc[p] = "inserted" ~> row[TaskOf[p]] \notin NonTerminal

(***************************************************************************)
(* Statements of the repository the code does not meet                     *)
(***************************************************************************)
\* contract/task.py: a terminal status is never changed once written.
TerminalIsFinal ==
  [][\A t \in Tasks :
       row[t] \in TERMINAL_STATUSES => row'[t] \in {row[t], "none"}]_vars

\* main.lifespan: a reaped task that is already terminal is left alone.
ReaperKeepsTerminal ==
  [][phase = "mark" =>
       \A t \in Tasks : row[t] \in TERMINAL_STATUSES => row'[t] = row[t]]_vars

\* docs/roadmap/opencode-worker.md: after a restart the containers of the
\* orphaned tasks are removed.
RestartReapsContainers ==
  crashes > 0 /\ Serving =>
    \A p \in Posts : pc[p] = "dead" => container[p] = "none"

\* run_task: the cleanup is carried out whatever happens.  The thread that
\* starts a container outlives the coroutine a shutdown has cancelled.
StopLeavesNoContainer ==
  phase = "reap" /\ crashes = 0 => \A p \in Posts : container[p] = "none"

\* The same for the directory of the task, which the thread that extracts a
\* tarball creates again.
StopLeavesNoWorkspace ==
  phase = "reap" /\ crashes = 0 =>
    \A t \in Tasks : workspace[t] => t \in Local \/ cleanupFailed
=============================================================================
