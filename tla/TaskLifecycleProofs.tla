------------------------- MODULE TaskLifecycleProofs -------------------------
(***************************************************************************)
(* Proofs about TaskLifecycle, for any number of tasks, requests, slots,   *)
(* crashes and shutdowns.                                                  *)
(***************************************************************************)
EXTENDS TaskLifecycle, FiniteSetTheorems, TLAPS

(***************************************************************************)
(* The inductive invariant                                                 *)
(***************************************************************************)
RowType ==
  /\ row \in [Tasks -> TaskStatus \cup {"none"}]
  /\ events \in [Tasks -> Seq(TERMINAL_STATUSES)]
RunType ==
  /\ pc \in [Posts -> PCs]
  /\ resp \in [Posts -> {0, 201, 409, 500}]
  /\ outcome \in [Posts -> TERMINAL_STATUSES \cup {"none", "cancelled"}]
QueueType == queue \in Seq(Posts)
HostType ==
  /\ container \in [Posts -> {"none", "created", "running", "exited"}]
  /\ workspace \in [Tasks -> BOOLEAN]
  /\ filler \in [Posts -> {"none", "busy", "ended"}]
  /\ policy \in [Tasks -> BOOLEAN]
  /\ cleanupFailed \in BOOLEAN
HandlerType ==
  /\ handler \in [Posts -> BOOLEAN]
  /\ late \in [Tasks -> BOOLEAN]
ApiType ==
  /\ abortPc \in [Tasks -> {"idle", "checked", "updated", "done"}]
  /\ deletePc \in [Tasks -> {"idle", "checked", "done"}]
StartType ==
  /\ phase \in {"reap", "mark", "recover", "serving", "stopping"}
  /\ reaped \subseteq Tasks /\ marked \subseteq Tasks
  /\ thread \in [Posts -> {"none", "start", "stop", "remove"}]
  /\ crashes \in 0..MaxCrash /\ stops \in 0..MaxRestart

\* A run that is being cleaned up knows how it ended, and one whose terminal
\* status and event are still to be written ended in a terminal way.
OutcomeFits ==
  \A p \in Posts :
    /\ pc[p] \in Cleaning => outcome[p] # "none"
    /\ pc[p] \in {"fail", "failing"} => outcome[p] \in TERMINAL_STATUSES

\* The queue holds each waiting request once, and nothing else.
QueueFits ==
  /\ \A i \in 1..Len(queue) : pc[queue[i]] = "put"
  /\ \A i, j \in 1..Len(queue) : i # j => queue[i] # queue[j]

\* The semaphore of queue.py.
Slots == {p \in Posts : pc[p] \in InSlot}
SlotsBounded == IsFiniteSet(Slots) /\ Cardinality(Slots) <= MaxSlots

\* Where a run may have a container, a workspace and a policy to clean up.
HoldsContainer == {"health", "drive", "completing", "completed", "stop", "remove"}
HoldsPolicy == {"start", "wipe"} \cup HoldsContainer
HoldsWorkspace == {"extract", "policy"} \cup HoldsPolicy

ContainersHeld ==
  crashes = 0 /\ ~cleanupFailed =>
    \A p \in Posts : container[p] # "none" => pc[p] \in HoldsContainer

\* A thread that may still start a container was left behind by a shutdown.
ThreadsCounted == \A p \in Posts : thread[p] = "start" => cleanupFailed

WorkspacesHeld ==
  \A t \in Tasks :
    workspace[t] /\ crashes = 0 /\ ~cleanupFailed /\ t \notin Local /\ NotRefilled(t) =>
      \E p \in PostsOf(t) : pc[p] \in HoldsWorkspace

PoliciesHeld ==
  \A t \in Tasks :
    policy[t] /\ phase # "stopping" => \E p \in PostsOf(t) : pc[p] \in HoldsPolicy

\* The requests and runs that have a terminal status still to write.
Unwritten == {"inserted", "queued", "put", "dispatched", "load", "prepare", "extract", "policy",
              "start", "health", "drive", "completing", "fail"}
WillWrite(p) ==
  \/ pc[p] \in Unwritten
  \/ pc[p] \in Cleaning /\ outcome[p] \notin {"completed", "cancelled"}

NonTerminalHasWriter ==
  Serving =>
    \A t \in Tasks :
      row[t] \in NonTerminal => late[t] \/ \E p \in PostsOf(t) : WillWrite(p)

\* A process that does not serve takes no requests; one that starts has no run
\* and no handler, and no task it has marked is open.
Resting == {"idle", "refused", "done", "dead"}
Starting == {"reap", "mark", "recover"}
Quiet ==
  /\ phase # "serving" =>
       /\ \A p \in Posts : pc[p] # "checked"
       /\ \A t \in Tasks : abortPc[t] \in {"idle", "done"} /\ deletePc[t] \in {"idle", "done"}
  /\ phase \in Starting =>
       /\ \A p \in Posts : pc[p] \in Resting /\ ~handler[p] /\ thread[p] = "none"
       /\ \A t \in marked : row[t] \notin NonTerminal
  /\ phase = "reap" => reaped = {} /\ marked = {}
  /\ phase = "recover" => reaped = marked

\* A run that completed, or that is about to give its slot back, has written
\* its terminal event.
EndIsLogged ==
  \A p \in Posts :
    outcome[p] = "completed" \/ pc[p] \in {"release", "done"} => events[TaskOf[p]] # <<>>

\* The requests that have inserted the row of their task.
Claims(p) == resp[p] = 201 \/ pc[p] \in {"inserted", "queued"}
ClaimedOnce ==
  /\ \A p \in Posts : Claims(p) =>
       row[TaskOf[p]] # "none" \/ deletePc[TaskOf[p]] = "done"
  /\ \A p, q \in Posts :
       p # q /\ TaskOf[p] = TaskOf[q] /\ Claims(p) /\ Claims(q) =>
         deletePc[TaskOf[p]] = "done"

Types == RowType /\ RunType /\ QueueType /\ HostType /\ HandlerType /\ ApiType /\ StartType

IInv ==
  /\ Types /\ OutcomeFits /\ QueueFits /\ SlotsBounded
  /\ ContainersHeld /\ ThreadsCounted /\ WorkspacesHeld /\ PoliciesHeld
  /\ NonTerminalHasWriter /\ Quiet /\ EndIsLogged /\ ClaimedOnce

(***************************************************************************)
(* Types                                                                   *)
(***************************************************************************)
LEMMA InitTypes ==
  ASSUME Init
  PROVE  Types
<1>1. RowType /\ QueueType
  BY DEF Init, RowType, QueueType
<1>2. RunType
  BY DEF Init, RunType, PCs
<1>3. HostType /\ HandlerType /\ ApiType
  BY DEF Init, HostType, HandlerType, ApiType
<1>4. StartType
  BY LifecycleAssumption DEF Init, StartType
<1> QED BY <1>1, <1>2, <1>3, <1>4 DEF Types

\* What the writes to the two tables do.
LEMMA UpdateType ==
  ASSUME RowType, NEW t \in Tasks, NEW s \in TaskStatus, update_task_status(t, s)
  PROVE  row' \in [Tasks -> TaskStatus \cup {"none"}]
BY DEF RowType, update_task_status

LEMMA AppendType ==
  ASSUME RowType, NEW t \in Tasks, NEW e \in TERMINAL_STATUSES,
         events' = [events EXCEPT ![t] = Append(@, e)]
  PROVE  events' \in [Tasks -> Seq(TERMINAL_STATUSES)]
BY DEF RowType

LEMMA StatusNames ==
  /\ TERMINAL_STATUSES \subseteq TaskStatus /\ NonTerminal \subseteq TaskStatus
  /\ "none" \notin TaskStatus
  /\ TERMINAL_STATUSES \cap NonTerminal = {}
  /\ {"completed", "failed", "aborted"} \subseteq TERMINAL_STATUSES
  /\ {"pending", "queued", "preparing_workspace", "starting_container",
      "starting_opencode", "driving"} \subseteq NonTerminal
BY DEF TaskStatus, NonTerminal, TERMINAL_STATUSES

LEMMA RowStep ==
  ASSUME Types, OutcomeFits, Next
  PROVE  RowType'
<1>t. /\ \A p \in Posts : TaskOf[p] \in Tasks
      /\ \A p \in Posts : pc[p] \in {"fail", "failing"} => outcome[p] \in TERMINAL_STATUSES
  BY LifecycleAssumption DEF OutcomeFits
<1>r. row \in [Tasks -> TaskStatus \cup {"none"}] /\ events \in [Tasks -> Seq(TERMINAL_STATUSES)]
  BY DEF Types, RowType
<1>u. \A t \in Tasks, s \in TaskStatus :
        update_task_status(t, s) => row' \in [Tasks -> TaskStatus \cup {"none"}]
  BY UpdateType DEF Types
<1>e. \A t \in Tasks, e \in TERMINAL_STATUSES :
        events' = [events EXCEPT ![t] = Append(@, e)]
          => events' \in [Tasks -> Seq(TERMINAL_STATUSES)]
  BY AppendType DEF Types
<1>1. ASSUME NEW p \in Posts, PostStep(p) PROVE RowType'
  BY <1>1, <1>t, <1>r, <1>u, StatusNames
    DEF RowType, PostStep, create_task, insert_task, enqueue_task, PutQueue
<1>2. ASSUME NEW p \in Posts, RunStep(p) \/ DriverEnds(p) PROVE RowType'
  BY <1>2, <1>t, <1>r, <1>u, <1>e, StatusNames
    DEF RowType, RunStep, AcquireSlot, _load_request, prepare_workspace, FillWorkspace,
        set_task_policy,
        start_container, wait_for_opencode_health, DriverEnds, CompleteStatus,
        CompleteEvent, stop_container, remove_container, cleanup_workspace,
        WriteTerminalStatus, WriteTerminalEvent, ReleaseSlot
<1>3. ASSUME NEW p \in Posts,
             \/ DriverWrites(p) \/ HandlerWrites(p) \/ ContainerExits(p) \/ ThreadEnds(p)
             \/ FillerEnds(p)
      PROVE  RowType'
  BY <1>3, <1>t, <1>r, <1>u, StatusNames
    DEF RowType, DriverWrites, HandlerWrites, ContainerExits, ThreadEnds, FillerEnds
<1>4. CASE _worker_loop
  BY <1>4, <1>r DEF RowType, _worker_loop
<1>5. ASSUME NEW t \in Tasks, ApiStep(t) PROVE RowType'
  BY <1>5, <1>r, <1>u, <1>e, StatusNames
    DEF RowType, ApiStep, AbortCheck, AbortStatus, AbortEvent, DeleteCheck, delete_task
<1>6. CASE Shutdown \/ Crash \/ Restart \/ reap_orphaned_containers \/ MarkDone \/ Serve
  BY <1>6, <1>r
    DEF RowType, Shutdown, Crash, Restart, NewProcess, reap_orphaned_containers, MarkDone,
        Serve
<1>7. ASSUME NEW t \in Tasks, MarkReaped(t) \/ recover_orphaned_tasks(t) PROVE RowType'
  BY <1>7, <1>r, <1>u, <1>e, StatusNames
    DEF RowType, MarkReaped, recover_orphaned_tasks, MarkFailed
<1> QED BY <1>1, <1>2, <1>3, <1>4, <1>5, <1>6, <1>7 DEF Next, StartStep

LEMMA PcNames ==
  /\ {"checked", "refused", "done", "dead", "inserted", "queued", "put", "dispatched"} \subseteq PCs
  /\ {"load", "fail", "failing", "release", "prepare", "extract", "policy", "start", "health",
      "drive", "completing", "completed", "stop", "remove", "wipe"} \subseteq PCs
  /\ \A p \in Posts : AfterCleanup(p) \in PCs
  /\ \A p \in Posts : pc[p] \in PCs => CancelRun(p) \in PCs
BY DEF PCs, Live, InSlot, InTry, Cleaning, AfterCleanup, CancelRun

LEMMA RunTypeStep ==
  ASSUME Types, Next
  PROVE  RunType'
<1>r. /\ pc \in [Posts -> PCs] /\ resp \in [Posts -> {0, 201, 409, 500}]
      /\ outcome \in [Posts -> TERMINAL_STATUSES \cup {"none", "cancelled"}]
  BY DEF Types, RunType
<1>g. \A p \in Posts, l \in PCs : Goto(p, l) => pc' \in [Posts -> PCs]
  BY <1>r DEF Goto
<1>o. \A p \in Posts, o \in TERMINAL_STATUSES :
        Raise(p, o) => /\ pc' \in [Posts -> PCs]
                       /\ outcome' \in [Posts -> TERMINAL_STATUSES \cup {"none", "cancelled"}]
  BY <1>r, <1>g, PcNames DEF Raise
<1>1. ASSUME NEW p \in Posts, PostStep(p) PROVE RunType'
  BY <1>1, <1>r, <1>g, PcNames
    DEF RunType, PostStep, create_task, insert_task, enqueue_task, PutQueue
<1>2. ASSUME NEW p \in Posts, RunStep(p) \/ DriverEnds(p) PROVE RunType'
  BY <1>2, <1>r, <1>g, <1>o, PcNames, StatusNames
    DEF RunType, RunStep, AcquireSlot, _load_request, prepare_workspace, FillWorkspace,
        set_task_policy,
        start_container, wait_for_opencode_health, DriverEnds, CompleteStatus,
        CompleteEvent, stop_container, remove_container, cleanup_workspace,
        WriteTerminalStatus, WriteTerminalEvent, ReleaseSlot
<1>3. ASSUME NEW p \in Posts,
             \/ DriverWrites(p) \/ HandlerWrites(p) \/ ContainerExits(p) \/ ThreadEnds(p)
             \/ FillerEnds(p)
      PROVE  RunType'
  BY <1>3, <1>r DEF RunType, DriverWrites, HandlerWrites, ContainerExits, ThreadEnds,
        FillerEnds, runVars
<1>4. CASE _worker_loop
  <2>1. Head(queue) \in Posts
    BY <1>4 DEF _worker_loop, Types, QueueType
  <2> QED BY <1>4, <2>1, <1>r, <1>g, PcNames DEF RunType, _worker_loop
<1>5. ASSUME NEW t \in Tasks, ApiStep(t) PROVE RunType'
  BY <1>5, <1>r
    DEF RunType, ApiStep, AbortCheck, AbortStatus, AbortEvent, DeleteCheck, delete_task,
        runVars
<1>6. CASE Shutdown
  BY <1>6, <1>r, PcNames DEF RunType, Shutdown
<1>7. CASE Crash
  BY <1>7, <1>r, PcNames DEF RunType, Crash, NewProcess
<1>8. CASE Restart \/ reap_orphaned_containers \/ MarkDone \/ Serve
  BY <1>8, <1>r
    DEF RunType, Restart, NewProcess, reap_orphaned_containers, MarkDone, Serve, runVars
<1>9. ASSUME NEW t \in Tasks, MarkReaped(t) \/ recover_orphaned_tasks(t) PROVE RunType'
  BY <1>9, <1>r DEF RunType, MarkReaped, recover_orphaned_tasks, MarkFailed, runVars
<1> QED BY <1>1, <1>2, <1>3, <1>4, <1>5, <1>6, <1>7, <1>8, <1>9 DEF Next, StartStep

\* The queue only grows by the request that puts itself there.
LEMMA QueueStep ==
  ASSUME Types, QueueFits, Next
  PROVE  QueueType' /\ QueueFits'
<1>q. queue \in Seq(Posts) /\ pc \in [Posts -> PCs]
  BY DEF Types, QueueType, RunType
<1>s. ASSUME NEW p \in Posts, pc[p] # "put", UNCHANGED queue,
             \A q \in Posts : q # p => pc'[q] = pc[q]
      PROVE  QueueType' /\ QueueFits'
  BY <1>s, <1>q DEF QueueType, QueueFits
<1>u. ASSUME UNCHANGED <<pc, queue>> PROVE QueueType' /\ QueueFits'
  BY <1>u, <1>q DEF QueueType, QueueFits
<1>e. ASSUME queue' = <<>> PROVE QueueType' /\ QueueFits'
  BY <1>e DEF QueueType, QueueFits
<1>1. ASSUME NEW p \in Posts, create_task(p) \/ insert_task(p) \/ enqueue_task(p)
      PROVE  QueueType' /\ QueueFits'
  BY <1>1, <1>q, <1>s DEF create_task, insert_task, enqueue_task, Goto
<1>2. ASSUME NEW p \in Posts, PutQueue(p) PROVE QueueType' /\ QueueFits'
  <2>1. /\ queue' = Append(queue, p) /\ pc' = [pc EXCEPT ![p] = "put"] /\ pc[p] = "queued"
    BY <1>2 DEF PutQueue, Goto
  <2>2. /\ queue' \in Seq(Posts) /\ Len(queue') = Len(queue) + 1
        /\ \A i \in 1..Len(queue) : queue'[i] = queue[i] /\ queue[i] \in Posts
        /\ queue'[Len(queue) + 1] = p
    BY <2>1, <1>q
  <2>3. \A i \in 1..Len(queue) : queue[i] # p /\ pc'[queue[i]] = "put"
    BY <2>1, <2>2, <1>q DEF QueueFits
  <2> QED BY <2>1, <2>2, <2>3, <1>q DEF QueueType, QueueFits
<1>3. ASSUME NEW p \in Posts, RunStep(p) \/ DriverEnds(p) PROVE QueueType' /\ QueueFits'
  BY <1>3, <1>q, <1>s
    DEF RunStep, AcquireSlot, _load_request, prepare_workspace, FillWorkspace,
        set_task_policy,
        start_container, wait_for_opencode_health, DriverEnds, CompleteStatus,
        CompleteEvent, stop_container, remove_container, cleanup_workspace,
        WriteTerminalStatus, WriteTerminalEvent, ReleaseSlot, Goto, Raise
<1>4. ASSUME NEW p \in Posts,
             \/ DriverWrites(p) \/ HandlerWrites(p) \/ ContainerExits(p) \/ ThreadEnds(p)
             \/ FillerEnds(p)
      PROVE  QueueType' /\ QueueFits'
  BY <1>4, <1>u DEF DriverWrites, HandlerWrites, ContainerExits, ThreadEnds, FillerEnds,
        runVars
<1>5. CASE _worker_loop
  <2>1. /\ queue # <<>> /\ queue' = Tail(queue) /\ pc' = [pc EXCEPT ![Head(queue)] = "dispatched"]
    BY <1>5 DEF _worker_loop, Goto
  <2>2. /\ queue' \in Seq(Posts) /\ Len(queue') = Len(queue) - 1 /\ Len(queue) \in Nat \ {0}
        /\ \A i \in 1..Len(queue') : queue'[i] = queue[i + 1]
        /\ \A i \in 1..Len(queue) : queue[i] \in Posts
        /\ Head(queue) = queue[1]
    BY <2>1, <1>q
  <2>3. \A i \in 1..Len(queue') : queue[i + 1] # queue[1] /\ pc[queue[i + 1]] = "put"
    BY <2>2 DEF QueueFits
  <2>4. \A i \in 1..Len(queue') : pc'[queue'[i]] = "put"
    BY <2>1, <2>2, <2>3, <1>q
  <2>5. \A i, j \in 1..Len(queue') : i # j => queue'[i] # queue'[j]
    <3>1. \A i \in 1..Len(queue') : i + 1 \in 1..Len(queue)
      BY ONLY <2>2
    <3>2. \A i, j \in 1..Len(queue') : i # j => i + 1 # j + 1
      BY ONLY <2>2
    <3>3. \A i, j \in 1..Len(queue) : i # j => queue[i] # queue[j]
      BY DEF QueueFits
    <3> QED BY ONLY <2>2, <3>1, <3>2, <3>3
  <2> QED BY <2>2, <2>4, <2>5 DEF QueueType, QueueFits
<1>6. ASSUME NEW t \in Tasks, ApiStep(t) PROVE QueueType' /\ QueueFits'
  BY <1>6, <1>u
    DEF ApiStep, AbortCheck, AbortStatus, AbortEvent, DeleteCheck, delete_task, runVars
<1>7. CASE Shutdown \/ Crash \/ Restart
  BY <1>7, <1>e DEF Shutdown, Crash, Restart, NewProcess
<1>8. CASE reap_orphaned_containers \/ MarkDone \/ Serve
  BY <1>8, <1>u DEF reap_orphaned_containers, MarkDone, Serve, runVars
<1>9. ASSUME NEW t \in Tasks, MarkReaped(t) \/ recover_orphaned_tasks(t)
      PROVE  QueueType' /\ QueueFits'
  BY <1>9, <1>u DEF MarkReaped, recover_orphaned_tasks, MarkFailed, runVars
<1> QED BY <1>1, <1>2, <1>3, <1>4, <1>5, <1>6, <1>7, <1>8, <1>9 DEF Next, StartStep,
                                                                    PostStep

LEMMA HostTypeStep ==
  ASSUME Types, Next
  PROVE  HostType'
<1>h. /\ container \in [Posts -> {"none", "created", "running", "exited"}]
      /\ workspace \in [Tasks -> BOOLEAN] /\ policy \in [Tasks -> BOOLEAN]
      /\ filler \in [Posts -> {"none", "busy", "ended"}]
      /\ cleanupFailed \in BOOLEAN
  BY DEF Types, HostType
<1>t. \A p \in Posts : TaskOf[p] \in Tasks
  BY LifecycleAssumption
<1>u. ASSUME UNCHANGED hostVars PROVE HostType'
  BY <1>u, <1>h DEF HostType, hostVars
<1>1. ASSUME NEW p \in Posts, PostStep(p) PROVE HostType'
  BY <1>1, <1>u DEF PostStep, create_task, insert_task, enqueue_task, PutQueue
<1>2. ASSUME NEW p \in Posts,
             \/ AcquireSlot(p) \/ _load_request(p) \/ wait_for_opencode_health(p)
             \/ DriverEnds(p) \/ CompleteStatus(p) \/ CompleteEvent(p)
             \/ WriteTerminalStatus(p) \/ WriteTerminalEvent(p) \/ ReleaseSlot(p)
             \/ DriverWrites(p) \/ HandlerWrites(p)
      PROVE  HostType'
  BY <1>2, <1>u
    DEF AcquireSlot, _load_request, wait_for_opencode_health, DriverEnds, CompleteStatus,
        CompleteEvent, WriteTerminalStatus, WriteTerminalEvent, ReleaseSlot, DriverWrites,
        HandlerWrites
<1>3. ASSUME NEW p \in Posts,
             \/ prepare_workspace(p) \/ FillWorkspace(p) \/ set_task_policy(p) \/ start_container(p)
             \/ ContainerExits(p)
      PROVE  HostType'
  BY <1>3, <1>h, <1>t
    DEF HostType, prepare_workspace, FillWorkspace, set_task_policy, start_container,
        ContainerExits
<1>4. ASSUME NEW p \in Posts, stop_container(p) \/ remove_container(p) PROVE HostType'
  BY <1>4, <1>h DEF HostType, stop_container, remove_container
<1>5. ASSUME NEW p \in Posts, cleanup_workspace(p) PROVE HostType'
  <2>1. workspace' \in [Tasks -> BOOLEAN] /\ policy' \in [Tasks -> BOOLEAN]
    BY <1>5, <1>h, <1>t DEF cleanup_workspace
  <2>2. cleanupFailed' \in BOOLEAN /\ container' = container /\ filler' = filler
    BY <1>5, <1>h DEF cleanup_workspace
  <2> QED BY <2>1, <2>2, <1>h DEF HostType
<1>6. ASSUME NEW p \in Posts, ThreadEnds(p) \/ FillerEnds(p) PROVE HostType'
  <2>1. CASE ThreadEnds(p)
    BY <2>1, <1>h DEF HostType, ThreadEnds
  <2>2. CASE FillerEnds(p)
    BY <2>2, <1>h, <1>t DEF HostType, FillerEnds
  <2> QED BY <1>6, <2>1, <2>2
<1>7. CASE _worker_loop
  BY <1>7, <1>u DEF _worker_loop
<1>8. ASSUME NEW t \in Tasks, ApiStep(t) PROVE HostType'
  BY <1>8, <1>u DEF ApiStep, AbortCheck, AbortStatus, AbortEvent, DeleteCheck, delete_task
<1>9. CASE Shutdown
  <2>1. cleanupFailed' \in BOOLEAN /\ UNCHANGED <<container, workspace, policy>>
    BY <1>9 DEF Shutdown
  <2>2. filler' \in [Posts -> {"none", "busy", "ended"}]
    BY <1>9, <1>h DEF Shutdown
  <2> QED BY <2>1, <2>2, <1>h DEF HostType
<1>10. CASE Crash \/ Restart \/ reap_orphaned_containers
  BY <1>10, <1>h DEF HostType, Crash, Restart, NewProcess, reap_orphaned_containers
<1>11. CASE MarkDone \/ Serve
  BY <1>11, <1>u DEF MarkDone, Serve
<1>12. ASSUME NEW t \in Tasks, MarkReaped(t) \/ recover_orphaned_tasks(t) PROVE HostType'
  BY <1>12, <1>u DEF MarkReaped, recover_orphaned_tasks, MarkFailed
<1> QED BY <1>1, <1>2, <1>3, <1>4, <1>5, <1>6, <1>7, <1>8, <1>9, <1>10, <1>11, <1>12
        DEF Next, StartStep, RunStep

LEMMA HandlerTypeStep ==
  ASSUME Types, Next
  PROVE  HandlerType'
<1>h. handler \in [Posts -> BOOLEAN] /\ late \in [Tasks -> BOOLEAN]
  BY DEF Types, HandlerType
<1>u. ASSUME UNCHANGED handlerVars PROVE HandlerType'
  BY <1>u, <1>h DEF HandlerType, handlerVars
<1>1. ASSUME NEW p \in Posts, PostStep(p) PROVE HandlerType'
  BY <1>1, <1>u DEF PostStep, create_task, insert_task, enqueue_task, PutQueue
<1>2. ASSUME NEW p \in Posts,
             \/ RunStep(p) \/ DriverEnds(p) \/ ContainerExits(p) \/ ThreadEnds(p)
             \/ FillerEnds(p)
      PROVE  HandlerType'
  BY <1>2, <1>u
    DEF RunStep, AcquireSlot, _load_request, prepare_workspace, FillWorkspace,
        set_task_policy,
        start_container, wait_for_opencode_health, DriverEnds, CompleteStatus,
        CompleteEvent, stop_container, remove_container, cleanup_workspace,
        WriteTerminalStatus, WriteTerminalEvent, ReleaseSlot, ContainerExits, ThreadEnds,
        FillerEnds
<1>3. ASSUME NEW p \in Posts, DriverWrites(p) PROVE HandlerType'
  BY <1>3, <1>h DEF HandlerType, DriverWrites
<1>4. ASSUME NEW p \in Posts, HandlerWrites(p) PROVE HandlerType'
  <2>1. TaskOf[p] \in Tasks
    BY LifecycleAssumption
  <2>2. handler' \in [Posts -> BOOLEAN]
    BY <1>4, <1>h DEF HandlerWrites
  <2>3. late' \in [Tasks -> BOOLEAN]
    BY <1>4, <1>h, <2>1 DEF HandlerWrites
  <2> QED BY <2>2, <2>3 DEF HandlerType
<1>5. CASE _worker_loop
  BY <1>5, <1>u DEF _worker_loop
<1>6. ASSUME NEW t \in Tasks, ApiStep(t) PROVE HandlerType'
  BY <1>6, <1>u DEF ApiStep, AbortCheck, AbortStatus, AbortEvent, DeleteCheck, delete_task
<1>7. CASE Shutdown \/ Crash \/ Restart
  BY <1>7, <1>h DEF HandlerType, Shutdown, Crash, Restart, NewProcess
<1>8. CASE reap_orphaned_containers \/ MarkDone \/ Serve
  BY <1>8, <1>u DEF reap_orphaned_containers, MarkDone, Serve
<1>9. ASSUME NEW t \in Tasks, MarkReaped(t) \/ recover_orphaned_tasks(t) PROVE HandlerType'
  BY <1>9, <1>u DEF MarkReaped, recover_orphaned_tasks, MarkFailed
<1> QED BY <1>1, <1>2, <1>3, <1>4, <1>5, <1>6, <1>7, <1>8, <1>9 DEF Next, StartStep

LEMMA ApiTypeStep ==
  ASSUME Types, Next
  PROVE  ApiType'
<1>a. /\ abortPc \in [Tasks -> {"idle", "checked", "updated", "done"}]
      /\ deletePc \in [Tasks -> {"idle", "checked", "done"}]
  BY DEF Types, ApiType
<1>u. ASSUME UNCHANGED apiVars PROVE ApiType'
  BY <1>u, <1>a DEF ApiType, apiVars
<1>1. ASSUME NEW p \in Posts, PostStep(p) PROVE ApiType'
  BY <1>1, <1>u DEF PostStep, create_task, insert_task, enqueue_task, PutQueue
<1>2. ASSUME NEW p \in Posts,
             \/ RunStep(p) \/ DriverEnds(p) \/ DriverWrites(p) \/ HandlerWrites(p)
             \/ ContainerExits(p) \/ ThreadEnds(p) \/ FillerEnds(p)
      PROVE  ApiType'
  BY <1>2, <1>u
    DEF RunStep, AcquireSlot, _load_request, prepare_workspace, FillWorkspace,
        set_task_policy,
        start_container, wait_for_opencode_health, DriverEnds, CompleteStatus,
        CompleteEvent, stop_container, remove_container, cleanup_workspace,
        WriteTerminalStatus, WriteTerminalEvent, ReleaseSlot, DriverWrites,
        HandlerWrites, ContainerExits, ThreadEnds, FillerEnds
<1>3. CASE _worker_loop \/ Shutdown \/ Restart \/ reap_orphaned_containers \/ MarkDone \/ Serve
  BY <1>3, <1>u
    DEF _worker_loop, Shutdown, Restart, reap_orphaned_containers, MarkDone, Serve
<1>4. ASSUME NEW t \in Tasks, ApiStep(t) PROVE ApiType'
  BY <1>4, <1>a
    DEF ApiType, ApiStep, AbortCheck, AbortStatus, AbortEvent, DeleteCheck, delete_task
<1>5. CASE Crash
  BY <1>5, <1>a DEF ApiType, Crash
<1>6. ASSUME NEW t \in Tasks, MarkReaped(t) \/ recover_orphaned_tasks(t) PROVE ApiType'
  BY <1>6, <1>u DEF MarkReaped, recover_orphaned_tasks, MarkFailed
<1> QED BY <1>1, <1>2, <1>3, <1>4, <1>5, <1>6 DEF Next, StartStep

LEMMA StartTypeStep ==
  ASSUME Types, Next
  PROVE  StartType'
<1>s. StartType /\ RunType
  BY DEF Types
<1>u. ASSUME UNCHANGED startVars PROVE StartType'
  BY <1>u, <1>s DEF StartType, startVars
<1>1. ASSUME NEW p \in Posts, PostStep(p) PROVE StartType'
  BY <1>1, <1>u DEF PostStep, create_task, insert_task, enqueue_task, PutQueue
<1>2. ASSUME NEW p \in Posts,
             \/ RunStep(p) \/ DriverEnds(p) \/ DriverWrites(p) \/ HandlerWrites(p)
             \/ ContainerExits(p) \/ FillerEnds(p)
      PROVE  StartType'
  BY <1>2, <1>u
    DEF RunStep, AcquireSlot, _load_request, prepare_workspace, FillWorkspace,
        set_task_policy,
        start_container, wait_for_opencode_health, DriverEnds, CompleteStatus,
        CompleteEvent, stop_container, remove_container, cleanup_workspace,
        WriteTerminalStatus, WriteTerminalEvent, ReleaseSlot, DriverWrites,
        HandlerWrites, ContainerExits, FillerEnds
<1>3. ASSUME NEW p \in Posts, ThreadEnds(p) PROVE StartType'
  BY <1>3, <1>s DEF StartType, ThreadEnds
<1>4. CASE _worker_loop
  BY <1>4, <1>u DEF _worker_loop
<1>5. ASSUME NEW t \in Tasks, ApiStep(t) PROVE StartType'
  BY <1>5, <1>u DEF ApiStep, AbortCheck, AbortStatus, AbortEvent, DeleteCheck, delete_task
<1>6. CASE Shutdown
  <2>1. stops' \in 0..MaxRestart /\ crashes' \in 0..MaxCrash
    BY <1>6, <1>s, LifecycleAssumption DEF StartType, Shutdown
  <2>2. thread' \in [Posts -> {"none", "start", "stop", "remove"}]
    BY <1>6 DEF Shutdown
  <2> QED BY <1>6, <1>s, <2>1, <2>2 DEF StartType, Shutdown
<1>7. CASE Crash \/ Restart
  BY <1>7, <1>s, LifecycleAssumption DEF StartType, Crash, Restart, NewProcess
<1>8. CASE reap_orphaned_containers \/ MarkDone \/ Serve
  BY <1>8, <1>s DEF StartType, reap_orphaned_containers, MarkDone, Serve
<1>9. ASSUME NEW t \in Tasks, MarkReaped(t) \/ recover_orphaned_tasks(t) PROVE StartType'
  BY <1>9, <1>s DEF StartType, MarkReaped, recover_orphaned_tasks, MarkFailed
<1> QED BY <1>1, <1>2, <1>3, <1>4, <1>5, <1>6, <1>7, <1>8, <1>9 DEF Next, StartStep

LEMMA TypesStep ==
  ASSUME Types, OutcomeFits, QueueFits, Next
  PROVE  Types'
BY RowStep, RunTypeStep, QueueStep, HostTypeStep, HandlerTypeStep, ApiTypeStep,
   StartTypeStep DEF Types

LEMMA TypesAreTypeOK == Types <=> TypeOK
BY DEF Types, TypeOK, RowType, RunType, QueueType, HostType, HandlerType, ApiType, StartType

(***************************************************************************)
(* Runs and slots                                                          *)
(***************************************************************************)
LEMMA HeadWaits ==
  ASSUME Types, QueueFits, queue # <<>>
  PROVE  Head(queue) \in Posts /\ pc[Head(queue)] = "put"
<1>1. queue \in Seq(Posts) /\ Len(queue) \in Nat \ {0}
  BY DEF Types, QueueType
<1>2. Head(queue) = queue[1] /\ 1 \in 1..Len(queue) /\ queue[1] \in Posts
  BY <1>1
<1> QED BY <1>2 DEF QueueFits

LEMMA OutcomeStep ==
  ASSUME Types, OutcomeFits, QueueFits, Next
  PROVE  OutcomeFits'
<1>r. /\ pc \in [Posts -> PCs]
      /\ outcome \in [Posts -> TERMINAL_STATUSES \cup {"none", "cancelled"}]
  BY DEF Types, RunType
<1>n. "none" \notin TERMINAL_STATUSES /\ "cancelled" \notin TERMINAL_STATUSES
  BY DEF TERMINAL_STATUSES
<1>u. ASSUME UNCHANGED <<pc, outcome>> PROVE OutcomeFits'
  BY <1>u DEF OutcomeFits
<1>m. ASSUME NEW p \in Posts, NEW l, pc' = [pc EXCEPT ![p] = l], UNCHANGED outcome,
             l \in Cleaning => outcome[p] # "none",
             l \in {"fail", "failing"} => outcome[p] \in TERMINAL_STATUSES
      PROVE  OutcomeFits'
  BY <1>m, <1>r DEF OutcomeFits
<1>x. ASSUME NEW p \in Posts, NEW o \in TERMINAL_STATUSES, Raise(p, o) PROVE OutcomeFits'
  BY <1>x, <1>r, <1>n DEF OutcomeFits, Raise, Goto
<1>1. ASSUME NEW p \in Posts, PostStep(p) PROVE OutcomeFits'
  BY <1>1, <1>m
    DEF PostStep, create_task, insert_task, enqueue_task, PutQueue, Goto, Cleaning
<1>2. ASSUME NEW p \in Posts, _load_request(p) PROVE OutcomeFits'
  <2>1. CASE outcome' = [outcome EXCEPT ![p] = "failed"] /\ Goto(p, "fail")
    BY <2>1, <1>r, StatusNames DEF Goto, OutcomeFits, Cleaning
  <2> QED BY <1>2, <2>1, <1>m, <1>x, StatusNames DEF _load_request, Goto, Cleaning
<1>3. ASSUME NEW p \in Posts,
             \/ AcquireSlot(p) \/ prepare_workspace(p) \/ FillWorkspace(p) \/ set_task_policy(p)
             \/ start_container(p) \/ wait_for_opencode_health(p) \/ DriverEnds(p)
             \/ CompleteStatus(p) \/ CompleteEvent(p)
      PROVE  OutcomeFits'
  BY <1>3, <1>m, <1>x, StatusNames
    DEF AcquireSlot, prepare_workspace, FillWorkspace, set_task_policy, start_container,
        wait_for_opencode_health, DriverEnds, CompleteStatus, CompleteEvent, Goto, Cleaning
<1>4. ASSUME NEW p \in Posts, stop_container(p) \/ remove_container(p) PROVE OutcomeFits'
  BY <1>4, <1>m DEF stop_container, remove_container, Goto, OutcomeFits, Cleaning
<1>5. ASSUME NEW p \in Posts, cleanup_workspace(p) PROVE OutcomeFits'
  <2>1. /\ pc[p] = "wipe" /\ outcome[p] # "none"
        /\ pc' = [pc EXCEPT ![p] = AfterCleanup(p)] /\ UNCHANGED outcome
    BY <1>5 DEF cleanup_workspace, Goto, OutcomeFits, Cleaning
  <2>2. /\ AfterCleanup(p) \notin Cleaning \cup {"failing"}
        /\ AfterCleanup(p) = "fail" => outcome[p] \in TERMINAL_STATUSES
    BY <2>1, <1>r DEF AfterCleanup, Cleaning
  <2> QED BY <2>1, <2>2, <1>m
<1>6. ASSUME NEW p \in Posts,
             WriteTerminalStatus(p) \/ WriteTerminalEvent(p) \/ ReleaseSlot(p)
      PROVE  OutcomeFits'
  BY <1>6, <1>m
    DEF WriteTerminalStatus, WriteTerminalEvent, ReleaseSlot, Goto, OutcomeFits, Cleaning
<1>7. ASSUME NEW p \in Posts,
             \/ DriverWrites(p) \/ HandlerWrites(p) \/ ContainerExits(p) \/ ThreadEnds(p)
             \/ FillerEnds(p)
      PROVE  OutcomeFits'
  BY <1>7, <1>u DEF DriverWrites, HandlerWrites, ContainerExits, ThreadEnds, FillerEnds,
        runVars
<1>8. CASE _worker_loop
  BY <1>8, <1>m, HeadWaits DEF _worker_loop, Goto, Cleaning
<1>9. ASSUME NEW t \in Tasks, ApiStep(t) PROVE OutcomeFits'
  BY <1>9, <1>u
    DEF ApiStep, AbortCheck, AbortStatus, AbortEvent, DeleteCheck, delete_task, runVars
<1>10. CASE Shutdown
  <2> PICK deaf \in SUBSET {p \in Posts : pc[p] = "drive"} :
         /\ pc' = [p \in Posts |-> IF p \in deaf THEN pc[p] ELSE CancelRun(p)]
         /\ outcome' = [p \in Posts |->
              IF pc[p] \in InTry /\ p \notin deaf THEN "cancelled" ELSE outcome[p]]
    BY <1>10 DEF Shutdown
  <2>1. ASSUME NEW p \in Posts, p \in deaf
        PROVE  pc'[p] \notin Cleaning \cup {"fail", "failing"}
    BY <2>1 DEF Cleaning
  <2>2. ASSUME NEW p \in Posts, p \notin deaf
        PROVE  /\ pc'[p] \notin {"fail", "failing"}
               /\ pc'[p] \in Cleaning => outcome'[p] = "cancelled"
    BY <2>2 DEF CancelRun, InTry, Cleaning
  <2> QED BY <2>1, <2>2 DEF OutcomeFits
<1>11. CASE Crash
  BY <1>11 DEF Crash, OutcomeFits, Cleaning
<1>12. CASE Restart \/ reap_orphaned_containers \/ MarkDone \/ Serve
  BY <1>12, <1>u DEF Restart, NewProcess, reap_orphaned_containers, MarkDone, Serve, runVars
<1>13. ASSUME NEW t \in Tasks, MarkReaped(t) \/ recover_orphaned_tasks(t) PROVE OutcomeFits'
  BY <1>13, <1>u DEF MarkReaped, recover_orphaned_tasks, MarkFailed, runVars
<1> QED BY <1>1, <1>2, <1>3, <1>4, <1>5, <1>6, <1>7, <1>8, <1>9, <1>10, <1>11, <1>12, <1>13
        DEF Next, StartStep, RunStep

LEMMA SlotsStep ==
  ASSUME Types, QueueFits, SlotsBounded, Next
  PROVE  SlotsBounded'
<1>r. pc \in [Posts -> PCs]
  BY DEF Types, RunType
<1>s. ASSUME Slots' \subseteq Slots PROVE SlotsBounded'
  <2>1. IsFiniteSet(Slots') /\ Cardinality(Slots') <= Cardinality(Slots)
    BY <1>s, FS_Subset DEF SlotsBounded
  <2>2. Cardinality(Slots) \in Nat /\ Cardinality(Slots') \in Nat
    BY <2>1, FS_CardinalityType DEF SlotsBounded
  <2> QED BY <2>1, <2>2, LifecycleAssumption DEF SlotsBounded
<1>u. ASSUME UNCHANGED pc PROVE SlotsBounded'
  BY <1>u, <1>s DEF Slots
<1>m. ASSUME NEW p \in Posts, NEW l, pc' = [pc EXCEPT ![p] = l],
             l \in InSlot => pc[p] \in InSlot
      PROVE  SlotsBounded'
  BY <1>m, <1>r, <1>s DEF Slots
<1>1. ASSUME NEW p \in Posts, PostStep(p) PROVE SlotsBounded'
  <2>1. \E l \in {"checked", "refused", "inserted", "queued", "put"} :
          pc' = [pc EXCEPT ![p] = l]
    BY <1>1 DEF PostStep, create_task, insert_task, enqueue_task, PutQueue, Goto
  <2>2. {"checked", "refused", "inserted", "queued", "put"} \cap InSlot = {}
    BY DEF InSlot, InTry, Cleaning
  <2> QED BY <1>m, <2>1, <2>2
<1>2. ASSUME NEW p \in Posts, AcquireSlot(p) PROVE SlotsBounded'
  <2>1. pc' = [pc EXCEPT ![p] = "load"] /\ pc[p] = "dispatched" /\ Cardinality(Slots) < MaxSlots
    BY <1>2 DEF AcquireSlot, Goto, SlotFree, Slots
  <2>2. Slots' = Slots \cup {p} /\ p \notin Slots
    BY <2>1, <1>r DEF Slots, InSlot, InTry, Cleaning
  <2>3. IsFiniteSet(Slots') /\ Cardinality(Slots') = Cardinality(Slots) + 1
    BY <2>2, FS_AddElement DEF SlotsBounded
  <2>4. Cardinality(Slots) \in Nat
    BY FS_CardinalityType DEF SlotsBounded
  <2> QED BY <2>1, <2>3, <2>4, LifecycleAssumption DEF SlotsBounded
<1>3. ASSUME NEW p \in Posts, RunStep(p) \/ DriverEnds(p), ~AcquireSlot(p) PROVE SlotsBounded'
  <2>1. pc[p] \in InSlot /\ \E l \in PCs : pc' = [pc EXCEPT ![p] = l]
    BY <1>3, PcNames
      DEF RunStep, _load_request, prepare_workspace, FillWorkspace, set_task_policy,
          start_container, wait_for_opencode_health, DriverEnds, CompleteStatus,
          CompleteEvent, stop_container, remove_container, cleanup_workspace,
          WriteTerminalStatus, WriteTerminalEvent, ReleaseSlot, Raise, Goto,
          InSlot, InTry, Cleaning
  <2> QED BY <2>1, <1>m
<1>4. ASSUME NEW p \in Posts,
             \/ DriverWrites(p) \/ HandlerWrites(p) \/ ContainerExits(p) \/ ThreadEnds(p)
             \/ FillerEnds(p)
      PROVE  SlotsBounded'
  BY <1>4, <1>u DEF DriverWrites, HandlerWrites, ContainerExits, ThreadEnds, FillerEnds,
        runVars
<1>5. CASE _worker_loop
  BY <1>5, <1>m, HeadWaits DEF _worker_loop, Goto, InSlot, InTry, Cleaning
<1>6. ASSUME NEW t \in Tasks, ApiStep(t) PROVE SlotsBounded'
  BY <1>6, <1>u
    DEF ApiStep, AbortCheck, AbortStatus, AbortEvent, DeleteCheck, delete_task, runVars
<1>7. CASE Shutdown
  <2> PICK deaf \in SUBSET {p \in Posts : pc[p] = "drive"} :
         pc' = [p \in Posts |-> IF p \in deaf THEN pc[p] ELSE CancelRun(p)]
    BY <1>7 DEF Shutdown
  <2>1. \A p \in Posts : CancelRun(p) \in InSlot => pc[p] \in InSlot
    BY DEF CancelRun, InSlot, InTry, Cleaning
  <2> QED BY <2>1, <1>s DEF Slots
<1>8. CASE Crash
  BY <1>8, <1>s DEF Crash, Slots, InSlot, InTry, Cleaning
<1>9. CASE Restart \/ reap_orphaned_containers \/ MarkDone \/ Serve
  BY <1>9, <1>u DEF Restart, NewProcess, reap_orphaned_containers, MarkDone, Serve, runVars
<1>10. ASSUME NEW t \in Tasks, MarkReaped(t) \/ recover_orphaned_tasks(t) PROVE SlotsBounded'
  BY <1>10, <1>u DEF MarkReaped, recover_orphaned_tasks, MarkFailed, runVars
<1> QED BY <1>1, <1>2, <1>3, <1>4, <1>5, <1>6, <1>7, <1>8, <1>9, <1>10 DEF Next, StartStep

(***************************************************************************)
(* What a run holds on the host                                            *)
(***************************************************************************)
LEMMA ContainersStep ==
  ASSUME Types, QueueFits, ContainersHeld, ThreadsCounted, Next
  PROVE  ContainersHeld' /\ ThreadsCounted'
<1>r. /\ pc \in [Posts -> PCs] /\ container \in [Posts -> {"none", "created", "running", "exited"}]
      /\ thread \in [Posts -> {"none", "start", "stop", "remove"}]
  BY DEF Types, RunType, HostType, StartType
<1>u. ASSUME UNCHANGED <<crashes, cleanupFailed, thread>>, UNCHANGED <<container, pc>>
      PROVE  ContainersHeld' /\ ThreadsCounted'
  BY <1>u DEF ContainersHeld, ThreadsCounted
<1>m. ASSUME NEW p \in Posts, NEW l, pc' = [pc EXCEPT ![p] = l],
             UNCHANGED <<crashes, cleanupFailed, thread, container>>,
             pc[p] \in HoldsContainer => l \in HoldsContainer
      PROVE  ContainersHeld' /\ ThreadsCounted'
  BY <1>m, <1>r DEF ContainersHeld, ThreadsCounted
<1>f. ASSUME cleanupFailed' PROVE ContainersHeld' /\ ThreadsCounted'
  BY <1>f DEF ContainersHeld, ThreadsCounted
<1>1. ASSUME NEW p \in Posts, PostStep(p) PROVE ContainersHeld' /\ ThreadsCounted'
  BY <1>1, <1>m
    DEF PostStep, create_task, insert_task, enqueue_task, PutQueue, Goto, HoldsContainer,
        hostVars, startVars
<1>2. ASSUME NEW p \in Posts,
             \/ AcquireSlot(p) \/ _load_request(p) \/ prepare_workspace(p) \/ FillWorkspace(p) \/ set_task_policy(p)
             \/ wait_for_opencode_health(p) \/ DriverEnds(p) \/ CompleteStatus(p)
             \/ CompleteEvent(p) \/ WriteTerminalStatus(p) \/ WriteTerminalEvent(p)
             \/ ReleaseSlot(p)
      PROVE  ContainersHeld' /\ ThreadsCounted'
  BY <1>2, <1>m
    DEF AcquireSlot, _load_request, prepare_workspace, FillWorkspace, set_task_policy,
        wait_for_opencode_health, DriverEnds, CompleteStatus, CompleteEvent,
        WriteTerminalStatus, WriteTerminalEvent, ReleaseSlot, Raise, Goto,
        HoldsContainer, hostVars, startVars
<1>3. ASSUME NEW p \in Posts, start_container(p) PROVE ContainersHeld' /\ ThreadsCounted'
  <2>1. CASE Raise(p, "failed") /\ UNCHANGED container
    BY <1>3, <2>1, <1>m DEF start_container, Raise, Goto, HoldsContainer, startVars
  <2>2. CASE \E s \in {"created", "running"}, l \in {"stop", "health"} :
               container' = [container EXCEPT ![p] = s] /\ Goto(p, l)
    <3>1. UNCHANGED <<crashes, cleanupFailed, thread>>
      BY <1>3 DEF start_container, startVars
    <3> QED BY <2>2, <3>1, <1>r DEF ContainersHeld, ThreadsCounted, Goto, HoldsContainer
  <2> QED BY <1>3, <2>1, <2>2 DEF start_container, Raise
<1>4. ASSUME NEW p \in Posts, stop_container(p) PROVE ContainersHeld' /\ ThreadsCounted'
  <2>1. CASE cleanupFailed'
    BY <2>1, <1>f
  <2>2. CASE ~cleanupFailed'
    <3>1. /\ pc[p] = "stop" /\ pc' = [pc EXCEPT ![p] = "remove"]
          /\ container' = [q \in Posts |->
               IF TaskOf[q] = TaskOf[p] /\ container[q] = "running" THEN "exited"
               ELSE container[q]]
          /\ UNCHANGED <<crashes, cleanupFailed, thread>>
      BY <1>4, <2>2 DEF stop_container, Goto, startVars
    <3>2. \A q \in Posts : container'[q] # "none" => container[q] # "none"
      BY <3>1, <1>r
    <3> QED BY <3>1, <3>2, <1>r DEF ContainersHeld, ThreadsCounted, HoldsContainer
  <2> QED BY <2>1, <2>2
<1>5. ASSUME NEW p \in Posts, remove_container(p) PROVE ContainersHeld' /\ ThreadsCounted'
  <2>1. CASE cleanupFailed'
    BY <2>1, <1>f
  <2>2. CASE ~cleanupFailed'
    <3>1. /\ pc[p] = "remove" /\ pc' = [pc EXCEPT ![p] = "wipe"]
          /\ container' = [q \in Posts |->
               IF TaskOf[q] = TaskOf[p] THEN "none" ELSE container[q]]
          /\ UNCHANGED <<crashes, cleanupFailed, thread>>
      BY <1>5, <2>2 DEF remove_container, Goto, startVars
    <3>2. container'[p] = "none" /\ \A q \in Posts : container'[q] # "none" => container[q] # "none"
      BY <3>1, <1>r
    <3> QED BY <3>1, <3>2, <1>r DEF ContainersHeld, ThreadsCounted, HoldsContainer
  <2> QED BY <2>1, <2>2
<1>6. ASSUME NEW p \in Posts, cleanup_workspace(p) PROVE ContainersHeld' /\ ThreadsCounted'
  <2>1. CASE cleanupFailed'
    BY <2>1, <1>f
  <2>2. CASE ~cleanupFailed'
    <3>1. /\ pc[p] = "wipe" /\ pc' = [pc EXCEPT ![p] = AfterCleanup(p)]
          /\ UNCHANGED <<crashes, cleanupFailed, thread, container>>
      BY <1>6, <2>2 DEF cleanup_workspace, Goto, startVars
    <3> QED BY <3>1, <1>m DEF HoldsContainer
  <2> QED BY <2>1, <2>2
<1>7. ASSUME NEW p \in Posts, ContainerExits(p) PROVE ContainersHeld' /\ ThreadsCounted'
  BY <1>7, <1>r DEF ContainersHeld, ThreadsCounted, ContainerExits, runVars, startVars
<1>8. ASSUME NEW p \in Posts, ThreadEnds(p) PROVE ContainersHeld' /\ ThreadsCounted'
  <2>1. /\ thread' = [thread EXCEPT ![p] = "none"]
        /\ UNCHANGED <<crashes, cleanupFailed, pc>>
    BY <1>8 DEF ThreadEnds, runVars
  <2>2. ThreadsCounted'
    BY <2>1, <1>r DEF ThreadsCounted
  <2>3. thread[p] = "start" \/ \A q \in Posts : container'[q] # "none" => container[q] # "none"
    BY <1>8, <1>r DEF ThreadEnds
  <2> QED BY <2>1, <2>2, <2>3 DEF ThreadsCounted, ContainersHeld
<1>9. ASSUME NEW p \in Posts, DriverWrites(p) \/ HandlerWrites(p) \/ FillerEnds(p)
      PROVE  ContainersHeld' /\ ThreadsCounted'
  BY <1>9, <1>u DEF DriverWrites, HandlerWrites, FillerEnds, runVars, hostVars, startVars
<1>10. CASE _worker_loop
  BY <1>10, <1>m, HeadWaits DEF _worker_loop, Goto, HoldsContainer, hostVars, startVars
<1>11. ASSUME NEW t \in Tasks, ApiStep(t) PROVE ContainersHeld' /\ ThreadsCounted'
  BY <1>11, <1>u
    DEF ApiStep, AbortCheck, AbortStatus, AbortEvent, DeleteCheck, delete_task, runVars,
        hostVars, startVars
<1>12. CASE Shutdown
  <2>1. CASE cleanupFailed'
    BY <2>1, <1>f
  <2>2. CASE ~cleanupFailed'
    <3> PICK deaf \in SUBSET {p \in Posts : pc[p] = "drive"} :
           pc' = [p \in Posts |-> IF p \in deaf THEN pc[p] ELSE CancelRun(p)]
      BY <1>12 DEF Shutdown
    <3>1. /\ ~cleanupFailed /\ \A p \in Posts : pc[p] \notin Cleaning \cup {"start"}
          /\ UNCHANGED <<crashes, container>>
          /\ thread' = [p \in Posts |->
                          IF pc[p] \in {"start", "stop", "remove"} THEN pc[p] ELSE "none"]
      BY <1>12, <2>2 DEF Shutdown
    <3>2. \A p \in Posts : pc[p] \in HoldsContainer => CancelRun(p) = "stop"
      BY <3>1 DEF HoldsContainer, CancelRun, InTry, Cleaning
    <3>3. \A p \in Posts : pc[p] \in HoldsContainer => pc'[p] \in HoldsContainer
      BY <3>2 DEF HoldsContainer
    <3> QED BY <3>1, <3>3 DEF ContainersHeld, ThreadsCounted
  <2> QED BY <2>1, <2>2
<1>13. CASE Crash
  BY <1>13 DEF Crash, NewProcess, ContainersHeld, ThreadsCounted, Types, StartType
<1>14. CASE Restart
  BY <1>14 DEF Restart, NewProcess, ContainersHeld, ThreadsCounted
<1>15. CASE reap_orphaned_containers
  <2>1. \A p \in Posts : container'[p] # "none" => container[p] # "none"
    BY <1>15 DEF reap_orphaned_containers
  <2> QED BY <1>15, <2>1
    DEF reap_orphaned_containers, ContainersHeld, ThreadsCounted, runVars
<1>16. CASE MarkDone \/ Serve
  BY <1>16, <1>u DEF MarkDone, Serve, runVars, hostVars
<1>17. ASSUME NEW t \in Tasks, MarkReaped(t) \/ recover_orphaned_tasks(t)
       PROVE  ContainersHeld' /\ ThreadsCounted'
  BY <1>17, <1>u DEF MarkReaped, recover_orphaned_tasks, MarkFailed, runVars, hostVars
<1> QED BY <1>1, <1>2, <1>3, <1>4, <1>5, <1>6, <1>7, <1>8, <1>9, <1>10, <1>11, <1>12, <1>13,
           <1>14, <1>15, <1>16, <1>17 DEF Next, StartStep, RunStep

\* What has outlived its coroutine stays on record.
LEMMA FillerStays ==
  ASSUME Types, Next, NEW p \in Posts, filler[p] # "none"
  PROVE  filler'[p] # "none"
<1>r. filler \in [Posts -> {"none", "busy", "ended"}]
  BY DEF Types, HostType
<1>1. ASSUME NEW q \in Posts, PostStep(q) PROVE UNCHANGED filler
  BY <1>1 DEF PostStep, create_task, insert_task, enqueue_task, PutQueue, hostVars
<1>2. ASSUME NEW q \in Posts, RunStep(q) \/ DriverEnds(q) PROVE filler'[p] # "none"
  <2>1. filler' = filler \/ filler' = [filler EXCEPT ![q] = "busy"]
    BY <1>2
      DEF RunStep, AcquireSlot, _load_request, prepare_workspace, FillWorkspace,
          set_task_policy, start_container, wait_for_opencode_health, DriverEnds,
          CompleteStatus, CompleteEvent, stop_container, remove_container,
          cleanup_workspace, WriteTerminalStatus, WriteTerminalEvent, ReleaseSlot, hostVars
  <2> QED BY <2>1, <1>r
<1>3. ASSUME NEW q \in Posts,
             DriverWrites(q) \/ HandlerWrites(q) \/ ContainerExits(q) \/ ThreadEnds(q)
      PROVE  UNCHANGED filler
  BY <1>3 DEF DriverWrites, HandlerWrites, ContainerExits, ThreadEnds, hostVars
<1>4. ASSUME NEW q \in Posts, FillerEnds(q) PROVE filler'[p] # "none"
  BY <1>4, <1>r DEF FillerEnds
<1>5. CASE Shutdown \/ Crash \/ Restart
  BY <1>5 DEF Shutdown, Crash, Restart, NewProcess
<1>6. CASE _worker_loop \/ reap_orphaned_containers \/ MarkDone \/ Serve
  BY <1>6 DEF _worker_loop, reap_orphaned_containers, MarkDone, Serve, hostVars
<1>7. ASSUME NEW t \in Tasks, ApiStep(t) \/ MarkReaped(t) \/ recover_orphaned_tasks(t)
      PROVE  UNCHANGED filler
  BY <1>7
    DEF ApiStep, AbortCheck, AbortStatus, AbortEvent, DeleteCheck, delete_task, MarkReaped,
        recover_orphaned_tasks, MarkFailed, hostVars
<1> QED BY <1>1, <1>2, <1>3, <1>4, <1>5, <1>6, <1>7 DEF Next, StartStep

LEMMA HostStep ==
  ASSUME Types, QueueFits, WorkspacesHeld, PoliciesHeld, Next
  PROVE  WorkspacesHeld' /\ PoliciesHeld'
<1>r. /\ pc \in [Posts -> PCs] /\ workspace \in [Tasks -> BOOLEAN] /\ policy \in [Tasks -> BOOLEAN]
      /\ filler \in [Posts -> {"none", "busy", "ended"}]
      /\ \A p \in Posts : TaskOf[p] \in Tasks
  BY LifecycleAssumption DEF Types, RunType, HostType
<1>f. \A t \in Tasks : NotRefilled(t)' => NotRefilled(t)
  <2>1. \A p \in Posts : filler[p] # "none" => filler'[p] # "none"
    BY FillerStays
  <2> QED BY <2>1 DEF NotRefilled, PostsOf
<1>u. ASSUME UNCHANGED <<crashes, phase, pc, cleanupFailed, workspace, policy>>
      PROVE  WorkspacesHeld' /\ PoliciesHeld'
  BY <1>u, <1>f DEF WorkspacesHeld, PoliciesHeld
\* A step that keeps what its run holds, or takes it.
<1>m. ASSUME NEW p \in Posts, NEW l, pc' = [pc EXCEPT ![p] = l],
             UNCHANGED <<crashes, phase>>,
             cleanupFailed => cleanupFailed',
             pc[p] \in HoldsWorkspace => l \in HoldsWorkspace,
             pc[p] \in HoldsPolicy => l \in HoldsPolicy,
             \/ workspace' = workspace
             \/ workspace' = [workspace EXCEPT ![TaskOf[p]] = TRUE] /\ l \in HoldsWorkspace,
             \/ policy' = policy
             \/ policy' = [policy EXCEPT ![TaskOf[p]] = TRUE] /\ l \in HoldsPolicy
      PROVE  WorkspacesHeld' /\ PoliciesHeld'
  <2>1. \A q \in Posts : /\ pc[q] \in HoldsWorkspace => pc'[q] \in HoldsWorkspace
                         /\ pc[q] \in HoldsPolicy => pc'[q] \in HoldsPolicy
    BY <1>m, <1>r
  <2>2. p \in PostsOf(TaskOf[p]) /\ pc'[p] = l /\ \A t \in Tasks : PostsOf(t) \subseteq Posts
    BY <1>m, <1>r DEF PostsOf
  <2>3. ASSUME NEW t \in Tasks, workspace'[t], crashes' = 0, ~cleanupFailed', t \notin Local,
               NotRefilled(t)'
        PROVE  \E q \in PostsOf(t) : pc'[q] \in HoldsWorkspace
    <3>1. CASE workspace[t]
      BY <1>m, <1>f, <2>1, <2>2, <2>3, <3>1 DEF WorkspacesHeld
    <3>2. CASE ~workspace[t]
      <4>1. t = TaskOf[p] /\ l \in HoldsWorkspace
        BY <1>m, <1>r, <2>3, <3>2
      <4> QED BY <4>1, <2>2
    <3> QED BY <3>1, <3>2
  <2>4. ASSUME NEW t \in Tasks, policy'[t], phase' # "stopping"
        PROVE  \E q \in PostsOf(t) : pc'[q] \in HoldsPolicy
    <3>1. CASE policy[t]
      BY <1>m, <2>1, <2>2, <2>4, <3>1 DEF PoliciesHeld
    <3>2. CASE ~policy[t]
      <4>1. t = TaskOf[p] /\ l \in HoldsPolicy
        BY <1>m, <1>r, <2>4, <3>2
      <4> QED BY <4>1, <2>2
    <3> QED BY <3>1, <3>2
  <2> QED BY <2>3, <2>4 DEF WorkspacesHeld, PoliciesHeld, PostsOf
<1> USE DEF HoldsWorkspace, HoldsPolicy, HoldsContainer
<1>1. ASSUME NEW p \in Posts, PostStep(p) PROVE WorkspacesHeld' /\ PoliciesHeld'
  BY <1>1, <1>m
    DEF PostStep, create_task, insert_task, enqueue_task, PutQueue, Goto, hostVars,
        startVars
<1>2. ASSUME NEW p \in Posts,
             \/ AcquireSlot(p) \/ _load_request(p) \/ wait_for_opencode_health(p)
             \/ DriverEnds(p) \/ CompleteStatus(p) \/ CompleteEvent(p)
             \/ WriteTerminalStatus(p) \/ WriteTerminalEvent(p) \/ ReleaseSlot(p)
      PROVE  WorkspacesHeld' /\ PoliciesHeld'
  <2>1. UNCHANGED <<crashes, phase, cleanupFailed, workspace, policy>>
    BY <1>2
      DEF AcquireSlot, _load_request, wait_for_opencode_health, DriverEnds, CompleteStatus,
          CompleteEvent, WriteTerminalStatus, WriteTerminalEvent, ReleaseSlot, hostVars,
          startVars
  <2>2. \E l \in PCs : /\ pc' = [pc EXCEPT ![p] = l]
                       /\ pc[p] \in HoldsWorkspace => l \in HoldsPolicy
    BY <1>2, PcNames
      DEF AcquireSlot, _load_request, wait_for_opencode_health, DriverEnds, CompleteStatus,
          CompleteEvent, WriteTerminalStatus, WriteTerminalEvent, ReleaseSlot, Raise, Goto
  <2> QED BY <2>1, <2>2, <1>m
<1>3. ASSUME NEW p \in Posts, prepare_workspace(p) \/ FillWorkspace(p)
      PROVE  WorkspacesHeld' /\ PoliciesHeld'
  BY <1>3, <1>m DEF prepare_workspace, FillWorkspace, Raise, Goto, startVars
<1>4. ASSUME NEW p \in Posts, set_task_policy(p) PROVE WorkspacesHeld' /\ PoliciesHeld'
  BY <1>4, <1>m DEF set_task_policy, Raise, Goto, startVars
<1>5. ASSUME NEW p \in Posts, start_container(p) \/ stop_container(p) \/ remove_container(p)
      PROVE  WorkspacesHeld' /\ PoliciesHeld'
  BY <1>5, <1>m
    DEF start_container, stop_container, remove_container, Raise, Goto, startVars
<1>6. ASSUME NEW p \in Posts, cleanup_workspace(p) PROVE WorkspacesHeld' /\ PoliciesHeld'
  <2>1. /\ pc[p] = "wipe" /\ UNCHANGED <<crashes, phase>>
        /\ \A q \in Posts : q # p => pc'[q] = pc[q]
        /\ policy' = [policy EXCEPT ![TaskOf[p]] = FALSE]
        /\ \/ /\ workspace' = [workspace EXCEPT ![TaskOf[p]] = @ /\ TaskOf[p] \in Local]
              /\ UNCHANGED cleanupFailed
           \/ cleanupFailed'
    BY <1>6, <1>r DEF cleanup_workspace, Goto, startVars
  <2>2. ASSUME NEW t \in Tasks, workspace'[t], crashes' = 0, ~cleanupFailed', t \notin Local,
               NotRefilled(t)'
        PROVE  \E q \in PostsOf(t) : pc'[q] \in HoldsWorkspace
    <3>0. /\ workspace' = [workspace EXCEPT ![TaskOf[p]] = @ /\ TaskOf[p] \in Local]
          /\ UNCHANGED cleanupFailed
      BY <2>1, <2>2
    <3>1. t # TaskOf[p] /\ workspace[t] /\ ~cleanupFailed
      <4>1. CASE t = TaskOf[p]
        <5>1. workspace'[t] = (workspace[t] /\ t \in Local)
          BY <3>0, <4>1, <1>r
        <5> QED BY <5>1, <2>2
      <4>2. CASE t # TaskOf[p]
        <5>1. workspace'[t] = workspace[t]
          BY <3>0, <4>2, <1>r
        <5> QED BY <5>1, <4>2, <3>0, <2>2
      <4> QED BY <4>1, <4>2
    <3>2. PICK q \in PostsOf(t) : pc[q] \in HoldsWorkspace
      BY <1>f, <2>1, <2>2, <3>1 DEF WorkspacesHeld
    <3> QED BY <3>1, <3>2, <2>1 DEF PostsOf
  <2>3. ASSUME NEW t \in Tasks, policy'[t], phase' # "stopping"
        PROVE  \E q \in PostsOf(t) : pc'[q] \in HoldsPolicy
    <3>1. t # TaskOf[p] /\ policy[t]
      BY <2>1, <2>3, <1>r
    <3>2. PICK q \in PostsOf(t) : pc[q] \in HoldsPolicy
      BY <2>1, <2>3, <3>1 DEF PoliciesHeld
    <3> QED BY <3>1, <3>2, <2>1 DEF PostsOf
  <2> QED BY <2>2, <2>3 DEF WorkspacesHeld, PoliciesHeld, PostsOf
<1>7. ASSUME NEW p \in Posts,
             \/ DriverWrites(p) \/ HandlerWrites(p) \/ ContainerExits(p) \/ ThreadEnds(p)
             \/ FillerEnds(p)
      PROVE  WorkspacesHeld' /\ PoliciesHeld'
  <2>1. CASE FillerEnds(p)
    <3>1. /\ filler'[p] = "ended" /\ UNCHANGED <<crashes, phase, pc, cleanupFailed, policy>>
          /\ \A t \in Tasks : workspace'[t] => workspace[t] \/ t = TaskOf[p]
      BY <2>1, <1>r DEF FillerEnds, runVars, startVars
    <3>2. ~NotRefilled(TaskOf[p])'
      BY <3>1 DEF NotRefilled, PostsOf
    <3> QED BY <3>1, <3>2, <1>f DEF WorkspacesHeld, PoliciesHeld
  <2> QED BY <1>7, <2>1, <1>u
    DEF DriverWrites, HandlerWrites, ContainerExits, ThreadEnds, runVars, hostVars,
        startVars
<1>8. CASE _worker_loop
  BY <1>8, <1>m, HeadWaits DEF _worker_loop, Goto, hostVars, startVars
<1>9. ASSUME NEW t \in Tasks, ApiStep(t) PROVE WorkspacesHeld' /\ PoliciesHeld'
  BY <1>9, <1>u
    DEF ApiStep, AbortCheck, AbortStatus, AbortEvent, DeleteCheck, delete_task, runVars,
        hostVars, startVars
<1>10. CASE Shutdown
  <2>1. PoliciesHeld'
    BY <1>10 DEF Shutdown, PoliciesHeld
  <2>2. CASE cleanupFailed'
    BY <2>1, <2>2 DEF WorkspacesHeld
  <2>3. CASE ~cleanupFailed'
    <3> PICK deaf \in SUBSET {p \in Posts : pc[p] = "drive"} :
           pc' = [p \in Posts |-> IF p \in deaf THEN pc[p] ELSE CancelRun(p)]
      BY <1>10 DEF Shutdown
    <3>1. /\ ~cleanupFailed /\ \A p \in Posts : pc[p] \notin Cleaning \cup {"start"}
          /\ UNCHANGED <<crashes, workspace>>
      BY <1>10, <2>3 DEF Shutdown
    <3>2. \A p \in Posts : pc[p] \in HoldsWorkspace => CancelRun(p) = "stop"
      BY <3>1 DEF CancelRun, InTry, Cleaning
    <3>3. \A p \in Posts : pc[p] \in HoldsWorkspace => pc'[p] \in HoldsWorkspace
      BY <3>2
    <3> QED BY <2>1, <3>1, <3>3, <1>f DEF WorkspacesHeld, PostsOf
  <2> QED BY <2>2, <2>3
<1>11. CASE Crash
  BY <1>11 DEF Crash, NewProcess, WorkspacesHeld, PoliciesHeld, Types, StartType
<1>12. CASE Restart
  BY <1>12, <1>f DEF Restart, NewProcess, WorkspacesHeld, PoliciesHeld
<1>13. CASE reap_orphaned_containers \/ MarkDone \/ Serve
  BY <1>13, <1>f DEF reap_orphaned_containers, MarkDone, Serve, runVars, hostVars,
        WorkspacesHeld,
               PoliciesHeld
<1>14. ASSUME NEW t \in Tasks, MarkReaped(t) \/ recover_orphaned_tasks(t)
       PROVE  WorkspacesHeld' /\ PoliciesHeld'
  BY <1>14, <1>u DEF MarkReaped, recover_orphaned_tasks, MarkFailed, runVars, hostVars
<1> QED BY <1>1, <1>2, <1>3, <1>4, <1>5, <1>6, <1>7, <1>8, <1>9, <1>10, <1>11, <1>12, <1>13,
           <1>14 DEF Next, StartStep, RunStep

(***************************************************************************)
(* Recovery leaves no open task                                            *)
(***************************************************************************)
LEMMA QuietStep ==
  ASSUME Types, Quiet, Next
  PROVE  Quiet'
<1>r. /\ pc \in [Posts -> PCs] /\ row \in [Tasks -> TaskStatus \cup {"none"}]
      /\ marked \subseteq Tasks
      /\ phase \in {"reap", "mark", "recover", "serving", "stopping"}
  BY DEF Types, RunType, RowType, StartType
<1>v. ASSUME phase' = "serving" PROVE Quiet'
  BY <1>v DEF Quiet, Starting
<1>u. ASSUME UNCHANGED <<pc, abortPc, deletePc, handler, thread, row, reaped, marked, phase>>
      PROVE  Quiet'
  BY <1>u DEF Quiet
\* A step of a request, a run or a handler belongs to a process that serves or stops.
<1>m. ASSUME NEW p \in Posts, pc[p] \notin Resting \/ handler[p] \/ thread[p] # "none",
             UNCHANGED <<phase, abortPc, deletePc>>,
             \/ UNCHANGED pc
             \/ \E l \in PCs \ {"checked"} : pc' = [pc EXCEPT ![p] = l]
      PROVE  Quiet'
  <2>1. phase \notin Starting
    BY <1>m DEF Quiet
  <2>2. phase # "serving" => \A q \in Posts : pc'[q] # "checked"
    BY <1>m, <1>r DEF Quiet
  <2> QED BY <1>m, <2>1, <2>2 DEF Quiet, Starting
<1>1. ASSUME NEW p \in Posts, PostStep(p) PROVE Quiet'
  <2>1. CASE Serving
    BY <1>1, <2>1, <1>v
      DEF PostStep, create_task, insert_task, enqueue_task, PutQueue, Serving, startVars
  <2>2. CASE ~Serving
    <3>1. enqueue_task(p) \/ PutQueue(p)
      BY <1>1, <2>2 DEF PostStep, create_task, insert_task, Quiet, Serving
    <3> QED BY <3>1, <1>m, PcNames
      DEF enqueue_task, PutQueue, Goto, Resting, apiVars, startVars
  <2> QED BY <2>1, <2>2
<1>2. ASSUME NEW p \in Posts, RunStep(p) \/ DriverEnds(p) PROVE Quiet'
  <2>1. pc[p] \notin Resting /\ UNCHANGED <<phase, abortPc, deletePc>>
    BY <1>2
      DEF RunStep, AcquireSlot, _load_request, prepare_workspace, FillWorkspace,
          set_task_policy,
          start_container, wait_for_opencode_health, DriverEnds, CompleteStatus,
          CompleteEvent, stop_container, remove_container, cleanup_workspace,
          WriteTerminalStatus, WriteTerminalEvent, ReleaseSlot, Resting, apiVars, startVars
  <2>2. AfterCleanup(p) # "checked"
    BY DEF AfterCleanup
  <2>3. \E l \in PCs \ {"checked"} : pc' = [pc EXCEPT ![p] = l]
    BY <1>2, <2>2, PcNames
      DEF RunStep, AcquireSlot, _load_request, prepare_workspace, FillWorkspace,
          set_task_policy,
          start_container, wait_for_opencode_health, DriverEnds, CompleteStatus,
          CompleteEvent, stop_container, remove_container, cleanup_workspace,
          WriteTerminalStatus, WriteTerminalEvent, ReleaseSlot, Raise, Goto
  <2> QED BY <2>1, <2>3, <1>m
<1>3. ASSUME NEW p \in Posts, DriverWrites(p) \/ HandlerWrites(p) \/ ThreadEnds(p)
      PROVE  Quiet'
  BY <1>3, <1>m
    DEF DriverWrites, HandlerWrites, ThreadEnds, Resting, runVars, apiVars, startVars
<1>4. ASSUME NEW p \in Posts, ContainerExits(p) \/ FillerEnds(p) PROVE Quiet'
  BY <1>4, <1>u DEF ContainerExits, FillerEnds, runVars, handlerVars, apiVars, startVars
<1>5. CASE _worker_loop \/ Serve
  BY <1>5, <1>v DEF _worker_loop, Serve, Serving, startVars
<1>6. ASSUME NEW t \in Tasks, ApiStep(t) PROVE Quiet'
  <2>1. Serving
    BY <1>6
      DEF ApiStep, AbortCheck, AbortStatus, AbortEvent, DeleteCheck, delete_task, Quiet,
          Serving
  <2>2. phase' = phase
    BY <1>6
      DEF ApiStep, AbortCheck, AbortStatus, AbortEvent, DeleteCheck, delete_task, startVars
  <2> QED BY <2>1, <2>2, <1>v DEF Serving
<1>7. CASE Shutdown
  <2> PICK deaf \in SUBSET {p \in Posts : pc[p] = "drive"} :
         pc' = [p \in Posts |-> IF p \in deaf THEN pc[p] ELSE CancelRun(p)]
    BY <1>7 DEF Shutdown
  <2>1. /\ phase' = "stopping" /\ UNCHANGED <<abortPc, deletePc>>
        /\ \A p \in Posts : pc[p] # "checked"
        /\ \A t \in Tasks : {abortPc[t], deletePc[t]} \subseteq {"idle", "done"}
    BY <1>7 DEF Shutdown, apiVars
  <2>2. \A p \in Posts : CancelRun(p) # "checked"
    BY DEF CancelRun
  <2> QED BY <2>1, <2>2 DEF Quiet, Starting
<1>8. CASE Crash
  BY <1>8 DEF Crash, NewProcess, Quiet, Starting, Resting
<1>9. CASE Restart
  <2>1. \A p \in Posts : pc[p] \in Resting
    BY <1>9, <1>r DEF Restart, Quiet, Resting, PCs
  <2> QED BY <1>9, <2>1 DEF Restart, NewProcess, Quiet, Starting, apiVars
<1>10. CASE reap_orphaned_containers
  BY <1>10 DEF reap_orphaned_containers, Quiet, Starting, runVars, handlerVars, apiVars
<1>11. CASE MarkDone
  BY <1>11 DEF MarkDone, Quiet, Starting, runVars, handlerVars, apiVars
<1>12. ASSUME NEW t \in Tasks, MarkReaped(t) \/ recover_orphaned_tasks(t) PROVE Quiet'
  <2>1. /\ phase \in {"mark", "recover"} /\ phase' = phase /\ UNCHANGED reaped
        /\ UNCHANGED <<pc, handler, thread, abortPc, deletePc>>
        /\ marked' \subseteq marked \cup {t}
        /\ phase = "recover" => UNCHANGED marked
    BY <1>12
      DEF MarkReaped, recover_orphaned_tasks, MarkFailed, runVars, handlerVars, apiVars
  <2>2. row' = [row EXCEPT ![t] = IF @ = "none" THEN @ ELSE "failed"]
    BY <1>12 DEF MarkReaped, recover_orphaned_tasks, MarkFailed, update_task_status
  <2>3. \A m \in marked' : row'[m] \notin NonTerminal
    BY <2>1, <2>2, <1>r DEF Quiet, Starting, NonTerminal
  <2> QED BY <2>1, <2>3 DEF Quiet, Starting
<1> QED BY <1>1, <1>2, <1>3, <1>4, <1>5, <1>6, <1>7, <1>8, <1>9, <1>10, <1>11, <1>12
        DEF Next, StartStep

LEMMA WriterStep ==
  ASSUME Types, OutcomeFits, QueueFits, Quiet, NonTerminalHasWriter, Next
  PROVE  NonTerminalHasWriter'
<1>r. /\ pc \in [Posts -> PCs] /\ row \in [Tasks -> TaskStatus \cup {"none"}]
      /\ outcome \in [Posts -> TERMINAL_STATUSES \cup {"none", "cancelled"}]
      /\ late \in [Tasks -> BOOLEAN]
      /\ \A p \in Posts : TaskOf[p] \in Tasks
  BY LifecycleAssumption DEF Types, RunType, RowType, HandlerType
<1>n. ASSUME phase' # "serving" PROVE NonTerminalHasWriter'
  BY <1>n DEF NonTerminalHasWriter, Serving
\* A step of p leaves p with a status to write, or closes the row, or p had none to
\* write and the row does not become open.
<1>m. ASSUME NEW p \in Posts, UNCHANGED <<phase, late>>,
             \A q \in Posts : q # p => pc'[q] = pc[q] /\ outcome'[q] = outcome[q],
             \A t \in Tasks : t # TaskOf[p] => row'[t] = row[t],
             \/ WillWrite(p)'
             \/ row'[TaskOf[p]] \notin NonTerminal
             \/ /\ ~WillWrite(p)
                /\ row'[TaskOf[p]] \in NonTerminal => row[TaskOf[p]] \in NonTerminal
      PROVE  NonTerminalHasWriter'
  <2> SUFFICES ASSUME Serving', NEW t \in Tasks, row'[t] \in NonTerminal, ~late'[t]
               PROVE  \E q \in PostsOf(t) : WillWrite(q)'
    BY DEF NonTerminalHasWriter, PostsOf
  <2>1. CASE t = TaskOf[p] /\ WillWrite(p)'
    BY <2>1 DEF PostsOf
  <2>2. CASE ~(t = TaskOf[p] /\ WillWrite(p)')
    <3>1. row[t] \in NonTerminal /\ Serving /\ ~late[t]
      BY <1>m, <2>2 DEF Serving
    <3>2. PICK q \in PostsOf(t) : WillWrite(q)
      BY <3>1 DEF NonTerminalHasWriter
    <3>3. q # p /\ q \in Posts
      BY <1>m, <2>2, <3>2 DEF PostsOf
    <3> QED BY <1>m, <3>2, <3>3 DEF WillWrite
  <2> QED BY <2>1, <2>2
<1>u. ASSUME UNCHANGED <<phase, late, pc, outcome>>,
             \A t \in Tasks : row'[t] \in NonTerminal => row[t] \in NonTerminal
      PROVE  NonTerminalHasWriter'
  BY <1>u DEF NonTerminalHasWriter, WillWrite, Serving
<1>1. ASSUME NEW p \in Posts, PostStep(p) PROVE NonTerminalHasWriter'
  <2>1. UNCHANGED <<phase, late, outcome>>
    BY <1>1
      DEF PostStep, create_task, insert_task, enqueue_task, PutQueue, handlerVars, startVars
  <2>2. \/ UNCHANGED row
        \/ \E s \in TaskStatus : row' = [row EXCEPT ![TaskOf[p]] = s]
        \/ update_task_status(TaskOf[p], "queued")
    BY <1>1, StatusNames DEF PostStep, create_task, insert_task, enqueue_task, PutQueue
  <2>3. \A t \in Tasks : t # TaskOf[p] => row'[t] = row[t]
    BY <2>2, <1>r DEF update_task_status
  <2>4. \/ pc' = [pc EXCEPT ![p] = "inserted"] \/ pc' = [pc EXCEPT ![p] = "queued"]
        \/ pc' = [pc EXCEPT ![p] = "put"]
        \/ /\ UNCHANGED row /\ pc[p] \in {"idle", "checked"}
           /\ \A q \in Posts : q # p => pc'[q] = pc[q]
    BY <1>1, <1>r DEF PostStep, create_task, insert_task, enqueue_task, PutQueue, Goto
  <2> QED BY <2>1, <2>3, <2>4, <1>m, <1>r DEF WillWrite, Unwritten, Cleaning
<1>2. ASSUME NEW p \in Posts,
             \/ AcquireSlot(p) \/ prepare_workspace(p) \/ FillWorkspace(p) \/ set_task_policy(p)
             \/ start_container(p) \/ wait_for_opencode_health(p) \/ DriverEnds(p)
             \/ _load_request(p)
      PROVE  NonTerminalHasWriter'
  <2>1. UNCHANGED <<phase, late>>
    BY <1>2
      DEF AcquireSlot, prepare_workspace, FillWorkspace, set_task_policy, start_container,
          wait_for_opencode_health, DriverEnds, _load_request, handlerVars, startVars
  <2>2. \/ UNCHANGED row \/ \E s \in TaskStatus : update_task_status(TaskOf[p], s)
    BY <1>2, StatusNames
      DEF AcquireSlot, prepare_workspace, FillWorkspace, set_task_policy, start_container,
          wait_for_opencode_health, DriverEnds, _load_request
  <2>3. \A t \in Tasks : t # TaskOf[p] => row'[t] = row[t]
    BY <2>2, <1>r DEF update_task_status
  <2>4. \/ \E o \in TERMINAL_STATUSES \ {"completed"} : Raise(p, o)
        \/ \E l \in Unwritten : Goto(p, l) /\ UNCHANGED outcome
        \/ Goto(p, "fail") /\ outcome' = [outcome EXCEPT ![p] = "failed"]
    BY <1>2
      DEF AcquireSlot, prepare_workspace, FillWorkspace, set_task_policy, start_container,
          wait_for_opencode_health, DriverEnds, _load_request, TERMINAL_STATUSES, Unwritten
  <2>5. WillWrite(p)' /\ \A q \in Posts : q # p => pc'[q] = pc[q] /\ outcome'[q] = outcome[q]
    BY <2>4, <1>r DEF WillWrite, Raise, Goto, Unwritten, Cleaning, TERMINAL_STATUSES
  <2> QED BY <2>1, <2>3, <2>5, <1>m
<1>3. ASSUME NEW p \in Posts, CompleteStatus(p) \/ WriteTerminalStatus(p)
      PROVE  NonTerminalHasWriter'
  <2>1. \E s \in TERMINAL_STATUSES : update_task_status(TaskOf[p], s)
    BY <1>3, StatusNames DEF CompleteStatus, WriteTerminalStatus, OutcomeFits
  <2>2. /\ \A t \in Tasks : t # TaskOf[p] => row'[t] = row[t]
        /\ row'[TaskOf[p]] \notin NonTerminal
    BY <2>1, <1>r DEF update_task_status, NonTerminal, TERMINAL_STATUSES
  <2>3. /\ \A q \in Posts : q # p => pc'[q] = pc[q]
        /\ UNCHANGED <<phase, late, outcome>>
    BY <1>3, <1>r DEF CompleteStatus, WriteTerminalStatus, Goto, handlerVars, startVars
  <2> QED BY <2>2, <2>3, <1>m
<1>4. ASSUME NEW p \in Posts, CompleteEvent(p) \/ WriteTerminalEvent(p) \/ ReleaseSlot(p)
      PROVE  NonTerminalHasWriter'
  <2>1. /\ \A q \in Posts : q # p => pc'[q] = pc[q] /\ outcome'[q] = outcome[q]
        /\ UNCHANGED <<phase, late, row>> /\ pc[p] \in {"completed", "failing", "release"}
    BY <1>4, <1>r
      DEF CompleteEvent, WriteTerminalEvent, ReleaseSlot, Raise, Goto, handlerVars,
          startVars
  <2> QED BY <2>1, <1>m DEF WillWrite, Unwritten, Cleaning
<1>5. ASSUME NEW p \in Posts, stop_container(p) \/ remove_container(p) \/ cleanup_workspace(p)
      PROVE  NonTerminalHasWriter'
  <2>1. /\ UNCHANGED <<phase, late, row, outcome>> /\ pc[p] \in Cleaning
        /\ \E l \in {"remove", "wipe", AfterCleanup(p)} : pc' = [pc EXCEPT ![p] = l]
    BY <1>5
      DEF stop_container, remove_container, cleanup_workspace, Goto, Cleaning, handlerVars,
          startVars
  <2>2. WillWrite(p) => WillWrite(p)'
    BY <2>1, <1>r DEF WillWrite, Unwritten, Cleaning, AfterCleanup
  <2> QED BY <2>1, <2>2, <1>m, <1>r
<1>6. ASSUME NEW p \in Posts, DriverWrites(p) PROVE NonTerminalHasWriter'
  <2>1. /\ UNCHANGED <<phase, late, pc, outcome>> /\ pc[p] = "drive"
        /\ update_task_status(TaskOf[p], "driving")
    BY <1>6 DEF DriverWrites, runVars, startVars
  <2>2. WillWrite(p)' /\ \A t \in Tasks : t # TaskOf[p] => row'[t] = row[t]
    BY <2>1, <1>r DEF WillWrite, Unwritten, update_task_status
  <2> QED BY <2>1, <2>2, <1>m
<1>7. ASSUME NEW p \in Posts, HandlerWrites(p) PROVE NonTerminalHasWriter'
  <2>1. /\ UNCHANGED <<phase, pc, outcome>>
        /\ row' = [row EXCEPT ![TaskOf[p]] = IF @ = "none" THEN @ ELSE "driving"]
        /\ late' = [late EXCEPT ![TaskOf[p]] = @ \/ row[TaskOf[p]] \in TERMINAL_STATUSES]
    BY <1>7 DEF HandlerWrites, update_task_status, runVars, startVars
  <2>2. ASSUME NEW t \in Tasks, row'[t] \in NonTerminal, ~late'[t]
        PROVE  row[t] \in NonTerminal /\ ~late[t]
    <3>1. CASE t = TaskOf[p]
      <4>1. late'[t] = (late[t] \/ row[t] \in TERMINAL_STATUSES)
        BY <2>1, <3>1, <1>r
      <4>2. row[t] \notin TERMINAL_STATUSES /\ ~late[t]
        BY <4>1, <2>2
      <4>3. row[t] # "none"
        BY <2>1, <2>2, <3>1, <1>r DEF NonTerminal
      <4> QED BY <4>2, <4>3, <1>r DEF TaskStatus
    <3>2. CASE t # TaskOf[p]
      BY <2>1, <2>2, <3>2, <1>r
    <3> QED BY <3>1, <3>2
  <2> QED BY <2>1, <2>2 DEF NonTerminalHasWriter, WillWrite, Serving
<1>8. ASSUME NEW p \in Posts, ContainerExits(p) \/ ThreadEnds(p) \/ FillerEnds(p) PROVE NonTerminalHasWriter'
  BY <1>8, <1>u DEF ContainerExits, ThreadEnds, FillerEnds, runVars, handlerVars, startVars
<1>9. CASE _worker_loop
  <2> DEFINE p == Head(queue)
  <2>1. p \in Posts
    BY <1>9, HeadWaits DEF _worker_loop
  <2>2. pc' = [pc EXCEPT ![p] = "dispatched"] /\ UNCHANGED <<phase, late, row, outcome>>
    BY <1>9 DEF _worker_loop, Goto, handlerVars, startVars
  <2> HIDE DEF p
  <2> QED BY <2>1, <2>2, <1>m, <1>r DEF WillWrite, Unwritten
<1>10. ASSUME NEW t \in Tasks, ApiStep(t) PROVE NonTerminalHasWriter'
  <2>1. UNCHANGED <<phase, late, pc, outcome>>
    BY <1>10
      DEF ApiStep, AbortCheck, AbortStatus, AbortEvent, DeleteCheck, delete_task, runVars,
          handlerVars, startVars
  <2>2. \A s \in Tasks : row'[s] \in NonTerminal => row[s] \in NonTerminal
    BY <1>10, <1>r
      DEF ApiStep, AbortCheck, AbortStatus, AbortEvent, DeleteCheck, delete_task,
          update_task_status, NonTerminal
  <2> QED BY <2>1, <2>2, <1>u
<1>11. CASE Shutdown \/ Crash \/ Restart \/ reap_orphaned_containers \/ MarkDone
  BY <1>11, <1>n DEF Shutdown, Crash, Restart, NewProcess, reap_orphaned_containers,
        MarkDone
<1>12. ASSUME NEW t \in Tasks, MarkReaped(t) \/ recover_orphaned_tasks(t)
       PROVE  NonTerminalHasWriter'
  BY <1>12, <1>n DEF MarkReaped, recover_orphaned_tasks, MarkFailed
<1>13. CASE Serve
  <2>1. phase = "recover" /\ Orphans = {} /\ UNCHANGED row
    BY <1>13 DEF Serve
  <2>2. \A t \in Tasks : row[t] \notin NonTerminal
    BY <2>1 DEF Quiet, Orphans, Starting
  <2> QED BY <2>1, <2>2 DEF NonTerminalHasWriter
<1> QED BY <1>1, <1>2, <1>3, <1>4, <1>5, <1>6, <1>7, <1>8, <1>9, <1>10, <1>11, <1>12, <1>13
        DEF Next, StartStep, RunStep

(***************************************************************************)
(* The event of the end, and the one row of a task id                      *)
(***************************************************************************)
LEMMA LogGrows ==
  ASSUME Types, Next
  PROVE  \A t \in Tasks : events[t] # <<>> => events'[t] # <<>>
<1>r. events \in [Tasks -> Seq(TERMINAL_STATUSES)] /\ \A p \in Posts : TaskOf[p] \in Tasks
  BY LifecycleAssumption DEF Types, RowType
<1>u. ASSUME UNCHANGED events
      PROVE  \A t \in Tasks : events[t] # <<>> => events'[t] # <<>>
  BY <1>u
<1>a. ASSUME NEW t \in Tasks, NEW e, events' = [events EXCEPT ![t] = Append(@, e)]
      PROVE  \A s \in Tasks : events[s] # <<>> => events'[s] # <<>>
  <2>1. Append(events[t], e) # <<>>
    BY <1>r
  <2> QED BY <1>a, <2>1, <1>r
<1>1. ASSUME NEW p \in Posts, PostStep(p) PROVE UNCHANGED events
  BY <1>1 DEF PostStep, create_task, insert_task, enqueue_task, PutQueue
<1>2. ASSUME NEW p \in Posts, RunStep(p) \/ DriverEnds(p), ~CompleteEvent(p), ~WriteTerminalEvent(p)
      PROVE  UNCHANGED events
  BY <1>2
    DEF RunStep, AcquireSlot, _load_request, prepare_workspace, FillWorkspace,
        set_task_policy,
        start_container, wait_for_opencode_health, DriverEnds, CompleteStatus,
        stop_container, remove_container, cleanup_workspace, WriteTerminalStatus,
        ReleaseSlot
<1>3. ASSUME NEW p \in Posts, CompleteEvent(p) \/ WriteTerminalEvent(p)
      PROVE  \A t \in Tasks : events[t] # <<>> => events'[t] # <<>>
  BY <1>3, <1>a, <1>r DEF CompleteEvent, WriteTerminalEvent
<1>4. ASSUME NEW p \in Posts,
             \/ DriverWrites(p) \/ HandlerWrites(p) \/ ContainerExits(p) \/ ThreadEnds(p)
             \/ FillerEnds(p)
      PROVE  UNCHANGED events
  BY <1>4 DEF DriverWrites, HandlerWrites, ContainerExits, ThreadEnds, FillerEnds
<1>5. ASSUME NEW t \in Tasks,
             ApiStep(t) \/ MarkReaped(t) \/ recover_orphaned_tasks(t)
      PROVE  \A s \in Tasks : events[s] # <<>> => events'[s] # <<>>
  BY <1>5, <1>a
    DEF ApiStep, AbortCheck, AbortStatus, AbortEvent, DeleteCheck, delete_task,
        MarkReaped, recover_orphaned_tasks, MarkFailed
<1>6. CASE \/ _worker_loop \/ Shutdown \/ Crash \/ Restart \/ reap_orphaned_containers
           \/ MarkDone \/ Serve
  BY <1>6
    DEF _worker_loop, Shutdown, Crash, Restart, NewProcess, reap_orphaned_containers,
        MarkDone, Serve
<1> QED BY <1>u, <1>1, <1>2, <1>3, <1>4, <1>5, <1>6 DEF Next, StartStep

LEMMA LoggedStep ==
  ASSUME Types, OutcomeFits, QueueFits, EndIsLogged, Next
  PROVE  EndIsLogged'
<1>r. /\ pc \in [Posts -> PCs] /\ events \in [Tasks -> Seq(TERMINAL_STATUSES)]
      /\ outcome \in [Posts -> TERMINAL_STATUSES \cup {"none", "cancelled"}]
      /\ \A p \in Posts : TaskOf[p] \in Tasks
  BY LifecycleAssumption DEF Types, RunType, RowType
<1>g. \A p \in Posts : events[TaskOf[p]] # <<>> => events'[TaskOf[p]] # <<>>
  BY LogGrows, <1>r
<1>u. ASSUME UNCHANGED <<pc, outcome>> PROVE EndIsLogged'
  BY <1>u, <1>g DEF EndIsLogged
<1>m. ASSUME NEW p \in Posts,
             \A q \in Posts : q # p => pc'[q] = pc[q] /\ outcome'[q] = outcome[q],
             outcome'[p] = "completed" \/ pc'[p] \in {"release", "done"}
               => events'[TaskOf[p]] # <<>>
      PROVE  EndIsLogged'
  BY <1>m, <1>g DEF EndIsLogged
<1>1. ASSUME NEW p \in Posts,
             \/ PostStep(p) \/ AcquireSlot(p) \/ CompleteStatus(p) \/ stop_container(p)
             \/ remove_container(p) \/ WriteTerminalStatus(p)
      PROVE  EndIsLogged'
  <2>1. /\ UNCHANGED outcome
        /\ \E l \in PCs \ {"release", "done"} : pc' = [pc EXCEPT ![p] = l]
    BY <1>1, PcNames
      DEF PostStep, create_task, insert_task, enqueue_task, PutQueue, AcquireSlot,
          CompleteStatus, stop_container, remove_container, WriteTerminalStatus, Goto
  <2> QED BY <2>1, <1>m, <1>g, <1>r DEF EndIsLogged
<1>2. ASSUME NEW p \in Posts,
             \/ _load_request(p) \/ prepare_workspace(p) \/ FillWorkspace(p) \/ set_task_policy(p)
             \/ start_container(p) \/ wait_for_opencode_health(p) \/ DriverEnds(p)
      PROVE  EndIsLogged'
  <2>1. /\ \/ UNCHANGED outcome
           \/ \E o \in TERMINAL_STATUSES \ {"completed"} : outcome' = [outcome EXCEPT ![p] = o]
        /\ \E l \in PCs \ {"release", "done"} : pc' = [pc EXCEPT ![p] = l]
    BY <1>2, PcNames
      DEF _load_request, prepare_workspace, FillWorkspace, set_task_policy, start_container,
          wait_for_opencode_health, DriverEnds, Raise, Goto, TERMINAL_STATUSES
  <2> QED BY <2>1, <1>m, <1>g, <1>r DEF EndIsLogged
<1>3. ASSUME NEW p \in Posts, CompleteEvent(p) \/ WriteTerminalEvent(p) PROVE EndIsLogged'
  <2>1. \E e : events' = [events EXCEPT ![TaskOf[p]] = Append(@, e)]
    BY <1>3 DEF CompleteEvent, WriteTerminalEvent
  <2>2. events'[TaskOf[p]] # <<>>
    BY <2>1, <1>r
  <2>3. \A q \in Posts : q # p => pc'[q] = pc[q] /\ outcome'[q] = outcome[q]
    BY <1>3, <1>r DEF CompleteEvent, WriteTerminalEvent, Raise, Goto
  <2> QED BY <2>2, <2>3, <1>m
<1>4. ASSUME NEW p \in Posts, cleanup_workspace(p) PROVE EndIsLogged'
  <2>1. pc' = [pc EXCEPT ![p] = AfterCleanup(p)] /\ UNCHANGED outcome
    BY <1>4 DEF cleanup_workspace, Goto
  <2>2. AfterCleanup(p) \in {"release", "done"} => outcome[p] = "completed"
    BY DEF AfterCleanup
  <2> QED BY <2>1, <2>2, <1>m, <1>g, <1>r DEF EndIsLogged
<1>5. ASSUME NEW p \in Posts, ReleaseSlot(p) PROVE EndIsLogged'
  <2>1. pc[p] = "release" /\ \A q \in Posts : q # p => pc'[q] = pc[q] /\ outcome'[q] = outcome[q]
    BY <1>5, <1>r DEF ReleaseSlot, Goto
  <2>2. events'[TaskOf[p]] # <<>>
    BY <2>1, <1>g DEF EndIsLogged
  <2> QED BY <2>1, <2>2, <1>m
<1>6. ASSUME NEW p \in Posts,
             \/ DriverWrites(p) \/ HandlerWrites(p) \/ ContainerExits(p) \/ ThreadEnds(p)
             \/ FillerEnds(p)
      PROVE  EndIsLogged'
  BY <1>6, <1>u DEF DriverWrites, HandlerWrites, ContainerExits, ThreadEnds, FillerEnds,
        runVars
<1>7. CASE _worker_loop
  <2> DEFINE p == Head(queue)
  <2>1. p \in Posts
    BY <1>7, HeadWaits DEF _worker_loop
  <2>2. pc' = [pc EXCEPT ![p] = "dispatched"] /\ UNCHANGED outcome
    BY <1>7 DEF _worker_loop, Goto
  <2> HIDE DEF p
  <2> QED BY <2>1, <2>2, <1>m, <1>g, <1>r DEF EndIsLogged
<1>8. ASSUME NEW t \in Tasks, ApiStep(t) \/ MarkReaped(t) \/ recover_orphaned_tasks(t)
      PROVE  EndIsLogged'
  BY <1>8, <1>u
    DEF ApiStep, AbortCheck, AbortStatus, AbortEvent, DeleteCheck, delete_task, MarkReaped,
        recover_orphaned_tasks, MarkFailed, runVars
<1>9. CASE Shutdown
  <2> PICK deaf \in SUBSET {p \in Posts : pc[p] = "drive"} :
         /\ pc' = [p \in Posts |-> IF p \in deaf THEN pc[p] ELSE CancelRun(p)]
         /\ outcome' = [p \in Posts |->
              IF pc[p] \in InTry /\ p \notin deaf THEN "cancelled" ELSE outcome[p]]
    BY <1>9 DEF Shutdown
  <2>1. \A p \in Posts : CancelRun(p) \in {"release", "done"} => pc[p] \in {"release", "done"}
    BY DEF CancelRun
  <2>2. \A p \in Posts : /\ outcome'[p] = "completed" => outcome[p] = "completed"
                         /\ pc'[p] \in {"release", "done"} => pc[p] \in {"release", "done"}
    BY <2>1
  <2> QED BY <2>2, <1>g DEF EndIsLogged
<1>10. CASE Crash
  <2>1. /\ UNCHANGED outcome
        /\ \A p \in Posts : pc'[p] \in {"release", "done"} => pc[p] = "done"
    BY <1>10 DEF Crash, NewProcess
  <2> QED BY <2>1, <1>g DEF EndIsLogged
<1>11. CASE Restart \/ reap_orphaned_containers \/ MarkDone \/ Serve
  BY <1>11, <1>u DEF Restart, NewProcess, reap_orphaned_containers, MarkDone, Serve, runVars
<1> QED BY <1>1, <1>2, <1>3, <1>4, <1>5, <1>6, <1>7, <1>8, <1>9, <1>10, <1>11
        DEF Next, StartStep, RunStep

LEMMA ClaimStep ==
  ASSUME Types, OutcomeFits, QueueFits, ClaimedOnce, Next
  PROVE  ClaimedOnce'
<1>r. /\ pc \in [Posts -> PCs] /\ row \in [Tasks -> TaskStatus \cup {"none"}]
      /\ resp \in [Posts -> {0, 201, 409, 500}]
      /\ deletePc \in [Tasks -> {"idle", "checked", "done"}]
      /\ \A p \in Posts : TaskOf[p] \in Tasks
  BY LifecycleAssumption DEF Types, RunType, RowType, ApiType
\* No new claim, and no row is lost.
<1>k. ASSUME \A p \in Posts : Claims(p)' => Claims(p),
             \A t \in Tasks : deletePc[t] = "done" => deletePc'[t] = "done",
             \A t \in Tasks : row[t] # "none" => row'[t] # "none" \/ deletePc'[t] = "done"
      PROVE  ClaimedOnce'
  <2>1. \A p \in Posts : Claims(p)' => row'[TaskOf[p]] # "none" \/ deletePc'[TaskOf[p]] = "done"
    BY <1>k, <1>r DEF ClaimedOnce
  <2>2. \A p, q \in Posts :
          p # q /\ TaskOf[p] = TaskOf[q] /\ Claims(p)' /\ Claims(q)'
            => deletePc'[TaskOf[p]] = "done"
    BY <1>k, <1>r DEF ClaimedOnce
  <2> QED BY <2>1, <2>2 DEF ClaimedOnce
<1>s. ASSUME NEW p \in Posts, UNCHANGED <<resp, deletePc>>,
             \E l \in PCs \ {"inserted", "queued"} : pc' = [pc EXCEPT ![p] = l],
             UNCHANGED row \/ \E s \in TaskStatus : update_task_status(TaskOf[p], s)
      PROVE  ClaimedOnce'
  <2>1. \A q \in Posts : Claims(q)' => Claims(q)
    BY <1>s, <1>r DEF Claims
  <2>2. \A t \in Tasks : row[t] # "none" => row'[t] # "none"
    BY <1>s, <1>r DEF update_task_status, TaskStatus, NonTerminal, TERMINAL_STATUSES
  <2> QED BY <1>s, <2>1, <2>2, <1>k
<1>1. ASSUME NEW p \in Posts, create_task(p) PROVE ClaimedOnce'
  <2>1. \A q \in Posts : Claims(q)' => Claims(q)
    BY <1>1, <1>r DEF create_task, Goto, Claims
  <2> QED BY <1>1, <2>1, <1>k DEF create_task, apiVars
<1>2. ASSUME NEW p \in Posts, insert_task(p) PROVE ClaimedOnce'
  <2>1. CASE row[TaskOf[p]] # "none"
    <3>1. \A q \in Posts : Claims(q)' => Claims(q)
      BY <1>2, <2>1, <1>r DEF insert_task, Goto, Claims
    <3> QED BY <1>2, <2>1, <3>1, <1>k DEF insert_task, apiVars
  <2>2. CASE row[TaskOf[p]] = "none"
    <3>1. /\ row' = [row EXCEPT ![TaskOf[p]] = "pending"]
          /\ UNCHANGED <<resp, deletePc>> /\ pc' = [pc EXCEPT ![p] = "inserted"]
      BY <1>2, <2>2 DEF insert_task, Goto, apiVars
    <3>2. \A q \in Posts : q # p /\ Claims(q)' => Claims(q)
      BY <3>1, <1>r DEF Claims
    <3>3. \A q \in Posts : q # p /\ TaskOf[q] = TaskOf[p] /\ Claims(q)'
             => deletePc[TaskOf[p]] = "done"
      BY <3>2, <2>2 DEF ClaimedOnce
    <3>4. \A t \in Tasks : row[t] # "none" => row'[t] # "none"
      BY <3>1, <1>r
    <3>5. row'[TaskOf[p]] # "none"
      BY <3>1, <1>r
    <3>6. \A q \in Posts : Claims(q)' =>
             row'[TaskOf[q]] # "none" \/ deletePc'[TaskOf[q]] = "done"
      BY <3>1, <3>2, <3>4, <3>5, <1>r DEF ClaimedOnce
    <3>7. \A q, s \in Posts :
             q # s /\ TaskOf[q] = TaskOf[s] /\ Claims(q)' /\ Claims(s)'
               => deletePc'[TaskOf[q]] = "done"
      BY <3>1, <3>2, <3>3 DEF ClaimedOnce
    <3> QED BY <3>6, <3>7 DEF ClaimedOnce
  <2> QED BY <2>1, <2>2
<1>3. ASSUME NEW p \in Posts, enqueue_task(p) \/ PutQueue(p) PROVE ClaimedOnce'
  <2>1. \A q \in Posts : Claims(q)' => Claims(q)
    BY <1>3, <1>r DEF enqueue_task, PutQueue, Goto, Claims
  <2>2. \A t \in Tasks : row[t] # "none" => row'[t] # "none"
    BY <1>3, <1>r DEF enqueue_task, PutQueue, update_task_status
  <2> QED BY <1>3, <2>1, <2>2, <1>k DEF enqueue_task, PutQueue, apiVars
<1>4. ASSUME NEW p \in Posts, RunStep(p) \/ DriverEnds(p) PROVE ClaimedOnce'
  <2>1. AfterCleanup(p) \in PCs \ {"inserted", "queued"}
    BY PcNames DEF AfterCleanup
  <2>2. \E l \in PCs \ {"inserted", "queued"} : pc' = [pc EXCEPT ![p] = l]
    BY <1>4, <2>1, PcNames
      DEF RunStep, AcquireSlot, _load_request, prepare_workspace, FillWorkspace,
          set_task_policy,
          start_container, wait_for_opencode_health, DriverEnds, CompleteStatus,
          CompleteEvent, stop_container, remove_container, cleanup_workspace,
          WriteTerminalStatus, WriteTerminalEvent, ReleaseSlot, Raise, Goto
  <2>3. pc[p] = "fail" => outcome[p] \in TaskStatus
    BY StatusNames DEF OutcomeFits
  <2>4. /\ UNCHANGED row \/ \E s \in TaskStatus : update_task_status(TaskOf[p], s)
        /\ UNCHANGED <<resp, deletePc>>
    BY <1>4, <2>3, StatusNames
      DEF RunStep, AcquireSlot, _load_request, prepare_workspace, FillWorkspace,
          set_task_policy,
          start_container, wait_for_opencode_health, DriverEnds, CompleteStatus,
          CompleteEvent, stop_container, remove_container, cleanup_workspace,
          WriteTerminalStatus, WriteTerminalEvent, ReleaseSlot, apiVars
  <2> QED BY <2>2, <2>4, <1>s
<1>5. ASSUME NEW p \in Posts,
             \/ DriverWrites(p) \/ HandlerWrites(p) \/ ContainerExits(p) \/ ThreadEnds(p)
             \/ FillerEnds(p)
      PROVE  ClaimedOnce'
  <2>1. UNCHANGED <<pc, resp, deletePc>>
    BY <1>5 DEF DriverWrites, HandlerWrites, ContainerExits, ThreadEnds, FillerEnds,
          runVars, apiVars
  <2>2. \A t \in Tasks : row[t] # "none" => row'[t] # "none"
    BY <1>5, <1>r DEF DriverWrites, HandlerWrites, ContainerExits, ThreadEnds, FillerEnds,
          update_task_status
  <2> QED BY <2>1, <2>2, <1>k DEF Claims
<1>6. CASE _worker_loop
  <2>1. Head(queue) \in Posts
    BY <1>6, HeadWaits DEF _worker_loop
  <2> QED BY <1>6, <2>1, <1>s, PcNames DEF _worker_loop, Goto, apiVars
<1>7. ASSUME NEW t \in Tasks, ApiStep(t) PROVE ClaimedOnce'
  <2>1. UNCHANGED <<pc, resp>>
    BY <1>7
      DEF ApiStep, AbortCheck, AbortStatus, AbortEvent, DeleteCheck, delete_task, runVars
  <2>2. \A s \in Tasks : deletePc[s] = "done" => deletePc'[s] = "done"
    BY <1>7, <1>r DEF ApiStep, AbortCheck, AbortStatus, AbortEvent, DeleteCheck, delete_task
  <2>3. \A s \in Tasks : row[s] # "none" => row'[s] # "none" \/ deletePc'[s] = "done"
    BY <1>7, <1>r
      DEF ApiStep, AbortCheck, AbortStatus, AbortEvent, DeleteCheck, delete_task,
          update_task_status
  <2> QED BY <2>1, <2>2, <2>3, <1>k DEF Claims
<1>8. CASE Shutdown
  <2> PICK deaf \in SUBSET {p \in Posts : pc[p] = "drive"} :
         pc' = [p \in Posts |-> IF p \in deaf THEN pc[p] ELSE CancelRun(p)]
    BY <1>8 DEF Shutdown
  <2>1. \A p \in Posts : pc'[p] \notin {"inserted", "queued"}
    BY DEF CancelRun
  <2>2. \A p \in Posts : Claims(p)' => Claims(p)
    BY <1>8, <2>1 DEF Shutdown, Claims
  <2> QED BY <1>8, <2>2, <1>k DEF Shutdown, apiVars
<1>9. CASE Crash
  <2>1. \A p \in Posts : pc'[p] \notin {"inserted", "queued"}
    BY <1>9 DEF Crash
  <2>2. \A p \in Posts : Claims(p)' => Claims(p)
    BY <1>9, <2>1 DEF Crash, NewProcess, Claims
  <2> QED BY <1>9, <2>2, <1>k DEF Crash, NewProcess
<1>10. CASE Restart \/ reap_orphaned_containers \/ MarkDone \/ Serve
  <2>1. UNCHANGED <<pc, resp, deletePc, row>>
    BY <1>10
      DEF Restart, NewProcess, reap_orphaned_containers, MarkDone, Serve, runVars, apiVars
  <2> QED BY <2>1, <1>k DEF Claims
<1>11. ASSUME NEW t \in Tasks, MarkReaped(t) \/ recover_orphaned_tasks(t) PROVE ClaimedOnce'
  <2>1. UNCHANGED <<pc, resp, deletePc>> /\ update_task_status(t, "failed")
    BY <1>11 DEF MarkReaped, recover_orphaned_tasks, MarkFailed, runVars, apiVars
  <2>2. \A s \in Tasks : row[s] # "none" => row'[s] # "none"
    BY <2>1, <1>r DEF update_task_status
  <2> QED BY <2>1, <2>2, <1>k DEF Claims
<1> QED BY <1>1, <1>2, <1>3, <1>4, <1>5, <1>6, <1>7, <1>8, <1>9, <1>10, <1>11
        DEF Next, StartStep, PostStep

(***************************************************************************)
(* The invariant and what follows from it                                  *)
(***************************************************************************)
LEMMA InitIInv ==
  ASSUME Init
  PROVE  IInv
<1>1. Types
  BY InitTypes
<1>2. OutcomeFits /\ ContainersHeld /\ WorkspacesHeld /\ PoliciesHeld /\ EndIsLogged
  BY LifecycleAssumption
    DEF Init, OutcomeFits, ContainersHeld, WorkspacesHeld, PoliciesHeld, EndIsLogged,
        Cleaning
<1>3. QueueFits /\ ThreadsCounted /\ Quiet
  BY DEF Init, QueueFits, ThreadsCounted, Quiet, Starting
<1>4. SlotsBounded
  <2>1. Slots = {}
    BY DEF Init, Slots, InSlot, InTry, Cleaning
  <2> QED BY <2>1, FS_EmptySet, LifecycleAssumption DEF SlotsBounded
<1>5. NonTerminalHasWriter
  BY DEF Init, NonTerminalHasWriter, NonTerminal
<1>6. ClaimedOnce
  BY DEF Init, ClaimedOnce, Claims
<1> QED BY <1>1, <1>2, <1>3, <1>4, <1>5, <1>6 DEF IInv

\* Every step of the requests, the runs, the API, shutdown and startup keeps the
\* invariant.
THEOREM Invariance == Spec => []IInv
<1>1. Init => IInv
  BY InitIInv
<1>2. IInv /\ [Next]_vars => IInv'
  <2> SUFFICES ASSUME IInv, [Next]_vars PROVE IInv'
    OBVIOUS
  <2>1. CASE Next
    BY <2>1, TypesStep, OutcomeStep, QueueStep, SlotsStep, ContainersStep, HostStep,
       WriterStep, QuietStep, LoggedStep, ClaimStep DEF IInv
  <2>2. CASE UNCHANGED vars
    BY <2>2
      DEF vars, IInv, Types, RowType, RunType, QueueType, HostType, HandlerType, ApiType,
          StartType, OutcomeFits, QueueFits, SlotsBounded, Slots, ContainersHeld,
          ThreadsCounted, WorkspacesHeld, NotRefilled, PoliciesHeld, NonTerminalHasWriter,
          WillWrite,
          Serving, Quiet, EndIsLogged, ClaimedOnce, Claims
  <2> QED BY <2>1, <2>2
<1> QED BY <1>1, <1>2, PTL DEF Spec

\* Every variable keeps its type, and _write_terminal only ever logs a terminal
\* outcome.
THEOREM TypeCorrect == Spec => []TypeOK
<1>1. IInv => TypeOK
  BY TypesAreTypeOK DEF IInv
<1> QED BY <1>1, Invariance, PTL

\* However many tasks wait for however many slots, there are never more
\* containers than max_concurrent_tasks and none outlives its run, unless the
\* process crashed or a cleanup failed.
THEOREM SlotsHold == Spec => []ContainersWithinSlots
<1>1. IInv => ContainersWithinSlots
  <2> SUFFICES ASSUME IInv, crashes = 0, ~cleanupFailed
               PROVE  /\ \A p \in Posts : container[p] # "none" => pc[p] \in InSlot
                      /\ Cardinality({p \in Posts : container[p] # "none"}) <= MaxSlots
    BY DEF ContainersWithinSlots
  <2>1. \A p \in Posts : container[p] # "none" => pc[p] \in InSlot
    BY DEF IInv, ContainersHeld, HoldsContainer, InSlot, InTry, Cleaning
  <2> DEFINE C == {p \in Posts : container[p] # "none"}
  <2>2. C \subseteq Slots
    BY <2>1 DEF Slots
  <2>3. IsFiniteSet(C) /\ Cardinality(C) <= Cardinality(Slots)
    BY <2>2, FS_Subset DEF IInv, SlotsBounded
  <2>4. Cardinality(C) \in Nat /\ Cardinality(Slots) \in Nat
    BY <2>3, FS_CardinalityType DEF IInv, SlotsBounded
  <2>5. Cardinality(C) <= MaxSlots
    <3> HIDE DEF C
    <3> QED BY <2>3, <2>4, LifecycleAssumption DEF IInv, SlotsBounded
  <2> QED BY <2>1, <2>5
<1> QED BY <1>1, Invariance, PTL

\* The broker policy and the workspace of a task exist only while a run of it
\* holds a slot, also after a shutdown, except for a directory a crash, a failed
\* rmtree or an extraction that outlived its run has left.
THEOREM CleanupIsComplete == Spec => []NothingLeftBehind
<1>1. IInv => NothingLeftBehind
  <2> SUFFICES ASSUME IInv, NEW t \in Tasks,
                      \/ policy[t] /\ phase # "stopping"
                      \/ /\ workspace[t] /\ crashes = 0 /\ ~cleanupFailed
                         /\ t \notin Local /\ NotRefilled(t)
               PROVE  \E p \in PostsOf(t) : pc[p] \in InSlot
    BY DEF NothingLeftBehind
  <2>1. \E p \in PostsOf(t) : pc[p] \in HoldsWorkspace
    BY DEF IInv, PoliciesHeld, WorkspacesHeld, HoldsWorkspace
  <2> QED BY <2>1 DEF HoldsWorkspace, HoldsPolicy, HoldsContainer, InSlot, InTry, Cleaning
<1> QED BY <1>1, Invariance, PTL

\* While the worker serves requests, a task whose status is not terminal has a
\* request or a run that will still end it, after any number of crashes,
\* shutdowns and recoveries.
THEOREM NoTaskIsStuck == Spec => []NoStuckTask
<1>1. IInv => NoStuckTask
  <2>1. \A p \in Posts : WillWrite(p) => pc[p] \in Live
    BY DEF WillWrite, Unwritten, Live, InSlot, InTry, Cleaning
  <2> QED BY <2>1 DEF IInv, NonTerminalHasWriter, NoStuckTask, PostsOf
<1> QED BY <1>1, Invariance, PTL

\* A run that has released its slot has a terminal event in the log.
THEOREM EndsAreLogged == Spec => []DoneHasTerminalEvent
<1>1. IInv => DoneHasTerminalEvent
  BY DEF IInv, EndIsLogged, DoneHasTerminalEvent
<1> QED BY <1>1, Invariance, PTL

\* Of any number of requests for one task id one is accepted, unless the task
\* was deleted in between.
THEOREM TasksAreAcceptedOnce == Spec => []AcceptedOnce
<1>1. IInv => AcceptedOnce
  BY DEF IInv, ClaimedOnce, Claims, AcceptedOnce
<1> QED BY <1>1, Invariance, PTL
=============================================================================
