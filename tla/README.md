# OpenCodeWorker: a TLA+ model

OpenCodeWorker accepts coding tasks over HTTP, runs each in a Docker sandbox
under an opencode server, streams its events to clients over SSE, asks a human
where the task's policy requires it and keeps the artifacts of the run. It is
one asyncio process with one SQLite connection. This directory models the parts
in which coroutines, requests, timeouts and crashes meet, checks them with TLC
on small instances and proves the safety properties with TLAPS. Source paths
below are relative to `src/src/`.

## Inventory

| Part | State | Operations | Interacts with |
|---|---|---|---|
| Event log, `worker/storage/repo.py` | `task_events`, `_event_locks` | `insert_event`, `get_events_after`, `discard_task_locks` | every writer; notifies the bus |
| Wakeup bus, `worker/orchestrator/event_bus.py` | `_buses`, one `asyncio.Event` per subscriber | `get_bus`, `subscribe`, `notify`, `discard` | log, SSE endpoint |
| SSE endpoint, `worker/api/routes.py` | cursor, status snapshot | replay, live push, heartbeat | log, bus, SDK |
| SDK stream, `worker_sdk/sse.py`, `client.py` | last cursor, attempts | reconnect, `wait_until_terminal` | SSE endpoint |
| Task API, `worker/api/routes.py` | `tasks` row | create, abort, delete | queue, log |
| Queue, `worker/orchestrator/queue.py` | `_queue`, `_semaphore` | enqueue, `_worker_loop`, `_run_one` | orchestrator |
| Orchestrator, `worker/orchestrator/orchestrator.py` | none of its own | `run_task`, `_cleanup` | workspace, sandbox, broker policy, driver |
| Sandbox, `worker/sandbox/manager.py` | containers, by label | start, stop, remove, reap | Docker |
| Recovery, `worker/orchestrator/recovery.py`, `worker/main.py` | none | reap, mark failed, recover | tables, Docker |
| Driver, `worker/adapters/opencode/driver.py` | abort flag and reason, reject counter, plan text | run, plan approval, SSE consumer, idle poll, permission handlers | opencode, decisions table, interceptors |
| Decisions, `worker/storage/repo.py`, `worker/contract/decision.py` | `decisions` rows | insert, resolve, expire | driver, API |
| Artifacts, `worker/orchestrator/artifact_gc.py`, driver, routes | `artifacts` rows, files | collect, GC, download | driver, API |
| Interceptor runner, `worker/adapters/opencode/interceptors/runner.py` | error counts, disabled set | dispatch, terminal, flush | driver |
| Broker, `broker/` | policy per task | set, remove, filter | orchestrator |
| Built-in interceptors, `worker/adapters/opencode/interceptors/` | messages, buffer, pending calls, counts, copied directories | `on_event`, `on_terminal`, `flush` | runner; write files |
| Lifespan, `worker/main.py` | background tasks | startup, shutdown | queue, every run, Docker |
| SDK HTTP client, `worker_sdk/client.py`, `retry.py`, `compat.py` | `_compat_checked`, attempts, `.part` files | version check, request loop, downloads | Task and Decision API, over the network |
| Middleware, config, metrics, contract models | little | | |

What is hard here: every `await` between a check and the act it guards; the
permission handlers, which are tasks nobody awaits and which outlive their run;
cancellation inside a database write; the timeout of a run that fires while
something else is being cancelled; statuses that are overwritten without a
condition; a crash between any two commits; a shutdown that cancels runs wherever
they are while their Docker calls and extractions go on in threads; requests that fail for the
client and are carried out all the same; files two writers share. `PROJECT.json` lists these hazards
line by line with the properties that watch them.

## Modules

Each component module has its own `MC` module, which names the constants of the
small instances. Definitions keep the names of the code where they stand for one
function. A function that awaits is split into one action per stretch between
two awaits that others can observe; the action with the function's own name is
its first or its central stretch. Definitions whose comment begins with
"Variant" are deliberate faults and belong to no specification: each shows that
a property notices that fault.

**EventLog** is the log of one task. `pc` says where in `insert_event` a writer
is: waiting for its lock object (`lockOf`), about to SELECT, INSERT or COMMIT.
`rows` is what the shared connection sees, `durable` how much of it is
committed; every commit, of `update_task_status` too, commits everybody's rows.
A cancelled writer leaves the lock but a statement already handed to the
connection's thread may still run (`CancelInsert`). `CrashRestart` cuts the log
to the durable prefix and startup (`MarkOrphanFailed`, `RecoverySkips`) follows
alone.

**EventStream** extends EventLog with the bus, the generator of each connection
(`srv`: accepted, history, replay, poll, push, wait, closed) and the SDK (`sdk`,
`got`, `attempts`, `result`). Bus objects are numbered so that a subscriber of a
discarded one is told apart. A broken connection loses what was in flight; a
handshake that is refused ends the stream at once (`HandshakeRefused`).

**EventFeed** is the abstract promise of `worker/contract/event.py`: a log that
grows and clients that are given its events one by one up to the first terminal
one. A crash may cut the log to its committed prefix, but never takes back what
was delivered. EventStream implements it under the mapping log <- rows,
kept <- durable, delivered <- got.

**TaskLifecycle** is the life of several tasks: POST as check, insert, status,
put; the worker loop and the slots; `run_task` with a failure of each step and
`_cleanup` with a failure of each part; abort and delete; crash, orderly shutdown
and startup. `Shutdown` cancels every coroutine at once: the CancelledError of the
queue task passes `except Exception` in `main.lifespan`, the rest of the block is
skipped and the event loop cancels what is left. A run inside the try block of
`run_task` goes to its cleanup (`CancelRun`), one that was there already stops, and
a driver may mistake the cancellation for that of a task of its own. A Docker call
whose coroutine is gone is in `thread` until it ends. A workspace is created
(`prepare_workspace`) and then filled (`FillWorkspace`), by an executor thread or by
a git child process. Both can outlive the coroutine that waits for them: the thread
when a shutdown cancels the run, the child also when the clone times out. Such a
leftover is in `filler`, and when it ends (`FillerEnds`) the directory the cleanup
removed may be there again. A thread ends with its process, a child does not. A
container whose start fails stays "created". `MaxRestart` bounds crashes and
shutdowns together. The
statuses the driver writes are one ("driving") and only terminal events are
kept. The broker is taken to be enabled. `late` and `cleanupFailed` are history
variables (a shutdown in the middle of a cleanup or of a container start sets the
second). The startup writes status and event of a task in one action, since
nothing runs beside it; a crash between the two is EventLog's.

**Driver** is one run of `OpenCodeDriver`: `main` (`_run_inner`,
`_handle_plan_approval`), the tasks `sse` and `poll`, one handler per permission
(`hand`), the decisions table (`dec`, `choice`) and the timer of
`asyncio.timeout`. opencode (permission requests, text, idleness, errors) and
the human (`submit_decision`) are the environment and do what they like, when they
like. An element of `Perms` is a permission as one `_consume_sse` hands it out: each
phase keeps its own list of those handled, so a permission listed again in the
execution phase is another element. `on_timeout = escalate` acts as `continue` in
the code and is not listed apart. Three history variables say what the rows do not
keep: `lapsed`, the decisions whose wait ended without an answer (a row may still
be answered before it is expired); `reached`, that the rejects in a row reached the
threshold (an approval resets the counter); `first`, the reason `_signal_abort` was
first called with.

**ArtifactStore** is the artifacts of several runs: an artifact is stamped with
its expiry, its file is written, its row inserted; time passes expiries in the
order they were stamped; the collector takes a batch, unlinks, deletes rows;
downloads look up, check and send. A path is a task id, so a task id that is
deleted, submitted and run again writes over its own file. `OldRows` are rows
registered under another `artifacts_dir`, which the collector refuses.

**Interceptors** is `InterceptorRunner` under its three kinds of callers: the
coroutine of `run()`, the SSE consumer and the detached handlers. `running[d]`
are the hooks that dispatcher d awaits. `arts` are the artifacts the flushes
returned, `rows` those registered and `refused` those whose registration failed. An
exception that leaves the flush loop is caught in `_dispatch_terminal_and_flush`
and the run ends without the artifacts, as in the code.

**Recorders** is the three built-in interceptors fed with one history of events:
`messages` and `buffer` of `ConversationsWriter` with its truncation, the pending,
processed and counted calls of `McpFieldRecorder`, the copies of
`BacktestInterceptor` with names made of a second and a label. A message is the
range of events it was made of, so that the reference `Conversation` can be
computed from the history. Events that arrive while `flush` awaits the slug
callback are part of it.

**SdkClient** is `AsyncWorkerClient`: several calls made at once on one client
object. Each is in its version check (`health`), its request loop (`main`) or the
writing of a download; `wire` is the attempt under way. The worker's side is the
handler of `api/routes.py` for each method (`create_task`, `submit_decision`,
`abort_task` with its check and its write apart, `ServeGet`), on the row of the
task or decision reduced to absent, open or closed, plus the answers given before a
handler is reached (`Denied`: 401 of the middleware, 404, 422). `inbox` are POSTs
the worker may still get, also after the client has given them up; `passed` are
aborts past their check, `effect` those requests that were carried out. Other clients
and the runs change rows at any time (`RowChanges`). A create that loses the race
between its check and its INSERT is answered 500 and is part of `ServeFails`. A call
may be cancelled at every await. A file on disk is named by the download that
created it, so that the sharing of `.part` is visible; `stuck` are `.part` files
whose unlink failed, which the code swallows. `effect`, `unchecked` and `overlap`
are history variables.

The theorems about module M are in **MProofs**, for each of the modules above
except EventFeed, whose refinement is proved in EventStreamProofs, which in turn
extends EventLogProofs. Three statements of the code are written so that they can
be reasoned about as well as evaluated: ORDER BY picks the row by its rank
(`OrderById`, `OldestFirst`), and dict.pop removes the one occurrence of a key
(`RemoveFirst`).

## Runs

Passing runs. All of them switch deadlock checking off because every model may
come to rest: the requests and events of an instance are finite and a finished
task does nothing more.

| Run | Instance | Shows |
|---|---|---|
| `MCEventStream` | runner, handler, abort, client, 1 crash, 1 reconnect | ids are gap free under every interleaving, cancellation and crash; a conflict needs a discarded lock; the discard follows a committed terminal event; each event once and in order; no generator sleeps on a missed wakeup; none is stranded by the discard of the bus; the composition refines EventFeed |
| `MCEventStream_live` | runner, abort, client, 1 crash | every `wait_until_terminal` ends |
| `MCTaskLifecycle` | 2 tasks, 1 slot, 1 local workspace, 1 git clone, 1 crash or shutdown | containers stay within slots, policy and workspace within the run; every accepted task settles if drivers return |
| `MCTaskLifecycle_api` | 1 id submitted twice, abort, delete, 2 ends of the process | no task is stuck, a finished run has a terminal event, a row is accepted once |
| `MCDriver` | direct_execute, policy abort, 2 human permissions (symmetric), 1 automatic, threshold 2 | nothing is granted without cause; the reject loop ends the run, also with an approval in between; an abort reports the first cause |
| `MCDriver_live` | plan_first, policy continue, 1 permission, threshold 1 | execution needs an approved plan or one whose decision lapsed; no leaked tasks; no abort without a cause; an abort ends the run |
| `MCArtifactStore` | 2 tasks and an old row, batch 2, 1 fault, 1 crash, a download | no orphaned file, nothing removed early, every expired row is collected |
| `MCRecorders` | 2 tool calls, lists of 3 and tables of 2, 5 events | the conversation is kept around every truncation; each call counts once; the index names whole copies |
| `MCSdkClient` | 8 applications of 2 or 3 concurrent calls, 2 attempts, 2 chunks | answers are true of the worker; retries are spent exactly; the version gate; whole files |
| `MCInterceptors` | 2 interceptors, 3 dispatchers, budget 2, 4 events | error budget, flush after on_terminal, what raises costs no other its artifact |

Why the bounds suffice. Conflicts of the log are between two writers, the third
supplies the lock's queue and the discard; for any number of writers and crashes
the properties of the log and of its readers are proved. One reconnect reaches both sides of the limit.
One slot for two tasks makes a lost slot visible, two POSTs of one id are the
smallest race; a second end of the process falls into the startup after the first. Threshold 2 with two human permissions has a handler below and one at the
threshold, and the automatic approval can reset the counter before, between and
after them, also between the handler that counts to two and its threshold step. The
two runs of the driver have one mode and one timeout policy each, so that both
meanings of a lapsed decision are met; the proofs hold for all four combinations. The old row fails in each batch and leaves a batch of two one place for
the others. Four events exceed a budget of two from every dispatcher.
Five events make a list of three be shortened twice, and are enough for a call to
start, overflow the table, end, start and end again. Two attempts have one that is
retried and one that is not; the applications of `MCSdkClient` pair two creations
of one task, a creation and a read, two answers to one decision, two aborts, two
downloads to one file, one of them with overwrite, and explicit version checks with
some of these.

Fairness. The event loop runs each ready coroutine, so the steps of the runner,
of generators, of handlers, of startup and of the collector are weakly fair, and so
is the end of a decision wait, because it has a deadline. Executor threads end, and so does the filling of a
workspace, since a download is limited in size and read by read in time, and git in
time.
Heartbeats of opencode make `SseAbort` fair. `MainStep` of Driver is fair, which
assumes that opencode answers or refuses the requests main waits for
(`prompt_async`, `get_diff`, `get_messages`): the client sets no read timeout for
them (adapters/opencode/client.py:45). Not fair: the human, opencode's idleness, the
task timeout in Driver, requests, broken connections, crashes, cancellation.

That a run of the driver ends is not among the code's guarantees: the timeout's
cancellation can be swallowed (driver.py:286, `TimeoutEndsRun`), and the finally
block of `run()` awaits requests outside it. `TaskSettles` therefore has it as a
hypothesis, `DriversReturn`, and `DriverEnds` is not fair; a shutdown or crash ends
a run too. `MCEventStream_live` has the fair end of the run (`RunnerTerminal`) as the
same hypothesis.

No liveness is claimed for SdkClient and Interceptors. The SDK waits before a retry
for as long as the worker's Retry-After says, without a cap and with `inf` accepted
(retry.py:103), and `timeout` is httpx's limit of each connect, read and write while
client.py:99 calls it the total of a request, so a body that drips never ends one.
Hooks of interceptors have no timeout in `runner.py`.

### Where the code does not do what the repository says

Two runs each check one statement of a comment or docstring and end in a
counterexample. `PROJECT.json` quotes the statement under "findings".

| Run | Statement | What happens |
|---|---|---|
| `MCTaskLifecycle_final` | a terminal status never changes | the run goes on after an abort and overwrites it |
| `MCDriver_error` | session.error is raised | it is swallowed and the run completes |

Further statements are kept as definitions of the modules. TLC has a
counterexample to each (under `FairSpec` where it is temporal), so no run checks
them; one that is repaired in the code moves to the passing run of its module.

| Definition | Statement | What happens |
|---|---|---|
| EventLog `NoIntegrityError` | repo.py:201, the per-task lock prevents UNIQUE conflicts | the runner discards the lock while another writer holds it (repo.py:170); the runner itself never collides, which is proved |
| EventStream `ClosedAfterTerminalEvent` | routes.py:190, the stream closes after the terminal event | opened between status and event, it closes without it |
| EventStream `DeliveredIsKept` | event.py:11, reconnecting loses no event | an uncommitted row is delivered, lost in a crash, its id reused |
| EventStream `ExhaustedFallsBackToSnapshot` | docs/worker-sdk-usage.md:271 | `WorkerSSEError` reaches the caller (client.py:295) |
| TaskLifecycle `ReaperKeepsTerminal` | main.py:86, reaped terminal tasks are ignored | completed becomes failed |
| TaskLifecycle `RestartReapsContainers` | docs/roadmap/opencode-worker.md:241 | only exited containers are reaped (manager.py:342) |
| TaskLifecycle `StopLeavesNoContainer` | orchestrator.py:193, the cleanup runs in any case | a thread starts the container after the cancelled run has cleaned up (manager.py:149) |
| TaskLifecycle `StopLeavesNoWorkspace` | the same | the extraction thread fills the workspace again after the cleanup (handler.py:102) |
| Driver `TimeoutEndsRun` | task.py:70, the timeout ends the run | its cancellation is swallowed (driver.py:286) |
| Driver `TasksStopAfterEnd` | driver.py:120, a timeout stops the loops | the idle poll runs on |
| Driver `AnswerIsForwarded` | decision.py:13, an accepted answer is forwarded | the timeout's default is (driver.py:594) |
| Driver `DecisionSettles` | repo.py:380, no decision hangs | the plan's does after a timeout |
| Driver `PlanHasText` | event.py:44, plan_text is the plan | lost when the idle poll wins (driver.py:476) |
| Driver `HumanAbortAborts` | decision.py:77, abort aborts | the run completes first |
| Driver `FirstReasonReported` | driver.py:894, the first cause decides the reason of the end | a plan rejected after another abort reports plan_rejected (driver.py:776) |
| ArtifactStore `OverflowIsCleared` | artifact_gc.py:14, later rounds clear the overflow | failing rows starve it |
| ArtifactStore `RetentionIsHonoured` | docs/roadmap/opencode-worker.md:56, kept for 7 days | a rerun's file is unlinked for the old row |
| Interceptors `SerialOnEvent` | base.py:53, on_event is serial | a handler and the consumer overlap |
| Interceptors `FlushSeesEveryEvent` | base.py:71, flush writes what accumulated | events come after flush |
| Recorders `MessagesBounded` | conversations.py:97, max_messages bounds the list | below 3 the slice keeps everything (conversations.py:337) |
| Recorders `DroppedCounted` | conversations.py:343, the sentinel counts what was dropped | each truncation replaces the count by its own |
| Recorders `EveryBacktestKept` | backtest.py, each finished backtest is copied | a half-copied directory stays outside the index, and one with the name of another in the same second is skipped |
| SdkClient `CompatGate` | docs/worker-sdk-usage.md:492, the version is checked before the first request | calls made during the check skip it, and so do all later ones when it gets no answer (client.py:486) |
| SdkClient `OverlapWhole` | client.py:439, no half-written file is left | two downloads to one file share its `.part` |
| SdkClient `NoClobber` | client.py:421, without overwrite an existing file is refused | one that appears during the download is replaced |
| SdkClient `RepeatIgnored` | contract/decision.py:19, a repeated submission is ignored | it is answered with 409 |

Smaller disagreements that a reader of the code will meet, each visible in the
action named: delete leaves events and artifacts because SQLite's foreign keys
are off (`delete_task`, `remove_task`, repo.py:120); of two concurrent POSTs with one id the
second gets 500 and not 409 (`insert_task`, routes.py:113); the directory created
for a local workspace stays (`prepare_workspace`, handler.py:88); an expired
artifact is served until it is collected (`get_artifact_path`, repo.py:455); a
handler that ends during execution sets the status back to planning
(driver.py:643); two aborts that pass the check together are both answered 200, and
so is one whose task was deleted meanwhile (`abort_task_write`, routes.py:375); a
decision that never existed is answered like one already resolved
(`submit_decision`, routes.py:331); `close_docker_client` and `close_db` are never
reached at shutdown (`Shutdown`, main.py:134).

One interplay is worth knowing before anything is changed: `NoOrphanFile` holds
because delete does not cascade. With foreign keys enabled, deleting a task would
delete the rows that lead the collector to its files, which is the variant
`remove_task_Cascade`.

## Proofs

The theorems hold for every value of the constants: any sets of writers, clients,
tasks, requests, permissions, dispatchers and calls, any bounds, modes, policies
and thresholds. They use the named ASSUME of the module and nothing else, with one
exception that is written in its statement (`ConversationIsKept`). Every safety
property of a passing run is a theorem, the refinement included. Each inductive
invariant was checked with TLC on the instance of its component's run before it
was proved.

**EventLogProofs.** `GapFree` is not inductive: a writer about to insert could
hold any id. The invariant `IInv` adds that holders of one lock object exclude
each other (`Mutex`), that before the discard all writers use the one registered
lock (`OneLock`), that an id read under the lock is still the next one when it
is inserted unless the lock has been discarded (`FreshId`, `EidBound`), and where
the runner is relative to its terminal row. Even after the discard two writers
read ids that are at most the next one, and the UNIQUE constraint refuses all but
it, which is why the log stays gap free although `NoIntegrityError` fails. The
lemmas follow the conjuncts, one step per action: `TypeStep`, `LockStep`,
`IdStep`, `ConflictStep`, `RunnerRowStep`. Theorems: `Invariance`, `TypeCorrect`,
`IdsAreGapFree`, `NoConflictBeforeDiscard`, `TerminalRowBeforeDiscard`.

**EventStreamProofs.** `StreamImplementsLog` comes first: the composition is an
EventLog, so the theorems above hold of it (`LogStaysSound`) and IInv is at hand.
`StreamIInv` then says of each client where everything is. `Follows`: what was
received, what is on the wire and what the generator still has to yield continue
each other and are the rows of the log from the cursor on; a terminal event is the
last. That is what a reconnect with Last-Event-ID relies on, and it is needed
because `ExactlyOnceInOrder` speaks of the received events alone. `WakeupPending`:
a row the generator has neither read nor been woken for has a writer between
INSERT and notify. It has to hold while the generator is still pushing, since the
wakeup that is missed is the one that comes between its SELECT and its wait.
`EndPending`: once the runner has written its terminal event a live generator is
woken or has a terminal event in hand. This depends on the order in `_run_one`
(event, then discard), and `BusFits` on every generator sharing the registered bus
until then. Lemmas on `OrderById` say that the rows after a cursor are the tail of
a gap-free log. Theorems: `StreamInvariance`, `StreamTypeCorrect`,
`DeliveryIsExact`, `NoWakeupIsLost`, `NobodyIsStranded`, `LogStaysSound` and
`StreamImplementsFeed`, the refinement: a `Receive` is a delivery, a commit keeps,
a crash cuts, everything else grows the log or stutters. No number of reconnects
or crashes is assumed.

**TaskLifecycleProofs.** The invariant relates each resource to the places in
`run_task` where it may exist: `HoldsContainer`, `HoldsPolicy` and
`HoldsWorkspace` grow along the path of a run and shrink along its cleanup.
`SlotsBounded` is the semaphore; together with `ContainersHeld` (one container per
run, inside its slot) and `ThreadsCounted` (a thread that may still start one was
left by a shutdown) it bounds the containers. `WorkspacesHeld` says the same of the
directories of tasks for which no extraction or clone was ever left behind, which
stays so forward but not back (`FillerStays`). The number of requests may be
infinite; that those in slots are finitely many is part of the invariant.
`NoStuckTask` needs more than a live run: `NonTerminalHasWriter` names the runs
that still have a terminal write ahead (`WillWrite`), because a run in its cleanup
after a completion has none, and `Quiet` describes the startup, where nobody has
one and recovery closes every row before the worker serves. `EndIsLogged` carries
the terminal event from its write to the release, `ClaimedOnce` the primary key
through check, insert and answer. Theorems: `Invariance`, `TypeCorrect`,
`SlotsHold`, `CleanupIsComplete`, `NoTaskIsStuck`, `EndsAreLogged`,
`TasksAreAcceptedOnce`.

**DriverProofs.** The invariant is stated in Driver. `RowsOfAskers`: a decision
row is inserted once, by its asker. `Permitted`: whatever a handler or main is
about to send or start is allowed already. `TasksStopped`: where main has gone
on, its tasks are stopped. `ReasonHasCause`: the recorded reason has a decision
behind it, which later answers cannot take away since a resolved row is never
written again, and is the first that was signalled. A decision that lapsed stays
lapsed, and a threshold that was reached stays reached, whatever the row and the
counter do later. Theorems: `Invariance`, `TypeCorrect`, `HumanInTheLoop`,
`PlanIsGated`, `TasksDoNotLeak`, `RejectLoopEnds`, `AbortsAreJustified`.

**ArtifactStoreProofs.** `NoOrphanFile` could fail between unlink and DELETE, when
a new run of the id writes the path and the old row goes: `DeleteIsSafe` says that
whoever has written the path and is done has a row of its own. `BatchIsExpired`
keeps the collector from what has not expired, though its batch is a snapshot;
`KeptOnceWritten` extends `KeptUntilExpired` to the time between file and row.
The assumption that "none" names no artifact makes an empty path distinguishable.
Theorems: `Invariance`, `TypeCorrect`, `NoFileIsOrphaned`, `ArtifactsAreKept`.

**InterceptorsProofs.** A bound on the errors counted so far is not inductive:
`ErrorsToCome` adds the calls under way that may still raise. `ToldOfTheEnd`
says for whom `on_terminal` was started, and relies on a disabled interceptor
staying disabled. `NoneDropped`: who is enabled
and not flushed is still in the list of `collect_artifacts`, and only what a flush
returned is registered or refused. Theorems:
`Invariance`, `TypeCorrect`, `ErrorsAreBounded`, `FlushIsLast`, `ArtifactsAreKept`.

**RecordersProofs.** `CallsFit` ties a call's place in the tables to what was
heard of it: pending means started, processed means complete, and without an
overflow the reverse. `BacktestInv` says that a recorded directory is whole and
that its source is remembered, so that neither is written again. `ConvInv` relates
the messages to the reference `Conversation`: `Starts` enumerates the places where
messages begin, an event adds at most one (lemmas on `Nth` and enumerations of
finite sets of numbers), `BufferFits` says that the buffer is the message the
history ends with, and `Shortened` that shortening a list again is shortening the
whole conversation once, which is the reason why truncation may be repeated.
`ConversationIsKept` is stated for max_messages of at least 3: below it the slice
of the tail, `[-0:]` or `[1:]`, drops nothing but perhaps the head, which is the disagreement
`MessagesBounded` records. Theorems: `TablesInvariance`, `CallsAreCountedOnce`,
`BacktestsAreWhole`, `ConversationIsKept`.

**SdkClientProofs.** `AnswersInPlace` and `AttemptsLeft` say where an answer and
an attempt may be in the loops of a call. `PostOnce`: a POST is with the worker at
most once, and not before it is sent nor after it is answered; that is why a
conflict never stems from the caller's own request. `DecidedOnce`: the decision an
answer was taken for is settled and took no other, since its id is not used again.
`OneWriter`: unless two downloads had the `.part` file open at once, the one that
writes is alone with it and has written its chunks so far, also over a file that an
earlier download could not unlink; `FilesInPlace` keeps files with their
destinations and says that a `.part` file nobody writes is one whose unlink failed.
The assumption that "old" is no call tells a previous file from a
downloaded one. Theorems: `Invariance`, `TypeCorrect`, `PostsAreHonest`,
`RetriesAreSpent`, `BypassIsExplained`, `FilesAreWhole`.

Only model-checked: liveness (`WaitEnds`, `TaskSettles`, `AbortEndsRun`,
`ExpiredIsCollected`), since the prover handles neither
fairness nor ENABLED. The counterexamples of the two violation runs, and those to
the statements listed above, are TLC's as well.

## Not modelled

- Failures of single database statements outside `insert_artifact` and the
  collector, and SQLite itself beyond statement atomicity and commit.
- Contents: payloads, prompts, permission patterns, container options, the
  members of archives, metrics, logging.
- The broker's filtering and proxying and the settings: each request is decided on
  its own, from a policy, and no state is kept. Of the middleware only the 401 is
  there, as an answer of SdkClient.
- An exception of the database during `recover_orphaned_tasks`, which main.py:101
  logs before it serves with the orphans left.
- Texts in the built-in interceptors: scrubbing, slugs, truncated contents, field
  names.
- Two runs of one task id that are active at once, beyond what
  `MCTaskLifecycle_api` interleaves: the repository does not say what should
  happen then.
- The delays of backoffs, intervals and Retry-After: a timeout may fire at any time.

## Plan

1. Action properties that a step may never do, from the invariants at hand: a
   resolved decision row is not written again (Driver), a committed row is not
   changed and ids only grow (EventLog), `disabled` and `processed` only grow.
2. The parts of the liveness arguments that need no fairness: the measures that
   decrease (attempts and chunks of an SDK call, the steps of `run_task` outside the driver).
3. Pure functions against reference definitions: `_build_permission_json`, the
   broker's policy matching, the idle test of the session messages.
