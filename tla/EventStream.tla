----------------------------- MODULE EventStream -----------------------------
(***************************************************************************)
(* The SSE endpoint GET /tasks/{id}/events (api/routes.py, task_events),   *)
(* the wakeup bus (orchestrator/event_bus.py) and the SDK consumer         *)
(* (worker_sdk/sse.py stream_events_with_reconnect and                     *)
(* worker_sdk/client.py wait_until_terminal), composed with EventLog.      *)
(*                                                                         *)
(* An event is its row; a heartbeat carries no id, the SDK skips it, and   *)
(* it is left out.  A connection is lost as a whole: what was in flight is *)
(* gone and the generator is cancelled.                                    *)
(***************************************************************************)
EXTENDS EventLog

CONSTANTS
  Clients,       \* SDK calls of wait_until_terminal
  MaxReconnect   \* max_sse_reconnect_attempts

ASSUME StreamAssumption == MaxReconnect \in Nat

VARIABLES
  srv,        \* where the generator of the client's connection is
  snap,       \* already_terminal: the status read before the generator ran
  cursor,     \* the generator's cursor
  batch,      \* rows the generator read and has not yielded yet
  sig,        \* the subscriber's asyncio.Event
  bus,        \* the bus object the generator subscribed to
  busReg,     \* the bus object in _buses[task_id], 0 when absent
  nBuses,     \* bus objects created so far
  chan,       \* rows on their way to the client
  sdk,        \* connecting | open | done | failed
  silent,     \* history: ids of rows whose writer was cancelled before notify
  got,        \* rows yielded to the caller of stream_events
  attempts,   \* reconnect attempts counted so far
  result      \* what wait_until_terminal gave its caller

streamVars == <<srv, snap, cursor, batch, sig, bus, busReg, nBuses, chan, sdk,
                silent, got, attempts, result>>
vars == <<logVars, streamVars>>

NoBus == 0
SrvStates == {"none", "accepted", "history", "replay", "poll", "push", "wait",
              "closed"}
SdkStates == {"connecting", "open", "done", "failed"}
Subscribed(c) == srv[c] \in {"history", "replay", "poll", "push", "wait"}

StreamInit ==
  /\ Init
  /\ srv = [c \in Clients |-> "none"]
  /\ snap = [c \in Clients |-> FALSE]
  /\ cursor = [c \in Clients |-> 0]
  /\ batch = [c \in Clients |-> <<>>]
  /\ sig = [c \in Clients |-> FALSE]
  /\ bus = [c \in Clients |-> NoBus]
  /\ busReg = NoBus
  /\ nBuses = 0
  /\ chan = [c \in Clients |-> <<>>]
  /\ sdk = [c \in Clients |-> "connecting"]
  /\ silent = {}
  /\ got = [c \in Clients |-> <<>>]
  /\ attempts = [c \in Clients |-> 0]
  /\ result = [c \in Clients |-> "none"]

\* ORDER BY event_id: the j-th row is the one with j - 1 rows before it.
OrderById(R) ==
  [j \in 1..Cardinality(R) |->
     CHOOSE r \in R : Cardinality({s \in R : s.eid <= r.eid}) = j]

\* Variant: >= instead of >.
get_events_after_Ge(k) == OrderById({r \in {rows[i] : i \in DOMAIN rows} : r.eid >= k})

\* SELECT ... WHERE event_id > cursor ORDER BY event_id, over the rows the
\* shared connection sees, committed or not.
get_events_after(k) == OrderById({r \in {rows[i] : i \in DOMAIN rows} : r.eid > k})

\* Variant: a reconnect without Last-Event-ID.
last_cursor_Forgotten(c) == 0

\* last_cursor: the cursor of the last event the SDK received.
last_cursor(c) == IF got[c] = <<>> THEN 0 ELSE got[c][Len(got[c])].eid

(***************************************************************************)
(* The endpoint                                                            *)
(***************************************************************************)
\* Startup (lifespan) does not serve requests before recovery has finished.
Serving == crashes = 0 \/ pc[Runner] = "done"

\* task_events reads the task row and Last-Event-ID before the generator runs.
task_events(c) ==
  /\ sdk[c] = "connecting" /\ Serving
  /\ sdk' = [sdk EXCEPT ![c] = "open"]
  /\ srv' = [srv EXCEPT ![c] = "accepted"]
  /\ snap' = [snap EXCEPT ![c] = (status = "terminal")]
  /\ cursor' = [cursor EXCEPT ![c] = last_cursor(c)]
  /\ UNCHANGED <<logVars, batch, sig, bus, busReg, nBuses, chan, got, silent, attempts,
                 result>>

\* get_bus creates the bus when it is absent; subscribe precedes the replay.
Subscribe(c) ==
  LET b == IF busReg = NoBus THEN nBuses + 1 ELSE busReg
  IN /\ srv[c] = "accepted"
     /\ busReg' = b
     /\ nBuses' = IF b > nBuses THEN b ELSE nBuses
     /\ bus' = [bus EXCEPT ![c] = b]
     /\ sig' = [sig EXCEPT ![c] = FALSE]
     /\ srv' = [srv EXCEPT ![c] = "history"]
     /\ UNCHANGED <<logVars, snap, cursor, batch, chan, sdk, got, silent, attempts, result>>

ReadEvents(c, from, to) ==
  /\ srv[c] = from
  /\ batch' = [batch EXCEPT ![c] = get_events_after(cursor[c])]
  /\ srv' = [srv EXCEPT ![c] = to]
  /\ UNCHANGED <<logVars, snap, cursor, sig, bus, busReg, nBuses, chan, sdk, got,
                 silent, attempts, result>>

ReadHistory(c) == ReadEvents(c, "history", "replay")
Poll(c) == ReadEvents(c, "poll", "push")

\* Yields the next row of the batch; the stream closes after a terminal event.
YieldEvent(c) ==
  /\ srv[c] \in {"replay", "push"} /\ batch[c] # <<>>
  /\ LET r == Head(batch[c])
     IN /\ cursor' = [cursor EXCEPT ![c] = r.eid]
        /\ chan' = [chan EXCEPT ![c] = Append(@, r)]
        /\ batch' = [batch EXCEPT ![c] = IF r.kind = "terminal" THEN <<>> ELSE Tail(@)]
        /\ srv' = [srv EXCEPT ![c] = IF r.kind = "terminal" THEN "closed" ELSE @]
  /\ UNCHANGED <<logVars, snap, sig, bus, busReg, nBuses, sdk, got, silent, attempts,
                 result>>

\* Variant: goes live whatever the status was.
ReplayDone_NoClose(c) ==
  /\ srv[c] = "replay" /\ batch[c] = <<>>
  /\ srv' = [srv EXCEPT ![c] = "poll"]
  /\ UNCHANGED <<logVars, snap, cursor, batch, sig, bus, busReg, nBuses, chan, sdk,
                 got, silent, attempts, result>>

\* The history is replayed: close if the snapshot was terminal, else go live.
ReplayDone(c) ==
  /\ srv[c] = "replay" /\ batch[c] = <<>>
  /\ srv' = [srv EXCEPT ![c] = IF snap[c] THEN "closed" ELSE "poll"]
  /\ UNCHANGED <<logVars, snap, cursor, batch, sig, bus, busReg, nBuses, chan, sdk,
                 got, silent, attempts, result>>

\* Variant: the event is cleared after the table was read.
PushDone_ClearsLate(c) ==
  /\ srv[c] = "push" /\ batch[c] = <<>>
  /\ sig' = [sig EXCEPT ![c] = FALSE]
  /\ srv' = [srv EXCEPT ![c] = "wait"]
  /\ UNCHANGED <<logVars, snap, cursor, batch, bus, busReg, nBuses, chan, sdk,
                 got, silent, attempts, result>>

PushDone(c) ==
  /\ srv[c] = "push" /\ batch[c] = <<>>
  /\ srv' = [srv EXCEPT ![c] = "wait"]
  /\ UNCHANGED <<logVars, snap, cursor, batch, sig, bus, busReg, nBuses, chan, sdk,
                 got, silent, attempts, result>>

\* subscriber.wait() returned: clear the event, then read the table again.
Wake(c) ==
  /\ srv[c] = "wait" /\ sig[c]
  /\ sig' = [sig EXCEPT ![c] = FALSE]
  /\ srv' = [srv EXCEPT ![c] = "poll"]
  /\ UNCHANGED <<logVars, snap, cursor, batch, bus, busReg, nBuses, chan, sdk, got,
                 silent, attempts, result>>

\* wait_for timed out: the heartbeat fallback reads the table too.  With the
\* event set it returns, also when the timeout has passed: that is Wake.
HeartbeatTimeout(c) ==
  /\ srv[c] = "wait" /\ ~sig[c]
  /\ srv' = [srv EXCEPT ![c] = "poll"]
  /\ UNCHANGED <<logVars, snap, cursor, batch, sig, bus, busReg, nBuses, chan, sdk,
                 got, silent, attempts, result>>

(***************************************************************************)
(* Writers: insert_event notifies the registered bus after its commit; a   *)
(* cancelled writer does not; the runner discards the bus with the locks.  *)
(***************************************************************************)
\* Variant: nobody is woken.
notify_Missing == UNCHANGED sig

notify ==
  sig' = [c \in Clients |-> sig[c] \/ (Subscribed(c) /\ bus[c] = busReg)]

CommitNotify(w) ==
  /\ CommitRow(w)
  /\ notify
  /\ UNCHANGED <<srv, snap, cursor, batch, bus, busReg, nBuses, chan, sdk, got,
                 silent, attempts, result>>

discard ==
  /\ discard_task_locks
  /\ busReg' = NoBus
  /\ UNCHANGED <<srv, snap, cursor, batch, sig, bus, nBuses, chan, sdk, got,
                 silent, attempts, result>>

\* The other steps of the writers do not touch the streams.
LogOnly(w) ==
  /\ \/ AbortCheck(w) \/ AbortUpdate(w) \/ HandlerStatus(w)
     \/ insert_event(w) \/ AcquireLock(w) \/ _next_event_id(w)
     \/ InsertRow(w)
  /\ UNCHANGED streamVars

CancelSilently(w) ==
  /\ CancelInsert(w)
  /\ silent' = IF rows' # rows \/ pc[w] = "commit" THEN silent \cup {eid[w]} ELSE silent
  /\ UNCHANGED <<srv, snap, cursor, batch, sig, bus, busReg, nBuses, chan, sdk, got,
                 attempts, result>>

RunnerOnly ==
  /\ RunnerProgress \/ RunnerTerminal \/ MarkOrphanFailed \/ RecoverySkips
  /\ UNCHANGED streamVars

(***************************************************************************)
(* The SDK                                                                 *)
(***************************************************************************)
\* stream_events_with_reconnect yields the event; a terminal one ends it.
Receive(c) ==
  /\ sdk[c] = "open" /\ chan[c] # <<>>
  /\ LET r == Head(chan[c])
     IN /\ got' = [got EXCEPT ![c] = Append(@, r)]
        /\ chan' = [chan EXCEPT ![c] = IF r.kind = "terminal" THEN <<>> ELSE Tail(@)]
        /\ sdk' = [sdk EXCEPT ![c] = IF r.kind = "terminal" THEN "done" ELSE @]
        /\ srv' = [srv EXCEPT ![c] = IF r.kind = "terminal" THEN "none" ELSE @]
  /\ UNCHANGED <<logVars, snap, cursor, batch, sig, bus, busReg, nBuses, silent, attempts,
                 result>>

\* Variant: the limit is compared before the attempt is counted.
Reconnecting_OffByOne(c) ==
  IF attempts[c] > MaxReconnect THEN "failed" ELSE "connecting"

\* The except branch: count the attempt, give up past the limit.
Reconnecting(c) ==
  IF attempts[c] + 1 > MaxReconnect THEN "failed" ELSE "connecting"

Disconnected(C) ==
  /\ attempts' = [c \in Clients |-> IF c \in C THEN attempts[c] + 1 ELSE attempts[c]]
  /\ sdk' = [c \in Clients |-> IF c \in C THEN Reconnecting(c) ELSE sdk[c]]
  /\ chan' = [c \in Clients |-> IF c \in C THEN <<>> ELSE chan[c]]
  /\ batch' = [c \in Clients |-> IF c \in C THEN <<>> ELSE batch[c]]
  /\ srv' = [c \in Clients |-> IF c \in C THEN "none" ELSE srv[c]]

\* The server closed the stream and no terminal event was seen.
ClientEof(c) ==
  /\ sdk[c] = "open" /\ srv[c] = "closed" /\ chan[c] = <<>>
  /\ Disconnected({c})
  /\ UNCHANGED <<logVars, snap, cursor, sig, bus, busReg, nBuses, silent, got, result>>

\* The connection breaks, or cannot be made (WorkerTransportError).
ConnectionLost(c) ==
  /\ sdk[c] \in {"connecting", "open"}
  /\ Disconnected({c})
  /\ UNCHANGED <<logVars, snap, cursor, sig, bus, busReg, nBuses, silent, got, result>>

\* The handshake is answered with another status than 200: WorkerSSEError at
\* once, whatever attempts are left.
HandshakeRefused(c) ==
  /\ sdk[c] = "connecting"
  /\ sdk' = [sdk EXCEPT ![c] = "failed"]
  /\ UNCHANGED <<logVars, srv, snap, cursor, batch, sig, bus, busReg, nBuses, chan, got,
                 silent, attempts, result>>

\* wait_until_terminal: get_task after the stream has ended; the WorkerSSEError
\* of an exhausted or refused stream is not caught and reaches the caller.
wait_until_terminal(c) ==
  /\ result[c] = "none" /\ sdk[c] \in {"done", "failed"} /\ Serving
  /\ result' = [result EXCEPT ![c] = IF sdk[c] = "failed" THEN "WorkerSSEError" ELSE status]
  /\ UNCHANGED <<logVars, srv, snap, cursor, batch, sig, bus, busReg, nBuses, chan,
                 sdk, got, silent, attempts>>

\* A crash breaks every open connection.
CrashAll ==
  /\ CrashRestart
  /\ Disconnected({c \in Clients : sdk[c] = "open"})
  /\ busReg' = NoBus
  /\ silent' = {}
  /\ UNCHANGED <<snap, cursor, sig, bus, nBuses, got, result>>

ServerStep(c) ==
  \/ Subscribe(c) \/ ReadHistory(c) \/ Poll(c) \/ YieldEvent(c)
  \/ ReplayDone(c) \/ PushDone(c) \/ Wake(c) \/ HeartbeatTimeout(c)

ClientStep(c) ==
  \/ task_events(c) \/ Receive(c) \/ ClientEof(c) \/ wait_until_terminal(c)

StreamNext ==
  \/ RunnerOnly
  \/ discard
  \/ \E w \in Writers : LogOnly(w) \/ CommitNotify(w) \/ CancelSilently(w)
  \/ \E c \in Clients :
       ServerStep(c) \/ ClientStep(c) \/ ConnectionLost(c) \/ HandshakeRefused(c)
  \/ CrashAll

StreamSpec == StreamInit /\ [][StreamNext]_vars

\* The event loop runs every ready coroutine and a client keeps reading.  That a
\* run ends is a hypothesis: its timeout does not ensure it (DriversReturn of
\* TaskLifecycle, TimeoutEndsRun of Driver).  Nothing obliges a connection to break or
\* the process to crash.
Fairness ==
  /\ WF_vars(RunnerTerminal /\ UNCHANGED streamVars)
  /\ WF_vars((MarkOrphanFailed \/ RecoverySkips) /\ UNCHANGED streamVars)
  /\ WF_vars(discard)
  /\ \A w \in Writers :
       WF_vars(LogOnly(w)) /\ WF_vars(CommitNotify(w))
  /\ \A c \in Clients : WF_vars(ServerStep(c)) /\ WF_vars(ClientStep(c))

FairSpec == StreamSpec /\ Fairness

(***************************************************************************)
(* Properties                                                              *)
(***************************************************************************)
\* Every variable of the endpoint and the SDK has its type; the SDK reconnects
\* at most MaxReconnect times (stream_events_with_reconnect).
StreamTypeOK ==
  /\ srv \in [Clients -> SrvStates]
  /\ snap \in [Clients -> BOOLEAN]
  /\ cursor \in [Clients -> Nat]
  /\ batch \in [Clients -> Seq(Rows)]
  /\ sig \in [Clients -> BOOLEAN]
  /\ nBuses \in Nat
  /\ bus \in [Clients -> 0..nBuses]
  /\ busReg \in 0..nBuses
  /\ chan \in [Clients -> Seq(Rows)]
  /\ sdk \in [Clients -> SdkStates]
  /\ got \in [Clients -> Seq(Rows)]
  /\ attempts \in [Clients -> 0..(MaxReconnect + 1)]
  /\ result \in [Clients -> {"none", "WorkerSSEError"} \cup Statuses]

\* Over any number of broken connections, reconnects and replays the caller of
\* stream_events gets the events in cursor order, none skipped, none twice.
ExactlyOnceInOrder ==
  \A c \in Clients : \A i \in DOMAIN got[c] : got[c][i].eid = i

\* The log, the endpoint and the SDK together implement the promise of
\* contract/event.py, over interleaved writers, broken connections and crashes.
Feed == INSTANCE EventFeed WITH log <- rows, kept <- durable, delivered <- got
ImplementsFeed == Feed!Spec

\* A generator does not sleep on a missed wakeup: if it waits on the registered
\* bus with its event clear, each row it has not read belongs to a writer that
\* has not reached notify, or was cancelled before it got there.
NoLostWakeup ==
  \A c \in Clients :
    srv[c] = "wait" /\ ~sig[c] /\ bus[c] = busReg =>
      \A i \in (cursor[c] + 1)..Len(rows) :
        i \in silent \/ \E w \in Writers : eid[w] = i /\ pc[w] = "commit"

\* The bus is discarded without stranding a subscriber: a generator that still
\* waits then has been signalled (the comment in queue._run_one: remaining
\* subscribers exit from the terminal event).
NoStrandedSubscriber ==
  discarded => \A c \in Clients : srv[c] = "wait" => sig[c]

\* Every call of wait_until_terminal ends: with a snapshot or WorkerSSEError.
WaitEnds == \A c \in Clients : <>(result[c] # "none")

(***************************************************************************)
(* Statements of the repository the code does not meet                     *)
(***************************************************************************)
\* routes.task_events: the server closes the stream of a finished task after it
\* has pushed the terminal event.
ClosedAfterTerminalEvent ==
  \A c \in Clients :
    srv[c] = "closed" =>
      \E i \in DOMAIN rows : rows[i].kind = "terminal" /\ rows[i].eid <= cursor[c]

\* contract/event.py: reconnecting with Last-Event-ID loses no event, that is,
\* what a client has received is still in the log and the log continues it.
DeliveredIsKept ==
  \A c \in Clients : Len(got[c]) <= Len(rows) /\ got[c] = SubSeq(rows, 1, Len(got[c]))

\* docs/worker-sdk-usage.md: when the reconnects are exhausted without a
\* terminal event, wait_until_terminal falls back to the task snapshot.
ExhaustedFallsBackToSnapshot ==
  [][\A c \in Clients :
       status = "terminal" /\ result'[c] # result[c] => result'[c] # "WorkerSSEError"]_vars
=============================================================================
