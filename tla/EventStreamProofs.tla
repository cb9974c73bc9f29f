-------------------------- MODULE EventStreamProofs --------------------------
(***************************************************************************)
(* Proofs about EventStream: the composition implements EventLog and       *)
(* EventFeed, for any number of writers, clients, reconnects and crashes.  *)
(***************************************************************************)
EXTENDS EventStream, EventLogProofs, FiniteSetTheorems

(***************************************************************************)
(* The inductive invariant, beside the one of EventLog                     *)
(***************************************************************************)
Streaming == {"replay", "push"}
Live == {"push", "wait"}

\* A client without a connection has nothing on the server or on the wire, and
\* the generator holds rows only while it yields them.
NothingInFlight(c) ==
  /\ sdk[c] # "open" => srv[c] = "none" /\ chan[c] = <<>>
  /\ srv[c] \notin Streaming => batch[c] = <<>>

\* What was received, what is on the wire and what the generator still has to
\* yield continue each other; the last two are rows of the log.
CursorFits(c) == sdk[c] = "open" => cursor[c] = Len(got[c]) + Len(chan[c])
ChanFits(c) ==
  \A i \in 1..Len(chan[c]) :
    Len(got[c]) + i <= Len(rows) /\ chan[c][i] = rows[Len(got[c]) + i]
BatchFits(c) ==
  \A i \in 1..Len(batch[c]) :
    cursor[c] + i <= Len(rows) /\ batch[c][i] = rows[cursor[c] + i]

\* A terminal event ends the generator that sends it and the client that gets it.
TerminalIsLast(c) ==
  /\ sdk[c] # "done" => \A i \in 1..Len(got[c]) : got[c][i].kind # "terminal"
  /\ srv[c] # "closed" => \A i \in 1..Len(chan[c]) : chan[c][i].kind # "terminal"

\* Only a crash takes back rows that were received.
ReceivedIsLogged(c) ==
  crashes = 0 => \A i \in 1..Len(got[c]) : i <= Len(rows) /\ got[c][i] = rows[i]

InOrder(c) == \A i \in 1..Len(got[c]) : got[c][i].eid = i

Follows(c) ==
  /\ NothingInFlight(c) /\ CursorFits(c) /\ ChanFits(c) /\ BatchFits(c)
  /\ TerminalIsLast(c) /\ ReceivedIsLogged(c) /\ InOrder(c)

\* Only a process that has not crashed discards the bus.
Over == discarded \/ pc[Runner] = "written"
OverIsOrderly == Over => crashes = 0

\* Until the bus is discarded every generator is subscribed to the registered one.
BusFits(c) == Subscribed(c) => bus[c] # NoBus /\ (~discarded => bus[c] = busReg)

\* A row the generator has not read, and has not been woken for, is one whose
\* writer has not come to notify or never will.
Unnotified(i) == i \in silent \/ \E w \in Writers : eid[w] = i /\ pc[w] = "commit"
WakeupPending(c) ==
  srv[c] \in Live /\ ~sig[c] /\ bus[c] = busReg =>
    \A i \in (cursor[c] + Len(batch[c]) + 1)..Len(rows) : Unnotified(i)

\* Once the runner has written its terminal event, a generator is woken or is
\* about to yield a terminal event.
EndPending(c) ==
  Over /\ srv[c] \in Live =>
    sig[c] \/ \E i \in 1..Len(batch[c]) : batch[c][i].kind = "terminal"

\* Only a client that may still reconnect is connected.
AttemptsLeft ==
  \A c \in Clients : sdk[c] \in {"connecting", "open"} => attempts[c] <= MaxReconnect

StreamIInv ==
  /\ StreamTypeOK /\ AttemptsLeft /\ OverIsOrderly
  /\ \A c \in Clients : Follows(c) /\ BusFits(c) /\ WakeupPending(c) /\ EndPending(c)

(***************************************************************************)
(* The stream does to the log what the log allows                          *)
(***************************************************************************)
LEMMA StepIsLogStep ==
  ASSUME [StreamNext]_vars
  PROVE  [Next]_logVars
<1>1. CASE RunnerOnly
  BY <1>1 DEF RunnerOnly, Next, RunnerStep
<1>2. CASE discard
  BY <1>2 DEF discard, Next, RunnerStep
<1>3. ASSUME NEW w \in Writers, LogOnly(w) \/ CommitNotify(w) \/ CancelSilently(w)
      PROVE  Next
  BY <1>3 DEF LogOnly, CommitNotify, CancelSilently, Next, WriterStep
<1>4. ASSUME NEW c \in Clients, ServerStep(c) \/ ClientStep(c) \/ ConnectionLost(c)
                               \/ HandshakeRefused(c)
      PROVE  UNCHANGED logVars
  BY <1>4
    DEF ServerStep, ClientStep, ConnectionLost, HandshakeRefused, Subscribe, ReadHistory, Poll, ReadEvents,
        YieldEvent, ReplayDone, PushDone, Wake, HeartbeatTimeout, task_events, Receive,
        ClientEof, wait_until_terminal
<1>5. CASE CrashAll
  BY <1>5 DEF CrashAll, Next
<1>6. CASE UNCHANGED vars
  BY <1>6 DEF vars
<1> QED BY <1>1, <1>2, <1>3, <1>4, <1>5, <1>6 DEF StreamNext

\* The endpoint and the SDK leave the event log alone: everything proved of
\* EventLog holds of the composition.
THEOREM StreamImplementsLog == StreamSpec => Spec
<1>1. StreamInit => Init
  BY DEF StreamInit
<1>2. [StreamNext]_vars => [Next]_logVars
  BY StepIsLogStep
<1> QED BY <1>1, <1>2, PTL DEF StreamSpec, Spec

(***************************************************************************)
(* get_events_after returns the rows after the cursor, in order            *)
(***************************************************************************)
LEMMA CountRows ==
  ASSUME TypeOK, GapFree, NEW a \in Nat, NEW b \in Nat, a <= b, b <= Len(rows)
  PROVE  /\ IsFiniteSet({rows[h] : h \in (a+1)..b})
         /\ Cardinality({rows[h] : h \in (a+1)..b}) = b - a
<1> DEFINE S == (a+1)..b
           T == {rows[h] : h \in S}
           f == [h \in S |-> rows[h]]
<1>1. \A h \in S : h \in DOMAIN rows /\ rows[h].eid = h
  BY DEF TypeOK, GapFree
<1>2. f \in Surjection(S, T)
  BY DEF Surjection
<1>3. f \in Injection(S, T)
  BY <1>1 DEF Injection, IsInjective
<1>4. IsFiniteSet(S) /\ Cardinality(S) = b - a
  <2>1. a + 1 \in Int /\ b \in Int
    OBVIOUS
  <2>2. IsFiniteSet(S) /\ Cardinality(S) = IF a + 1 > b THEN 0 ELSE b - (a + 1) + 1
    BY <2>1, FS_Interval
  <2> HIDE DEF S
  <2> QED BY <2>2
<1>5. IsFiniteSet(T) /\ Cardinality(T) = Cardinality(S)
  <2> HIDE DEF f, S, T
  <2> QED BY <1>2, <1>3, <1>4, FS_Surjection
<1> QED BY <1>4, <1>5

LEMMA ReadRows ==
  ASSUME TypeOK, GapFree, NEW k \in Nat
  PROVE  /\ get_events_after(k) \in Seq(Rows)
         /\ k + Len(get_events_after(k)) >= Len(rows)
         /\ \A i \in 1..Len(get_events_after(k)) :
              k + i <= Len(rows) /\ get_events_after(k)[i] = rows[k + i]
<1> DEFINE n == Len(rows)
           R == {r \in {rows[i] : i \in DOMAIN rows} : r.eid > k}
<1>0. rows \in Seq(Rows) /\ n \in Nat /\ DOMAIN rows = 1..n /\ \A i \in 1..n : rows[i] \in Rows
  BY DEF TypeOK
<1>1. \A i \in 1..n : rows[i].eid = i
  BY <1>0 DEF GapFree
<1>2. R = {rows[h] : h \in (k+1)..n}
  BY <1>0, <1>1
<1>3. CASE k >= n
  <2>1. R = {}
    BY <1>0, <1>2, <1>3
  <2>2. Cardinality(R) = 0
    BY <2>1, FS_EmptySet
  <2>3. get_events_after(k) = [j \in 1..0 |-> CHOOSE r \in R : Cardinality({s \in R : s.eid <= r.eid}) = j]
    BY <2>2 DEF get_events_after, OrderById
  <2>4. get_events_after(k) = <<>>
    BY <2>3
  <2> QED BY <2>4, <1>0, <1>3
<1>4. CASE k < n
  <2>1. Cardinality(R) = n - k
    <3>1. k <= n /\ n <= Len(rows)
      BY <1>0, <1>4
    <3>2. Cardinality({rows[h] : h \in (k+1)..n}) = n - k
      <4> HIDE DEF R
      <4> QED BY <1>0, <3>1, CountRows
    <3> QED BY <3>2, <1>2
  <2>2. ASSUME NEW i \in (k+1)..n
        PROVE  Cardinality({s \in R : s.eid <= rows[i].eid}) = i - k
    <3>1. {s \in R : s.eid <= rows[i].eid} = {rows[h] : h \in (k+1)..i}
      BY <1>0, <1>1, <1>2
    <3>2. i \in Nat /\ k <= i /\ i <= Len(rows)
      BY <1>0
    <3>3. Cardinality({rows[h] : h \in (k+1)..i}) = i - k
      <4> HIDE DEF R
      <4> QED BY <3>2, CountRows
    <3> QED BY <3>1, <3>3
  <2>3. ASSUME NEW j \in 1..(n - k)
        PROVE  (CHOOSE r \in R : Cardinality({s \in R : s.eid <= r.eid}) = j) = rows[k + j]
    <3>1. k + j \in (k+1)..n
      BY <1>0
    <3>2. rows[k + j] \in R /\ Cardinality({s \in R : s.eid <= rows[k + j].eid}) = j
      BY <1>0, <1>2, <3>1, <2>2
    <3>3. \A r \in R : Cardinality({s \in R : s.eid <= r.eid}) = j => r = rows[k + j]
      <4> SUFFICES ASSUME NEW r \in R, Cardinality({s \in R : s.eid <= r.eid}) = j
                   PROVE  r = rows[k + j]
        OBVIOUS
      <4>1. PICK i \in (k+1)..n : r = rows[i]
        BY <1>2
      <4>2. i - k = j
        BY <4>1, <2>2
      <4>3. i = k + j
        BY <4>2, <1>0
      <4> QED BY <4>1, <4>3
    <3> HIDE DEF R
    <3> QED BY <3>2, <3>3
  <2>4. get_events_after(k) = [j \in 1..(n - k) |-> rows[k + j]]
    <3>1. get_events_after(k)
            = [j \in 1..(n - k) |-> CHOOSE r \in R : Cardinality({s \in R : s.eid <= r.eid}) = j]
      BY <2>1 DEF get_events_after, OrderById
    <3> HIDE DEF R
    <3> QED BY <3>1, <2>3
  <2>5. n - k \in Nat /\ \A j \in 1..(n - k) : k + j \in 1..n
    BY <1>0, <1>4
  <2> HIDE DEF R, n
  <2>6. get_events_after(k) \in Seq(Rows) /\ Len(get_events_after(k)) = n - k
    BY <2>4, <2>5, <1>0
  <2>7. \A i \in 1..(n - k) : get_events_after(k)[i] = rows[k + i]
    BY <2>4
  <2> USE DEF n
  <2> QED BY <2>5, <2>6, <2>7, <1>0
<1> QED BY <1>0, <1>3, <1>4

(***************************************************************************)
(* Types                                                                   *)
(***************************************************************************)
\* What a step of the writers does to the rows: nothing, or one row at the end.
LEMMA WriterRows ==
  ASSUME IInv, NEW w \in Writers, LogOnly(w) \/ CommitNotify(w) \/ CancelSilently(w)
  PROVE  \/ rows' = rows
         \/ /\ pc[w] = "insert" /\ eid[w] = Len(rows) + 1 /\ NewRow(w) \in Rows
            /\ rows' = Append(rows, NewRow(w))
<1>1. ASSUME pc[w] = "insert", ~Conflict(w), rows' = Append(rows, NewRow(w))
      PROVE  eid[w] = Len(rows) + 1 /\ NewRow(w) \in Rows
  <2>1. eid[w] = Len(rows) + 1
    BY <1>1, AppendRow DEF IInv
  <2>2. kind[w] \in Kinds /\ Len(rows) \in Nat
    BY DEF IInv, TypeOK
  <2> QED BY <2>1, <2>2 DEF NewRow, Rows
<1>2. \/ rows' = rows
      \/ pc[w] = "insert" /\ ~Conflict(w) /\ rows' = Append(rows, NewRow(w))
  BY DEF LogOnly, CommitNotify, CancelSilently, AbortCheck, AbortUpdate, HandlerStatus,
         insert_event, AcquireLock, _next_event_id, InsertRow, CommitRow, CancelInsert
<1> QED BY <1>1, <1>2

\* Unless the process crashes the log only grows.
LEMMA RowsGrow ==
  ASSUME IInv, [StreamNext]_vars, ~CrashAll
  PROVE  /\ Len(rows) <= Len(rows') /\ Len(rows) \in Nat /\ Len(rows') \in Nat
         /\ \A i \in 1..Len(rows) : rows'[i] = rows[i]
         /\ crashes' = crashes
<1>0. rows \in Seq(Rows) /\ Len(rows) \in Nat
  BY DEF IInv, TypeOK
<1>1. CASE RunnerOnly
  BY <1>0, <1>1
    DEF RunnerOnly, RunnerProgress, RunnerTerminal, MarkOrphanFailed, RecoverySkips
<1>2. CASE discard
  BY <1>0, <1>2 DEF discard, discard_task_locks
<1>3. ASSUME NEW w \in Writers, LogOnly(w) \/ CommitNotify(w) \/ CancelSilently(w)
      PROVE  /\ Len(rows) <= Len(rows') /\ Len(rows') \in Nat
             /\ \A i \in 1..Len(rows) : rows'[i] = rows[i]
             /\ crashes' = crashes
  <2>1. crashes' = crashes
    BY <1>3
      DEF LogOnly, CommitNotify, CancelSilently, AbortCheck, AbortUpdate, HandlerStatus,
          insert_event, AcquireLock, _next_event_id, InsertRow, CommitRow, CancelInsert
  <2>2. rows' = rows \/ (NewRow(w) \in Rows /\ rows' = Append(rows, NewRow(w)))
    BY <1>3, WriterRows
  <2> QED BY <2>1, <2>2, <1>0
<1>4. ASSUME NEW c \in Clients, ServerStep(c) \/ ClientStep(c) \/ ConnectionLost(c)
                               \/ HandshakeRefused(c)
      PROVE  UNCHANGED <<rows, crashes>>
  BY <1>4
    DEF ServerStep, ClientStep, ConnectionLost, HandshakeRefused, Subscribe, ReadHistory, Poll, ReadEvents,
        YieldEvent, ReplayDone, PushDone, Wake, HeartbeatTimeout, task_events, Receive,
        ClientEof, wait_until_terminal, logVars
<1>5. CASE UNCHANGED vars
  BY <1>0, <1>5 DEF vars, logVars
<1> QED BY <1>0, <1>1, <1>2, <1>3, <1>4, <1>5 DEF StreamNext

\* A writer touches no connection; it may set events and the silent ids, and the
\* runner drops the bus.
LEMMA LogStepFrame ==
  ASSUME \/ RunnerOnly \/ discard
         \/ \E w \in Writers : LogOnly(w) \/ CommitNotify(w) \/ CancelSilently(w)
  PROVE  UNCHANGED <<srv, snap, cursor, batch, bus, nBuses, chan, sdk, got, attempts, result>>
BY DEF RunnerOnly, discard, LogOnly, CommitNotify, CancelSilently, streamVars

TypeAt(c) ==
  /\ srv[c] \in SrvStates /\ snap[c] \in BOOLEAN /\ cursor[c] \in Nat
  /\ batch[c] \in Seq(Rows) /\ chan[c] \in Seq(Rows) /\ got[c] \in Seq(Rows)
  /\ sdk[c] \in SdkStates /\ sig[c] \in BOOLEAN
Domains ==
  /\ srv = [c \in Clients |-> srv[c]] /\ cursor = [c \in Clients |-> cursor[c]]
  /\ batch = [c \in Clients |-> batch[c]] /\ chan = [c \in Clients |-> chan[c]]
  /\ got = [c \in Clients |-> got[c]] /\ sdk = [c \in Clients |-> sdk[c]]
  /\ sig = [c \in Clients |-> sig[c]] /\ bus = [c \in Clients |-> bus[c]]

LEMMA Typed ==
  ASSUME StreamTypeOK
  PROVE  Domains /\ \A c \in Clients : TypeAt(c)
BY DEF StreamTypeOK, Domains, TypeAt

ConnType ==
  /\ srv \in [Clients -> SrvStates] /\ snap \in [Clients -> BOOLEAN]
  /\ cursor \in [Clients -> Nat]
  /\ sdk \in [Clients -> SdkStates]
  /\ attempts \in [Clients -> 0..(MaxReconnect + 1)]
  /\ result \in [Clients -> {"none", "WorkerSSEError"} \cup Statuses]
RowsType ==
  /\ batch \in [Clients -> Seq(Rows)] /\ chan \in [Clients -> Seq(Rows)]
  /\ got \in [Clients -> Seq(Rows)]
BusType ==
  /\ sig \in [Clients -> BOOLEAN] /\ nBuses \in Nat
  /\ bus \in [Clients -> 0..nBuses] /\ busReg \in 0..nBuses

LEMMA TypeParts == StreamTypeOK <=> ConnType /\ RowsType /\ BusType
BY DEF StreamTypeOK, ConnType, RowsType, BusType

LEMMA RowFacts ==
  ASSUME NEW s \in Seq(Rows), s # <<>>
  PROVE  /\ Head(s) \in Rows /\ Tail(s) \in Seq(Rows)
         /\ Head(s).eid \in Nat \ {0} /\ Head(s).kind \in Kinds
         /\ Head(s) = s[1] /\ Len(s) \in Nat \ {0}
         /\ Len(Tail(s)) = Len(s) - 1
         /\ \A i \in 1..Len(Tail(s)) : Tail(s)[i] = s[i + 1]
<1>1. Head(s) \in Rows /\ Tail(s) \in Seq(Rows) /\ Head(s) = s[1] /\ Len(s) \in Nat \ {0}
  OBVIOUS
<1>2. Head(s).eid \in Nat \ {0} /\ Head(s).kind \in Kinds
  BY <1>1 DEF Rows
<1>3. Len(Tail(s)) = Len(s) - 1 /\ \A i \in 1..Len(Tail(s)) : Tail(s)[i] = s[i + 1]
  OBVIOUS
<1> QED BY <1>1, <1>2, <1>3

LEMMA DisconnectedTypes ==
  ASSUME ConnType, RowsType, AttemptsLeft, NEW C \in SUBSET Clients, Disconnected(C),
         \A c \in C : sdk[c] \in {"connecting", "open"},
         UNCHANGED <<snap, cursor, got, result>>
  PROVE  ConnType' /\ RowsType' /\ AttemptsLeft'
<1>1. \A c \in C : attempts[c] \in Nat /\ attempts[c] <= MaxReconnect
  BY DEF ConnType, AttemptsLeft
<1>2. attempts' \in [Clients -> 0..(MaxReconnect + 1)]
  BY <1>1, StreamAssumption DEF ConnType, Disconnected
<1>3. sdk' \in [Clients -> SdkStates] /\ srv' \in [Clients -> SrvStates]
  BY DEF ConnType, Disconnected, Reconnecting, SdkStates, SrvStates
<1>4. batch' \in [Clients -> Seq(Rows)] /\ chan' \in [Clients -> Seq(Rows)]
  BY DEF RowsType, Disconnected
<1>5. AttemptsLeft'
  <2> SUFFICES ASSUME NEW c \in Clients, sdk'[c] \in {"connecting", "open"}
               PROVE  attempts'[c] <= MaxReconnect
    BY DEF AttemptsLeft
  <2>1. CASE c \in C
    BY <1>1, <2>1, StreamAssumption DEF Disconnected, Reconnecting
  <2>2. CASE c \notin C
    BY <2>2 DEF Disconnected, AttemptsLeft
  <2> QED BY <2>1, <2>2
<1> QED BY <1>2, <1>3, <1>4, <1>5 DEF ConnType, RowsType

LEMMA StreamTypeStep ==
  ASSUME IInv, StreamTypeOK, AttemptsLeft, [StreamNext]_vars
  PROVE  StreamTypeOK' /\ AttemptsLeft'
<1>t. ConnType /\ RowsType /\ BusType /\ status \in Statuses
  BY TypeParts DEF IInv, TypeOK
<1>c. ASSUME UNCHANGED <<srv, snap, cursor, sdk, attempts, result>>
      PROVE  ConnType' /\ AttemptsLeft'
  BY <1>c, <1>t DEF ConnType, AttemptsLeft
<1>r. ASSUME UNCHANGED <<batch, chan, got>> PROVE RowsType'
  BY <1>r, <1>t DEF RowsType
<1>b. ASSUME UNCHANGED <<sig, nBuses, bus, busReg>> PROVE BusType'
  BY <1>b, <1>t DEF BusType
<1> DEFINE G == ConnType' /\ RowsType' /\ BusType' /\ AttemptsLeft'
<1>1. ASSUME RunnerOnly PROVE G
  BY <1>1, <1>c, <1>r, <1>b DEF RunnerOnly, streamVars
<1>2. ASSUME discard PROVE G
  <2>1. BusType'
    BY <1>2, <1>t DEF discard, BusType, NoBus
  <2> QED BY <1>2, <2>1, <1>c, <1>r DEF discard
<1>3. ASSUME NEW w \in Writers, LogOnly(w) \/ CancelSilently(w) PROVE G
  BY <1>3, <1>c, <1>r, <1>b DEF LogOnly, CancelSilently, streamVars
<1>4. ASSUME NEW w \in Writers, CommitNotify(w) PROVE G
  <2>1. sig' \in [Clients -> BOOLEAN]
    BY <1>4 DEF CommitNotify, notify
  <2>2. BusType'
    BY <1>4, <2>1, <1>t DEF CommitNotify, BusType
  <2> QED BY <1>4, <2>2, <1>c, <1>r DEF CommitNotify
<1>5. ASSUME NEW c \in Clients, task_events(c) PROVE G
  <2>1. last_cursor(c) \in Nat
    <3>1. got[c] \in Seq(Rows) /\ Len(got[c]) \in Nat
      BY <1>t DEF RowsType
    <3>2. got[c] # <<>> => got[c][Len(got[c])] \in Rows
      BY <3>1
    <3> QED BY <3>2 DEF last_cursor, Rows
  <2>2. ConnType'
    BY <1>5, <2>1, <1>t DEF task_events, ConnType, SdkStates, SrvStates
  <2>3. AttemptsLeft'
    BY <1>5, <1>t DEF task_events, AttemptsLeft, ConnType
  <2> QED BY <1>5, <2>2, <2>3, <1>r, <1>b DEF task_events
<1>6. ASSUME NEW c \in Clients, Subscribe(c) PROVE G
  <2>1. BusType'
    BY <1>6, <1>t DEF Subscribe, BusType, NoBus
  <2>2. ConnType' /\ AttemptsLeft'
    BY <1>6, <1>t DEF Subscribe, ConnType, SrvStates, AttemptsLeft
  <2> QED BY <1>6, <2>1, <2>2, <1>r DEF Subscribe
<1>7. ASSUME NEW c \in Clients, ReadHistory(c) \/ Poll(c) PROVE G
  <2>1. get_events_after(cursor[c]) \in Seq(Rows)
    BY <1>t, ReadRows DEF IInv, ConnType
  <2>2. RowsType'
    BY <1>7, <2>1, <1>t DEF ReadHistory, Poll, ReadEvents, RowsType
  <2>3. ConnType' /\ AttemptsLeft'
    BY <1>7, <1>t DEF ReadHistory, Poll, ReadEvents, ConnType, SrvStates, AttemptsLeft
  <2> QED BY <1>7, <2>2, <2>3, <1>b DEF ReadHistory, Poll, ReadEvents
<1>8. ASSUME NEW c \in Clients, YieldEvent(c) PROVE G
  <2>1. batch[c] \in Seq(Rows) /\ batch[c] # <<>> /\ chan[c] \in Seq(Rows)
    BY <1>8, <1>t DEF YieldEvent, RowsType
  <2>2. /\ Head(batch[c]) \in Rows /\ Tail(batch[c]) \in Seq(Rows)
        /\ Head(batch[c]).eid \in Nat
    BY <2>1, RowFacts
  <2>3. Append(chan[c], Head(batch[c])) \in Seq(Rows)
    BY <2>1, <2>2
  <2>4. RowsType'
    BY <1>8, <2>2, <2>3, <1>t DEF YieldEvent, RowsType
  <2>5. ConnType' /\ AttemptsLeft'
    BY <1>8, <2>2, <1>t DEF YieldEvent, ConnType, SrvStates, AttemptsLeft
  <2> QED BY <1>8, <2>4, <2>5, <1>b DEF YieldEvent
<1>9. ASSUME NEW c \in Clients, ReplayDone(c) \/ PushDone(c) \/ HeartbeatTimeout(c) PROVE G
  <2>1. ConnType' /\ AttemptsLeft'
    BY <1>9, <1>t DEF ReplayDone, PushDone, HeartbeatTimeout, ConnType, SrvStates, AttemptsLeft
  <2> QED BY <1>9, <2>1, <1>r, <1>b DEF ReplayDone, PushDone, HeartbeatTimeout
<1>10. ASSUME NEW c \in Clients, Wake(c) PROVE G
  <2>1. ConnType' /\ AttemptsLeft'
    BY <1>10, <1>t DEF Wake, ConnType, SrvStates, AttemptsLeft
  <2>2. BusType'
    BY <1>10, <1>t DEF Wake, BusType
  <2> QED BY <1>10, <2>1, <2>2, <1>r DEF Wake
<1>11. ASSUME NEW c \in Clients, Receive(c) PROVE G
  <2>1. chan[c] \in Seq(Rows) /\ chan[c] # <<>> /\ got[c] \in Seq(Rows)
    BY <1>11, <1>t DEF Receive, RowsType
  <2>2. Head(chan[c]) \in Rows /\ Tail(chan[c]) \in Seq(Rows)
    BY <2>1, RowFacts
  <2>3. Append(got[c], Head(chan[c])) \in Seq(Rows)
    BY <2>1, <2>2
  <2>4. RowsType'
    BY <1>11, <2>2, <2>3, <1>t DEF Receive, RowsType
  <2>5. ConnType' /\ AttemptsLeft'
    BY <1>11, <1>t DEF Receive, ConnType, SrvStates, SdkStates, AttemptsLeft
  <2> QED BY <1>11, <2>4, <2>5, <1>b DEF Receive
<1>12. ASSUME NEW c \in Clients, ClientEof(c) \/ ConnectionLost(c) PROVE G
  <2>1. ConnType' /\ RowsType' /\ AttemptsLeft'
    BY <1>12, <1>t, DisconnectedTypes DEF ClientEof, ConnectionLost
  <2> QED BY <1>12, <2>1, <1>b DEF ClientEof, ConnectionLost
<1>13. ASSUME NEW c \in Clients, wait_until_terminal(c) \/ HandshakeRefused(c) PROVE G
  <2>1. ConnType' /\ AttemptsLeft'
    BY <1>13, <1>t DEF wait_until_terminal, HandshakeRefused, ConnType, SdkStates, AttemptsLeft
  <2> QED BY <1>13, <2>1, <1>r, <1>b DEF wait_until_terminal, HandshakeRefused
<1>14. ASSUME CrashAll PROVE G
  <2>1. ConnType' /\ RowsType' /\ AttemptsLeft'
    BY <1>14, <1>t, DisconnectedTypes DEF CrashAll
  <2>2. BusType'
    BY <1>14, <1>t DEF CrashAll, BusType, NoBus
  <2> QED BY <2>1, <2>2
<1>15. ASSUME UNCHANGED vars PROVE G
  BY <1>15, <1>c, <1>r, <1>b DEF vars, streamVars
<1>16. ConnType' /\ RowsType' /\ BusType' /\ AttemptsLeft'
  BY <1>1, <1>2, <1>3, <1>4, <1>5, <1>6, <1>7, <1>8, <1>9, <1>10, <1>11, <1>12, <1>13,
     <1>14, <1>15 DEF StreamNext, ServerStep, ClientStep
<1> QED BY <1>16, TypeParts DEF StreamTypeOK, ConnType, RowsType, BusType

(***************************************************************************)
(* Received, on the wire, to be yielded: one run of rows                   *)
(***************************************************************************)
LEMMA Untouched ==
  ASSUME NEW c \in Clients, TypeAt(c), Follows(c),
         Len(rows) \in Nat, Len(rows') \in Nat, Len(rows) <= Len(rows'),
         \A i \in 1..Len(rows) : rows'[i] = rows[i], crashes' = crashes,
         /\ srv'[c] = srv[c] /\ sdk'[c] = sdk[c] /\ cursor'[c] = cursor[c]
         /\ batch'[c] = batch[c] /\ chan'[c] = chan[c] /\ got'[c] = got[c]
  PROVE  Follows(c)'
<1>1. /\ Len(got[c]) \in Nat /\ Len(chan[c]) \in Nat /\ Len(batch[c]) \in Nat
      /\ cursor[c] \in Nat
  BY DEF TypeAt
<1>2. NothingInFlight(c)' /\ CursorFits(c)' /\ TerminalIsLast(c)' /\ InOrder(c)'
  BY DEF Follows, NothingInFlight, CursorFits, TerminalIsLast, InOrder
<1>3. ChanFits(c)'
  <2>1. ASSUME NEW i \in 1..Len(chan[c])
        PROVE  Len(got[c]) + i <= Len(rows') /\ chan[c][i] = rows'[Len(got[c]) + i]
    <3>1. Len(got[c]) + i <= Len(rows) /\ chan[c][i] = rows[Len(got[c]) + i]
      BY DEF Follows, ChanFits
    <3>2. Len(got[c]) + i \in 1..Len(rows) /\ Len(got[c]) + i <= Len(rows')
      BY <1>1, <3>1
    <3> QED BY <3>1, <3>2
  <2> QED BY <2>1 DEF ChanFits
<1>5. BatchFits(c)'
  <2>1. ASSUME NEW i \in 1..Len(batch[c])
        PROVE  cursor[c] + i <= Len(rows') /\ batch[c][i] = rows'[cursor[c] + i]
    <3>1. cursor[c] + i <= Len(rows) /\ batch[c][i] = rows[cursor[c] + i]
      BY DEF Follows, BatchFits
    <3>2. cursor[c] + i \in 1..Len(rows) /\ cursor[c] + i <= Len(rows')
      BY <1>1, <3>1
    <3> QED BY <3>1, <3>2
  <2> QED BY <2>1 DEF BatchFits
<1>4. ReceivedIsLogged(c)'
  BY <1>1 DEF Follows, ReceivedIsLogged
<1> QED BY <1>2, <1>3, <1>4, <1>5 DEF Follows

LEMMA Shift ==
  ASSUME NEW a \in Nat, NEW n \in Nat
  PROVE  /\ (a + n) + 1 = a + (n + 1) /\ (a + 1) + (n - 1) = a + n
         /\ \A i \in 1..(n - 1) : i + 1 \in 1..n /\ a + (i + 1) = (a + 1) + i
OBVIOUS

\* A step of the endpoint or the SDK for c, which leaves the log alone.
LEMMA FollowsStep ==
  ASSUME IInv, StreamTypeOK, \A c \in Clients : Follows(c), [StreamNext]_vars
  PROVE  \A c \in Clients : Follows(c)'
<1>t. Domains /\ \A c \in Clients : TypeAt(c)
  BY Typed
<1>l. /\ rows \in Seq(Rows) /\ Len(rows) \in Nat
      /\ \A i \in 1..Len(rows) : rows[i].eid = i
  BY DEF IInv, TypeOK, GapFree
<1>n. \A c \in Clients :
        /\ Len(got[c]) \in Nat /\ Len(chan[c]) \in Nat /\ Len(batch[c]) \in Nat
        /\ cursor[c] \in Nat
  BY <1>t DEF TypeAt
<1>o. ASSUME NEW c \in Clients, UNCHANGED <<rows, crashes>>, Follows(c)',
             \A d \in Clients : d # c =>
               /\ srv'[d] = srv[d] /\ sdk'[d] = sdk[d] /\ cursor'[d] = cursor[d]
               /\ batch'[d] = batch[d] /\ chan'[d] = chan[d] /\ got'[d] = got[d]
      PROVE  \A d \in Clients : Follows(d)'
  BY <1>o, <1>t, <1>l, Untouched
<1>u. ASSUME ~CrashAll, UNCHANGED <<srv, sdk, cursor, batch, chan, got>>
      PROVE  \A c \in Clients : Follows(c)'
  BY <1>u, <1>t, RowsGrow, Untouched
<1>1. ASSUME \/ RunnerOnly \/ discard
             \/ \E w \in Writers : LogOnly(w) \/ CommitNotify(w) \/ CancelSilently(w)
      PROVE  \A c \in Clients : Follows(c)'
  <2>1. UNCHANGED <<srv, sdk, cursor, batch, chan, got>>
    BY <1>1, LogStepFrame
  <2>2. ~CrashAll
    <3>1. UNCHANGED crashes
      BY <1>1
        DEF RunnerOnly, RunnerProgress, RunnerTerminal, MarkOrphanFailed, RecoverySkips,
            discard, discard_task_locks, LogOnly, CommitNotify, CancelSilently, AbortCheck,
            AbortUpdate, HandlerStatus, insert_event, AcquireLock, _next_event_id, InsertRow,
            CommitRow, CancelInsert
    <3> QED BY <3>1 DEF CrashAll, CrashRestart, IInv, TypeOK
  <2> QED BY <2>1, <2>2, <1>u
<1>2. ASSUME NEW c \in Clients, task_events(c) PROVE \A d \in Clients : Follows(d)'
  <2>1. /\ sdk[c] = "connecting" /\ UNCHANGED <<rows, crashes, batch, chan, got>>
        /\ sdk' = [sdk EXCEPT ![c] = "open"] /\ srv' = [srv EXCEPT ![c] = "accepted"]
        /\ cursor' = [cursor EXCEPT ![c] = last_cursor(c)]
    BY <1>2 DEF task_events, logVars
  <2>2. sdk'[c] = "open" /\ srv'[c] = "accepted" /\ cursor'[c] = last_cursor(c)
    BY <2>1, <1>t DEF Domains
  <2>3. srv[c] = "none" /\ chan[c] = <<>> /\ batch[c] = <<>>
    BY <2>1 DEF Follows, NothingInFlight, Streaming
  <2>4. last_cursor(c) = Len(got[c])
    <3>1. got[c] \in Seq(Rows)
      BY <1>t DEF TypeAt
    <3>2. got[c] # <<>> => Len(got[c]) \in 1..Len(got[c])
      BY <3>1
    <3> QED BY <3>1, <3>2 DEF last_cursor, Follows, InOrder
  <2>5. Follows(c)'
    <3>1. NothingInFlight(c)' /\ ChanFits(c)' /\ BatchFits(c)' /\ TerminalIsLast(c)'
      BY <2>1, <2>2, <2>3, <1>n
        DEF Follows, NothingInFlight, ChanFits, BatchFits, TerminalIsLast, Streaming
    <3>2. CursorFits(c)'
      BY <2>1, <2>2, <2>3, <2>4, <1>n DEF CursorFits
    <3>3. ReceivedIsLogged(c)' /\ InOrder(c)'
      BY <2>1 DEF Follows, ReceivedIsLogged, InOrder
    <3> QED BY <3>1, <3>2, <3>3 DEF Follows
  <2> QED BY <2>1, <2>5, <1>o, <1>t DEF Domains
\* The generator moves on without yielding.
<1>m. ASSUME NEW c \in Clients, NEW s,
             UNCHANGED <<rows, crashes, batch, chan, got, sdk, cursor>>,
             srv' = [srv EXCEPT ![c] = s],
             srv[c] \notin {"none", "closed"}, s # "none", batch[c] = <<>>
      PROVE  \A d \in Clients : Follows(d)'
  <2>1. srv'[c] = s
    BY <1>m, <1>t DEF Domains
  <2>2. NothingInFlight(c)' /\ TerminalIsLast(c)' /\ CursorFits(c)'
    BY <1>m, <2>1 DEF Follows, NothingInFlight, TerminalIsLast, CursorFits
  <2>3. ChanFits(c)' /\ BatchFits(c)' /\ ReceivedIsLogged(c)' /\ InOrder(c)'
    BY <1>m DEF Follows, ChanFits, BatchFits, ReceivedIsLogged, InOrder
  <2>4. Follows(c)'
    BY <2>2, <2>3 DEF Follows
  <2> QED BY <1>m, <2>4, <1>o, <1>t DEF Domains
<1>3. ASSUME NEW c \in Clients,
             Subscribe(c) \/ ReplayDone(c) \/ PushDone(c) \/ Wake(c) \/ HeartbeatTimeout(c)
      PROVE  \A d \in Clients : Follows(d)'
  <2>1. batch[c] = <<>>
    BY <1>3
      DEF Subscribe, ReplayDone, PushDone, Wake, HeartbeatTimeout, Follows, NothingInFlight,
          Streaming
  <2>2. /\ UNCHANGED <<rows, crashes, batch, chan, got, sdk, cursor>>
        /\ \E s \in SrvStates \ {"none"} : srv' = [srv EXCEPT ![c] = s]
        /\ srv[c] \notin {"none", "closed"}
    BY <1>3
      DEF Subscribe, ReplayDone, PushDone, Wake, HeartbeatTimeout, SrvStates, logVars
  <2> QED BY <2>1, <2>2, <1>m
<1>4. ASSUME NEW c \in Clients, ReadHistory(c) \/ Poll(c) PROVE \A d \in Clients : Follows(d)'
  <2>1. /\ UNCHANGED <<rows, crashes, chan, got, sdk, cursor>>
        /\ srv[c] \in {"history", "poll"}
        /\ \E s \in Streaming : srv' = [srv EXCEPT ![c] = s]
        /\ batch' = [batch EXCEPT ![c] = get_events_after(cursor[c])]
    BY <1>4 DEF ReadHistory, Poll, ReadEvents, Streaming, logVars
  <2>2. srv'[c] \in Streaming /\ batch'[c] = get_events_after(cursor[c])
    BY <2>1, <1>t DEF Domains
  <2>3. NothingInFlight(c)' /\ TerminalIsLast(c)' /\ CursorFits(c)'
    BY <2>1, <2>2 DEF Follows, NothingInFlight, TerminalIsLast, CursorFits, Streaming
  <2>4. ChanFits(c)' /\ ReceivedIsLogged(c)' /\ InOrder(c)'
    BY <2>1 DEF Follows, ChanFits, ReceivedIsLogged, InOrder
  <2>5. BatchFits(c)'
    <3>1. TypeOK /\ GapFree /\ cursor[c] \in Nat
      BY <1>n DEF IInv
    <3>2. \A i \in 1..Len(get_events_after(cursor[c])) :
            /\ cursor[c] + i <= Len(rows)
            /\ get_events_after(cursor[c])[i] = rows[cursor[c] + i]
      BY <3>1, ReadRows
    <3> QED BY <2>1, <2>2, <3>2 DEF BatchFits
  <2>6. Follows(c)'
    BY <2>3, <2>4, <2>5 DEF Follows
  <2> QED BY <2>1, <2>6, <1>o, <1>t DEF Domains
<1>5. ASSUME NEW c \in Clients, YieldEvent(c) PROVE \A d \in Clients : Follows(d)'
  <2> DEFINE r == Head(batch[c])
  <2>1. /\ UNCHANGED <<rows, crashes, got, sdk>>
        /\ srv[c] \in Streaming /\ batch[c] # <<>>
        /\ cursor' = [cursor EXCEPT ![c] = r.eid]
        /\ chan' = [chan EXCEPT ![c] = Append(@, r)]
        /\ batch' = [batch EXCEPT ![c] = IF r.kind = "terminal" THEN <<>> ELSE Tail(@)]
        /\ srv' = [srv EXCEPT ![c] = IF r.kind = "terminal" THEN "closed" ELSE @]
    BY <1>5 DEF YieldEvent, Streaming, logVars
  <2>2. batch[c] \in Seq(Rows) /\ chan[c] \in Seq(Rows)
    BY <1>t DEF TypeAt
  <2>3. /\ Len(batch[c]) \in Nat \ {0} /\ r = batch[c][1] /\ r \in Rows
        /\ Len(Tail(batch[c])) = Len(batch[c]) - 1
        /\ \A i \in 1..Len(Tail(batch[c])) : Tail(batch[c])[i] = batch[c][i + 1]
    BY <2>1, <2>2, RowFacts
  <2>4. cursor[c] + 1 <= Len(rows) /\ r = rows[cursor[c] + 1]
    BY <2>3, <1>n DEF Follows, BatchFits
  <2>5. r.eid = cursor[c] + 1
    BY <2>4, <1>l, <1>n
  <2>6. sdk[c] = "open" /\ cursor[c] = Len(got[c]) + Len(chan[c])
    BY <2>1 DEF Follows, NothingInFlight, CursorFits, Streaming
  <2> HIDE DEF r
  <2>7. /\ cursor'[c] = cursor[c] + 1 /\ chan'[c] = Append(chan[c], r)
        /\ batch'[c] = IF r.kind = "terminal" THEN <<>> ELSE Tail(batch[c])
        /\ srv'[c] = IF r.kind = "terminal" THEN "closed" ELSE srv[c]
    BY <2>1, <2>5, <1>t DEF Domains
  <2>8. /\ Len(chan'[c]) = Len(chan[c]) + 1
        /\ \A i \in 1..Len(chan[c]) : chan'[c][i] = chan[c][i]
        /\ chan'[c][Len(chan[c]) + 1] = r
    BY <2>2, <2>3, <2>7
  <2>k. got'[c] = got[c] /\ rows' = rows
    BY <2>1
  <2>n. Len(got[c]) \in Nat /\ Len(chan[c]) \in Nat /\ cursor[c] \in Nat
    BY <1>n
  <2>s. (Len(got[c]) + Len(chan[c])) + 1 = Len(got[c]) + (Len(chan[c]) + 1)
    BY <2>n, Shift
  <2>9. CursorFits(c)'
    BY <2>6, <2>7, <2>8, <2>k, <2>s DEF CursorFits
  <2>10. ChanFits(c)'
    <3>1. ASSUME NEW i \in 1..(Len(chan[c]) + 1)
          PROVE  Len(got[c]) + i <= Len(rows) /\ chan'[c][i] = rows[Len(got[c]) + i]
      <4>1. CASE i \in 1..Len(chan[c])
        BY <2>8, <4>1 DEF Follows, ChanFits
      <4>2. CASE i = Len(chan[c]) + 1
        <5>1. cursor[c] + 1 = Len(got[c]) + i
          BY <2>6, <4>2, <2>s
        <5> QED BY <2>4, <2>8, <4>2, <5>1
      <4> QED BY <4>1, <4>2, <1>n
    <3> QED BY <2>8, <2>k, <3>1 DEF ChanFits
  <2>11. BatchFits(c)'
    <3>1. CASE r.kind = "terminal"
      BY <2>7, <3>1 DEF BatchFits
    <3>2. CASE r.kind # "terminal"
      <4>1. batch'[c] = Tail(batch[c])
        BY <2>7, <3>2
      <4>2. ASSUME NEW i \in 1..Len(Tail(batch[c]))
            PROVE  /\ (cursor[c] + 1) + i <= Len(rows)
                   /\ Tail(batch[c])[i] = rows[(cursor[c] + 1) + i]
        <5>0. Len(batch[c]) \in Nat /\ i \in 1..(Len(batch[c]) - 1)
          BY <2>3
        <5>1. i + 1 \in 1..Len(batch[c]) /\ cursor[c] + (i + 1) = (cursor[c] + 1) + i
          BY <5>0, <2>n, Shift
        <5>2. cursor[c] + (i + 1) <= Len(rows) /\ batch[c][i + 1] = rows[cursor[c] + (i + 1)]
          BY <5>1 DEF Follows, BatchFits
        <5> QED BY <2>3, <5>1, <5>2
      <4> QED BY <2>7, <2>k, <4>1, <4>2 DEF BatchFits
    <3> QED BY <3>1, <3>2
  <2>12. TerminalIsLast(c)'
    BY <2>1, <2>7, <2>8, <1>n DEF TerminalIsLast, Follows, Streaming
  <2>13. NothingInFlight(c)'
    BY <2>1, <2>6, <2>7 DEF NothingInFlight, Streaming
  <2>14. ReceivedIsLogged(c)' /\ InOrder(c)'
    BY <2>1 DEF Follows, ReceivedIsLogged, InOrder
  <2>15. Follows(c)'
    BY <2>9, <2>10, <2>11, <2>12, <2>13, <2>14 DEF Follows
  <2> QED BY <2>1, <2>15, <1>o, <1>t DEF Domains
<1>6. ASSUME NEW c \in Clients, Receive(c) PROVE \A d \in Clients : Follows(d)'
  <2> DEFINE r == Head(chan[c])
  <2>1. /\ UNCHANGED <<rows, crashes, batch, cursor>>
        /\ sdk[c] = "open" /\ chan[c] # <<>>
        /\ got' = [got EXCEPT ![c] = Append(@, r)]
        /\ chan' = [chan EXCEPT ![c] = IF r.kind = "terminal" THEN <<>> ELSE Tail(@)]
        /\ sdk' = [sdk EXCEPT ![c] = IF r.kind = "terminal" THEN "done" ELSE @]
        /\ srv' = [srv EXCEPT ![c] = IF r.kind = "terminal" THEN "none" ELSE @]
    BY <1>6 DEF Receive, logVars
  <2>2. chan[c] \in Seq(Rows) /\ got[c] \in Seq(Rows)
    BY <1>t DEF TypeAt
  <2>3. /\ Len(chan[c]) \in Nat \ {0} /\ r = chan[c][1] /\ r \in Rows
        /\ Len(Tail(chan[c])) = Len(chan[c]) - 1
        /\ \A i \in 1..Len(Tail(chan[c])) : Tail(chan[c])[i] = chan[c][i + 1]
    BY <2>1, <2>2, RowFacts
  <2>4. Len(got[c]) + 1 <= Len(rows) /\ r = rows[Len(got[c]) + 1]
    BY <2>3, <1>n DEF Follows, ChanFits
  <2>5. r.eid = Len(got[c]) + 1
    BY <2>4, <1>l, <1>n
  <2>6. r.kind = "terminal" => batch[c] = <<>>
    BY <2>3 DEF Follows, TerminalIsLast, NothingInFlight, Streaming
  <2> HIDE DEF r
  <2>7. /\ got'[c] = Append(got[c], r)
        /\ chan'[c] = IF r.kind = "terminal" THEN <<>> ELSE Tail(chan[c])
        /\ sdk'[c] = IF r.kind = "terminal" THEN "done" ELSE "open"
        /\ srv'[c] = IF r.kind = "terminal" THEN "none" ELSE srv[c]
    BY <2>1, <1>t DEF Domains
  <2>8. /\ Len(got'[c]) = Len(got[c]) + 1
        /\ \A i \in 1..Len(got[c]) : got'[c][i] = got[c][i]
        /\ got'[c][Len(got[c]) + 1] = r
    BY <2>2, <2>3, <2>7
  <2>9. NothingInFlight(c)' /\ BatchFits(c)'
    BY <2>1, <2>6, <2>7 DEF Follows, NothingInFlight, BatchFits
  <2>10. ChanFits(c)' /\ CursorFits(c)'
    <3>1. CASE r.kind = "terminal"
      BY <2>7, <3>1 DEF ChanFits, CursorFits
    <3>2. CASE r.kind # "terminal"
      <4>1. chan'[c] = Tail(chan[c]) /\ sdk'[c] = "open"
        BY <2>7, <3>2
      <4>k. cursor'[c] = cursor[c] /\ rows' = rows
        BY <2>1
      <4>2. CursorFits(c)'
        <5>1. cursor[c] = Len(got[c]) + Len(chan[c])
          BY <2>1 DEF Follows, CursorFits
        <5>2. (Len(got[c]) + 1) + (Len(chan[c]) - 1) = Len(got[c]) + Len(chan[c])
          BY <1>n, Shift
        <5>3. cursor'[c] = Len(got'[c]) + Len(chan'[c])
          BY <2>3, <2>8, <4>1, <4>k, <5>1, <5>2
        <5> QED BY <5>3 DEF CursorFits
      <4>3. ChanFits(c)'
        <5>1. ASSUME NEW i \in 1..Len(Tail(chan[c]))
              PROVE  /\ (Len(got[c]) + 1) + i <= Len(rows)
                     /\ Tail(chan[c])[i] = rows[(Len(got[c]) + 1) + i]
          <6>1. /\ i + 1 \in 1..Len(chan[c])
                /\ Len(got[c]) + (i + 1) = (Len(got[c]) + 1) + i
            <7>1. Len(chan[c]) \in Nat /\ i \in 1..(Len(chan[c]) - 1) /\ Len(got[c]) \in Nat
              BY <2>3, <1>n
            <7> QED BY <7>1, Shift
          <6>2. /\ Len(got[c]) + (i + 1) <= Len(rows)
                /\ chan[c][i + 1] = rows[Len(got[c]) + (i + 1)]
            BY <6>1 DEF Follows, ChanFits
          <6> QED BY <2>3, <6>1, <6>2
        <5> QED BY <2>8, <4>1, <4>k, <5>1 DEF ChanFits
      <4> QED BY <4>2, <4>3
    <3> QED BY <3>1, <3>2
  <2>11. TerminalIsLast(c)'
    <3>1. CASE r.kind = "terminal"
      BY <2>7, <3>1 DEF TerminalIsLast
    <3>2. CASE r.kind # "terminal"
      <4>1. chan'[c] = Tail(chan[c]) /\ sdk'[c] = "open" /\ srv'[c] = srv[c]
        BY <2>7, <3>2
      <4>2. \A i \in 1..Len(got'[c]) : got'[c][i].kind # "terminal"
        BY <2>1, <2>8, <3>2, <1>n DEF TerminalIsLast, Follows
      <4>3. srv'[c] # "closed" => \A i \in 1..Len(chan'[c]) : chan'[c][i].kind # "terminal"
        BY <2>3, <4>1, <1>n DEF TerminalIsLast, Follows
      <4> QED BY <4>2, <4>3 DEF TerminalIsLast
    <3> QED BY <3>1, <3>2
  <2>k. \A i : i \in 1..(Len(got[c]) + 1) <=> i \in 1..Len(got[c]) \/ i = Len(got[c]) + 1
    BY ONLY <1>n
  <2>12. InOrder(c)'
    <3>1. \A i \in 1..Len(got[c]) : got[c][i].eid = i
      BY DEF Follows, InOrder
    <3>2. \A i \in 1..Len(got'[c]) : got'[c][i].eid = i
      BY ONLY <2>5, <2>8, <2>k, <3>1
    <3> QED BY <3>2 DEF InOrder
  <2>13. ReceivedIsLogged(c)'
    <3>1. crashes = 0 => \A i \in 1..Len(got[c]) : i <= Len(rows) /\ got[c][i] = rows[i]
      BY DEF Follows, ReceivedIsLogged
    <3>2. crashes' = 0 =>
            \A i \in 1..Len(got'[c]) : i <= Len(rows') /\ got'[c][i] = rows'[i]
      BY <2>1, <2>4, <2>8, <2>k, <3>1
    <3> QED BY <3>2 DEF ReceivedIsLogged
  <2>14. Follows(c)'
    BY <2>9, <2>10, <2>11, <2>12, <2>13 DEF Follows
  <2> QED BY <2>1, <2>14, <1>o, <1>t DEF Domains
\* The connections of C are gone, with what they carried.
<1>d. ASSUME NEW C \in SUBSET Clients, Disconnected(C), UNCHANGED <<cursor, got>>,
             \A c \in C : sdk[c] \in {"connecting", "open"},
             NEW c \in C, crashes' = 0 => crashes = 0 /\ rows' = rows
      PROVE  Follows(c)'
  <2>1. /\ srv'[c] = "none" /\ chan'[c] = <<>> /\ batch'[c] = <<>>
        /\ sdk'[c] \in {"failed", "connecting"}
    BY <1>d DEF Disconnected, Reconnecting
  <2>2. NothingInFlight(c)' /\ CursorFits(c)' /\ ChanFits(c)' /\ BatchFits(c)'
    BY <2>1 DEF NothingInFlight, CursorFits, ChanFits, BatchFits
  <2>3. TerminalIsLast(c)' /\ InOrder(c)' /\ ReceivedIsLogged(c)'
    BY <1>d, <2>1 DEF Follows, TerminalIsLast, InOrder, ReceivedIsLogged
  <2> QED BY <2>2, <2>3 DEF Follows
<1>7. ASSUME NEW c \in Clients, ClientEof(c) \/ ConnectionLost(c)
      PROVE  \A d \in Clients : Follows(d)'
  <2>1. /\ Disconnected({c}) /\ UNCHANGED <<cursor, got, rows, crashes>>
        /\ sdk[c] \in {"connecting", "open"}
    BY <1>7 DEF ClientEof, ConnectionLost, logVars
  <2>2. Follows(c)'
    BY <2>1, <1>d
  <2>3. \A d \in Clients : d # c =>
          /\ srv'[d] = srv[d] /\ sdk'[d] = sdk[d] /\ cursor'[d] = cursor[d]
          /\ batch'[d] = batch[d] /\ chan'[d] = chan[d] /\ got'[d] = got[d]
    BY <2>1 DEF Disconnected
  <2> QED BY <2>1, <2>2, <2>3, <1>o
<1>8. ASSUME NEW c \in Clients, wait_until_terminal(c) PROVE \A d \in Clients : Follows(d)'
  <2>1. UNCHANGED <<rows, crashes, srv, sdk, cursor, batch, chan, got>>
    BY <1>8 DEF wait_until_terminal, logVars
  <2> QED BY <2>1, <1>t, <1>l, Untouched
<1>11. ASSUME NEW c \in Clients, HandshakeRefused(c) PROVE \A d \in Clients : Follows(d)'
  <2>1. UNCHANGED <<rows, crashes, srv, cursor, batch, chan, got>> /\ sdk[c] = "connecting"
        /\ sdk' = [sdk EXCEPT ![c] = "failed"]
    BY <1>11 DEF HandshakeRefused, logVars
  <2>2. /\ srv'[c] = "none" /\ chan'[c] = <<>> /\ batch'[c] = <<>>
        /\ sdk'[c] = "failed"
    BY <2>1, <1>t DEF Follows, NothingInFlight, Streaming, Domains
  <2>3. NothingInFlight(c)' /\ CursorFits(c)' /\ ChanFits(c)' /\ BatchFits(c)'
    BY <2>2 DEF NothingInFlight, CursorFits, ChanFits, BatchFits
  <2>4. TerminalIsLast(c)' /\ InOrder(c)' /\ ReceivedIsLogged(c)'
    BY <2>1, <2>2 DEF Follows, TerminalIsLast, InOrder, ReceivedIsLogged
  <2>5. Follows(c)'
    BY <2>3, <2>4 DEF Follows
  <2>6. \A d \in Clients : d # c => sdk'[d] = sdk[d]
    BY <2>1, <1>t DEF Domains
  <2> QED BY <2>1, <2>5, <2>6, <1>o
<1>9. ASSUME CrashAll PROVE \A c \in Clients : Follows(c)'
  <2> DEFINE C == {c \in Clients : sdk[c] = "open"}
  <2>1. /\ Disconnected(C) /\ UNCHANGED <<cursor, got>> /\ crashes' = crashes + 1
        /\ crashes \in Nat
    BY <1>9 DEF CrashAll, CrashRestart, IInv, TypeOK
  <2>2. \A c \in C : Follows(c)'
    BY <2>1, <1>d
  <2>3. ASSUME NEW c \in Clients, c \notin C PROVE Follows(c)'
    <3>1. /\ srv'[c] = "none" /\ chan'[c] = <<>> /\ batch'[c] = <<>> /\ sdk'[c] = sdk[c]
          /\ sdk[c] # "open"
      BY <2>1, <2>3 DEF Disconnected, Follows, NothingInFlight, Streaming
    <3>2. NothingInFlight(c)' /\ CursorFits(c)' /\ ChanFits(c)' /\ BatchFits(c)'
      BY <3>1 DEF NothingInFlight, CursorFits, ChanFits, BatchFits
    <3>3. TerminalIsLast(c)' /\ InOrder(c)' /\ ReceivedIsLogged(c)'
      BY <2>1, <3>1 DEF Follows, TerminalIsLast, InOrder, ReceivedIsLogged
    <3> QED BY <3>2, <3>3 DEF Follows
  <2> QED BY <2>2, <2>3
<1>10. ASSUME UNCHANGED vars PROVE \A c \in Clients : Follows(c)'
  <2>1. UNCHANGED <<rows, crashes, srv, sdk, cursor, batch, chan, got>>
    BY <1>10 DEF vars, logVars, streamVars
  <2> QED BY <2>1, <1>t, <1>l, Untouched
<1> QED BY <1>1, <1>2, <1>3, <1>4, <1>5, <1>6, <1>7, <1>8, <1>9, <1>10, <1>11
        DEF StreamNext, ServerStep, ClientStep

(***************************************************************************)
(* The bus                                                                 *)
(***************************************************************************)
\* The runner's terminal commit is what ends the task, in a process that has not
\* crashed before.
LEMMA OverFrom ==
  ASSUME IInv, [StreamNext]_vars
  PROVE  /\ Over' => Over \/ (CommitNotify(Runner) /\ crashes = 0)
         /\ CrashAll => ~Over'
<1>0. /\ pc \in [Writers -> PCs] /\ crashes \in Nat /\ Runner \in Writers
      /\ Runner \notin Handlers /\ Runner \notin Aborters
  BY WritersAssumption DEF IInv, TypeOK, Writers
<1>1. ASSUME RunnerOnly PROVE ~Over' \/ Over
  BY <1>1, <1>0
    DEF RunnerOnly, RunnerProgress, RunnerTerminal, MarkOrphanFailed, RecoverySkips, Over
<1>2. ASSUME discard PROVE Over
  BY <1>2 DEF discard, discard_task_locks, Over
<1>3. ASSUME NEW w \in Writers, LogOnly(w) \/ CancelSilently(w) PROVE ~Over' \/ Over
  <2>1. UNCHANGED discarded /\ \E l \in PCs \ {"written"} : pc' = [pc EXCEPT ![w] = l]
    BY <1>3, <1>0
      DEF LogOnly, CancelSilently, AbortCheck, AbortUpdate, HandlerStatus, insert_event,
          AcquireLock, _next_event_id, InsertRow, CancelInsert, PCs, Holding
  <2> QED BY <2>1, <1>0 DEF Over
<1>4. ASSUME NEW w \in Writers, CommitNotify(w), w # Runner PROVE ~Over' \/ Over
  BY <1>4, <1>0 DEF CommitNotify, CommitRow, Over
<1>5. ASSUME CommitNotify(Runner), Over', ~Over PROVE crashes = 0
  BY <1>5, <1>0 DEF CommitNotify, CommitRow, AfterInsert, Over
<1>6. ASSUME NEW c \in Clients, ServerStep(c) \/ ClientStep(c) \/ ConnectionLost(c)
                               \/ HandshakeRefused(c)
      PROVE  UNCHANGED <<pc, discarded>>
  BY <1>6
    DEF ServerStep, ClientStep, ConnectionLost, HandshakeRefused, Subscribe, ReadHistory, Poll, ReadEvents,
        YieldEvent, ReplayDone, PushDone, Wake, HeartbeatTimeout, task_events, Receive,
        ClientEof, wait_until_terminal, logVars
<1>7. ASSUME CrashAll PROVE ~Over'
  BY <1>7, <1>0 DEF CrashAll, CrashRestart, Over
<1>8. ASSUME UNCHANGED vars PROVE UNCHANGED <<pc, discarded>>
  BY <1>8 DEF vars, logVars
<1>9. ASSUME UNCHANGED <<pc, discarded>> PROVE ~Over' \/ Over
  BY <1>9 DEF Over
<1> QED BY <1>1, <1>2, <1>3, <1>4, <1>5, <1>6, <1>7, <1>8, <1>9 DEF StreamNext

LEMMA OverStep ==
  ASSUME IInv, OverIsOrderly, [StreamNext]_vars
  PROVE  OverIsOrderly'
<1>1. CASE CrashAll
  BY <1>1, OverFrom DEF OverIsOrderly
<1>2. CASE ~CrashAll
  BY <1>2, OverFrom, RowsGrow DEF OverIsOrderly
<1> QED BY <1>1, <1>2

\* After a crash no generator runs.
LEMMA CrashEndsAll ==
  ASSUME CrashAll, \A c \in Clients : NothingInFlight(c), NEW c \in Clients
  PROVE  srv'[c] = "none"
BY DEF CrashAll, Disconnected, NothingInFlight

\* Which generators are subscribed after a step, and to what.
LEMMA BusStep ==
  ASSUME IInv, StreamTypeOK, \A c \in Clients : Follows(c) /\ BusFits(c), [StreamNext]_vars
  PROVE  \A c \in Clients : BusFits(c)'
<1>t. Domains /\ nBuses \in Nat /\ busReg \in 0..nBuses /\ \A c \in Clients : bus[c] \in 0..nBuses
  BY Typed DEF StreamTypeOK
<1>u. ASSUME NEW c \in Clients, Subscribed(c)' => Subscribed(c), bus'[c] = bus[c],
             discarded' = discarded, busReg' = busReg
      PROVE  BusFits(c)'
  BY <1>u DEF BusFits
<1>1. ASSUME RunnerOnly \/ \E w \in Writers : LogOnly(w) \/ CommitNotify(w) \/ CancelSilently(w)
      PROVE  \A c \in Clients : BusFits(c)'
  <2>1. UNCHANGED <<srv, bus>>
    BY <1>1, LogStepFrame
  <2>2. UNCHANGED <<discarded, busReg>>
    BY <1>1
      DEF RunnerOnly, RunnerProgress, RunnerTerminal, MarkOrphanFailed, RecoverySkips,
          LogOnly, CommitNotify, CancelSilently, AbortCheck, AbortUpdate, HandlerStatus,
          insert_event, AcquireLock, _next_event_id, InsertRow, CommitRow, CancelInsert,
          streamVars
  <2> QED BY <2>1, <2>2, <1>u DEF Subscribed
<1>2. ASSUME discard PROVE \A c \in Clients : BusFits(c)'
  BY <1>2 DEF discard, discard_task_locks, BusFits, Subscribed
<1>3. ASSUME NEW c \in Clients, Subscribe(c) PROVE \A d \in Clients : BusFits(d)'
  <2> DEFINE b == IF busReg = NoBus THEN nBuses + 1 ELSE busReg
  <2>1. /\ busReg' = b /\ bus' = [bus EXCEPT ![c] = b] /\ UNCHANGED discarded
        /\ srv' = [srv EXCEPT ![c] = "history"]
    BY <1>3 DEF Subscribe, logVars
  <2>2. b # NoBus
    BY <1>t DEF NoBus
  <2>3. bus'[c] = b /\ \A d \in Clients \ {c} : bus'[d] = bus[d] /\ srv'[d] = srv[d]
    BY <2>1, <1>t DEF Domains
  <2>4. BusFits(c)'
    BY <2>1, <2>2, <2>3 DEF BusFits
  <2>5. ASSUME NEW d \in Clients, d # c PROVE BusFits(d)'
    BY <2>1, <2>3, <2>5 DEF BusFits, Subscribed
  <2> QED BY <2>4, <2>5
<1>4. ASSUME NEW c \in Clients,
             \/ task_events(c) \/ ReadHistory(c) \/ Poll(c) \/ YieldEvent(c) \/ ReplayDone(c)
             \/ PushDone(c) \/ Wake(c) \/ HeartbeatTimeout(c) \/ Receive(c)
             \/ wait_until_terminal(c) \/ HandshakeRefused(c)
      PROVE  \A d \in Clients : BusFits(d)'
  <2>1. UNCHANGED <<discarded, busReg, bus>>
    BY <1>4
      DEF ReadHistory, Poll, ReadEvents, YieldEvent, ReplayDone, PushDone, Wake,
          HeartbeatTimeout, task_events, Receive, wait_until_terminal, HandshakeRefused, logVars
  <2>2. \/ srv' = srv
        \/ \E s : /\ srv' = [srv EXCEPT ![c] = s]
                  /\ s \in {"none", "accepted", "closed", srv[c]} \/ Subscribed(c)
    BY <1>4
      DEF ReadHistory, Poll, ReadEvents, YieldEvent, ReplayDone, PushDone, Wake,
          HeartbeatTimeout, task_events, Receive, wait_until_terminal, HandshakeRefused, Subscribed
  <2>3. \A d \in Clients : Subscribed(d)' => Subscribed(d)
    BY <2>2, <1>t DEF Domains, Subscribed
  <2> QED BY <2>1, <2>3, <1>u
<1>5. ASSUME NEW c \in Clients, ClientEof(c) \/ ConnectionLost(c)
      PROVE  \A d \in Clients : BusFits(d)'
  <2>1. UNCHANGED <<discarded, busReg, bus>>
    BY <1>5 DEF ClientEof, ConnectionLost, logVars
  <2>2. \A d \in Clients : Subscribed(d)' => Subscribed(d)
    BY <1>5 DEF ClientEof, ConnectionLost, Disconnected, Subscribed
  <2> QED BY <2>1, <2>2, <1>u
<1>6. ASSUME CrashAll PROVE \A c \in Clients : BusFits(c)'
  BY <1>6, CrashEndsAll DEF BusFits, Subscribed, Follows
<1>7. ASSUME UNCHANGED vars PROVE \A c \in Clients : BusFits(c)'
  BY <1>7 DEF vars, logVars, streamVars, BusFits, Subscribed
<1> QED BY <1>1, <1>2, <1>3, <1>4, <1>5, <1>6, <1>7 DEF StreamNext, ServerStep, ClientStep

\* A writer that inserts a row is at its commit, or was cancelled there.
LEMMA RowIsAnnounced ==
  ASSUME IInv, NEW w \in Writers, LogOnly(w) \/ CancelSilently(w)
  PROVE  /\ \A i : Unnotified(i) => Unnotified(i)'
         /\ \A i : rows' # rows /\ i = Len(rows) + 1 => Unnotified(i)'
<1>0. pc \in [Writers -> PCs] /\ eid \in [Writers -> Nat]
  BY DEF IInv, TypeOK
<1>e. rows' # rows => eid[w] = Len(rows) + 1
  BY WriterRows
<1>1. CASE LogOnly(w)
  <2>1. /\ silent' = silent /\ pc[w] # "commit"
        /\ \A v \in Writers : v # w => pc'[v] = pc[v] /\ eid'[v] = eid[v]
    BY <1>1, <1>0
      DEF LogOnly, AbortCheck, AbortUpdate, HandlerStatus, insert_event, ReadyToInsert,
          AcquireLock, _next_event_id, InsertRow, streamVars
  <2>2. rows' # rows => pc'[w] = "commit" /\ eid'[w] = eid[w]
    BY <1>1, <1>0
      DEF LogOnly, AbortCheck, AbortUpdate, HandlerStatus, insert_event, AcquireLock,
          _next_event_id, InsertRow
  <2>3. \A i : Unnotified(i) => Unnotified(i)'
    BY <2>1 DEF Unnotified
  <2>4. \A i : rows' # rows /\ i = Len(rows) + 1 => Unnotified(i)'
    BY <2>2, <1>e DEF Unnotified
  <2> QED BY <2>3, <2>4
<1>2. CASE CancelSilently(w)
  <2>1. /\ eid' = eid /\ \A v \in Writers : v # w => pc'[v] = pc[v]
        /\ silent \subseteq silent'
        /\ rows' # rows \/ pc[w] = "commit" => eid[w] \in silent'
    BY <1>2, <1>0 DEF CancelSilently, CancelInsert
  <2>2. \A i : Unnotified(i) => Unnotified(i)'
    BY <2>1 DEF Unnotified
  <2>3. \A i : rows' # rows /\ i = Len(rows) + 1 => Unnotified(i)'
    BY <2>1, <1>e DEF Unnotified
  <2> QED BY <2>2, <2>3
<1> QED BY <1>1, <1>2

LEMMA WakeupStep ==
  ASSUME IInv, StreamTypeOK,
         \A c \in Clients : Follows(c) /\ BusFits(c) /\ WakeupPending(c), [StreamNext]_vars
  PROVE  \A c \in Clients : WakeupPending(c)'
<1>t. Domains /\ \A c \in Clients : TypeAt(c)
  BY Typed
<1>b. /\ nBuses \in Nat /\ busReg \in 0..nBuses
      /\ \A c \in Clients : bus[c] \in 0..nBuses /\ cursor[c] \in Nat /\ Len(batch[c]) \in Nat
  BY <1>t DEF StreamTypeOK, TypeAt
<1>l. rows \in Seq(Rows) /\ Len(rows) \in Nat
  BY DEF IInv, TypeOK
<1>s. \A c \in Clients : srv[c] \in Live => bus[c] # NoBus
  BY DEF Live, Subscribed, BusFits
\* A step that does not concern the generator, or takes it out of the live phase.
<1>u. ASSUME NEW c \in Clients, UNCHANGED <<rows, silent, eid, pc, busReg>>,
             srv'[c] \in Live =>
               /\ srv[c] \in Live /\ cursor'[c] = cursor[c] /\ batch'[c] = batch[c]
               /\ sig'[c] = sig[c] /\ bus'[c] = bus[c]
      PROVE  WakeupPending(c)'
  BY <1>u DEF WakeupPending, Unnotified
<1>1. ASSUME RunnerOnly PROVE \A c \in Clients : WakeupPending(c)'
  <2>0. pc \in [Writers -> PCs] /\ Runner \in Writers
    BY DEF IInv, TypeOK, Writers
  <2>1. /\ UNCHANGED <<rows, silent, eid, srv, cursor, batch, sig, bus, busReg>>
        /\ pc[Runner] # "commit" /\ \A w \in Writers : w # Runner => pc'[w] = pc[w]
    BY <1>1, <2>0
      DEF RunnerOnly, RunnerProgress, RunnerTerminal, MarkOrphanFailed, RecoverySkips, streamVars
  <2>2. \A i : Unnotified(i) => Unnotified(i)'
    BY <2>1 DEF Unnotified
  <2> QED BY <2>1, <2>2 DEF WakeupPending
<1>2. ASSUME discard PROVE \A c \in Clients : WakeupPending(c)'
  BY <1>2, <1>s DEF discard, WakeupPending
<1>3. ASSUME NEW w \in Writers, LogOnly(w) \/ CancelSilently(w)
      PROVE  \A c \in Clients : WakeupPending(c)'
  <2>1. UNCHANGED <<srv, cursor, batch, sig, bus, busReg>>
    BY <1>3 DEF LogOnly, CancelSilently, streamVars
  <2>2. /\ \A i : Unnotified(i) => Unnotified(i)'
        /\ \A i : rows' # rows /\ i = Len(rows) + 1 => Unnotified(i)'
    BY <1>3, RowIsAnnounced
  <2>3. rows' = rows \/ Len(rows') = Len(rows) + 1
    BY <1>3, <1>l, WriterRows
  <2> SUFFICES ASSUME NEW c \in Clients, srv[c] \in Live, ~sig[c], bus[c] = busReg,
                      NEW i \in (cursor[c] + Len(batch[c]) + 1)..Len(rows')
               PROVE  Unnotified(i)'
    BY <2>1 DEF WakeupPending
  <2>4. CASE i \in (cursor[c] + Len(batch[c]) + 1)..Len(rows)
    BY <2>2, <2>4 DEF WakeupPending
  <2>5. CASE rows' # rows /\ i = Len(rows) + 1
    BY <2>2, <2>5
  <2>6. cursor[c] + Len(batch[c]) + 1 \in Nat
    BY <1>b
  <2> HIDE DEF Unnotified
  <2> QED BY <2>3, <2>4, <2>5, <2>6, <1>l
<1>4. ASSUME NEW w \in Writers, CommitNotify(w) PROVE \A c \in Clients : WakeupPending(c)'
  <2>1. \A c \in Clients : Subscribed(c) /\ bus[c] = busReg => sig'[c]
    BY <1>4 DEF CommitNotify, notify
  <2>2. UNCHANGED <<srv, bus, busReg>>
    BY <1>4 DEF CommitNotify
  <2> QED BY <2>1, <2>2 DEF WakeupPending, Subscribed, Live
<1>5. ASSUME NEW c \in Clients, Subscribe(c) PROVE \A d \in Clients : WakeupPending(d)'
  <2>1. /\ busReg' = (IF busReg = NoBus THEN nBuses + 1 ELSE busReg)
        /\ \A d \in Clients \ {c} : bus'[d] = bus[d] /\ srv'[d] = srv[d] /\ sig'[d] = sig[d]
        /\ srv'[c] = "history"
        /\ UNCHANGED <<rows, silent, eid, pc, cursor, batch>>
    BY <1>5, <1>t DEF Subscribe, logVars, Domains
  <2>2. WakeupPending(c)'
    BY <2>1 DEF WakeupPending, Live
  <2>3. ASSUME NEW d \in Clients, d # c PROVE WakeupPending(d)'
    <3>1. srv[d] \in Live /\ bus[d] = busReg' => busReg' = busReg
      BY <2>1, <1>b, <1>s
    <3> QED BY <2>1, <2>3, <3>1 DEF WakeupPending, Unnotified
  <2> QED BY <2>2, <2>3
<1>6. ASSUME NEW c \in Clients, Poll(c) PROVE \A d \in Clients : WakeupPending(d)'
  <2>1. /\ UNCHANGED <<rows, silent, eid, pc, busReg, sig, bus, cursor>>
        /\ batch' = [batch EXCEPT ![c] = get_events_after(cursor[c])]
        /\ srv' = [srv EXCEPT ![c] = "push"]
    BY <1>6 DEF Poll, ReadEvents, logVars
  <2>2. batch'[c] = get_events_after(cursor[c])
    BY <2>1, <1>t DEF Domains
  <2>3. TypeOK /\ GapFree /\ cursor[c] \in Nat
    BY <1>b DEF IInv
  <2>4. /\ cursor[c] + Len(get_events_after(cursor[c])) >= Len(rows)
        /\ get_events_after(cursor[c]) \in Seq(Rows)
    BY <2>3, ReadRows
  <2>5. (cursor'[c] + Len(batch'[c]) + 1)..Len(rows') = {}
    <3>1. Len(batch'[c]) \in Nat /\ cursor[c] + Len(batch'[c]) >= Len(rows)
      BY <2>2, <2>4
    <3> HIDE DEF get_events_after
    <3> QED BY <3>1, <2>1, <2>3, <1>l
  <2>6. WakeupPending(c)'
    BY <2>5 DEF WakeupPending
  <2>7. \A d \in Clients \ {c} : WakeupPending(d)'
    BY <2>1, <1>t, <1>u DEF Domains
  <2> QED BY <2>6, <2>7
<1>7. ASSUME NEW c \in Clients, YieldEvent(c) PROVE \A d \in Clients : WakeupPending(d)'
  <2> DEFINE r == Head(batch[c])
  <2>1. /\ UNCHANGED <<rows, silent, eid, pc, busReg, sig, bus>>
        /\ srv[c] \in Streaming /\ batch[c] # <<>>
        /\ cursor' = [cursor EXCEPT ![c] = r.eid]
        /\ batch' = [batch EXCEPT ![c] = IF r.kind = "terminal" THEN <<>> ELSE Tail(@)]
        /\ srv' = [srv EXCEPT ![c] = IF r.kind = "terminal" THEN "closed" ELSE @]
    BY <1>7 DEF YieldEvent, Streaming, logVars
  <2>2. /\ Len(batch[c]) \in Nat \ {0} /\ r = batch[c][1]
        /\ Len(Tail(batch[c])) = Len(batch[c]) - 1
    BY <2>1, <1>t, RowFacts DEF TypeAt
  <2>3. cursor[c] + 1 <= Len(rows) /\ r = rows[cursor[c] + 1]
    BY <2>2, <1>b DEF Follows, BatchFits
  <2>4. r.eid = cursor[c] + 1
    BY <2>3, <1>b, <1>l DEF IInv, GapFree
  <2> HIDE DEF r
  <2>5. CASE r.kind = "terminal"
    <3>1. srv'[c] = "closed"
      BY <2>1, <2>5, <1>t DEF Domains
    <3> QED BY <2>1, <3>1, <1>t, <1>u DEF Domains, Live
  <2>6. CASE r.kind # "terminal"
    <3>1. srv'[c] = srv[c] /\ batch'[c] = Tail(batch[c]) /\ cursor'[c] = cursor[c] + 1
      BY <2>1, <2>4, <2>6, <1>t DEF Domains
    <3>2. (cursor[c] + 1) + (Len(batch[c]) - 1) = cursor[c] + Len(batch[c])
      BY <1>b, Shift
    <3>3. cursor'[c] + Len(batch'[c]) = cursor[c] + Len(batch[c])
      BY <2>2, <3>1, <3>2
    <3>4. WakeupPending(c)'
      BY <2>1, <3>1, <3>3 DEF WakeupPending, Unnotified
    <3>5. \A d \in Clients \ {c} : WakeupPending(d)'
      BY <2>1, <1>t, <1>u DEF Domains
    <3> QED BY <3>4, <3>5
  <2> QED BY <2>5, <2>6
<1>8. ASSUME NEW c \in Clients,
             \/ task_events(c) \/ ReadHistory(c) \/ ReplayDone(c) \/ PushDone(c)
             \/ HeartbeatTimeout(c) \/ Receive(c) \/ wait_until_terminal(c)
             \/ HandshakeRefused(c)
      PROVE  \A d \in Clients : WakeupPending(d)'
  <2>1. UNCHANGED <<rows, silent, eid, pc, busReg, sig, bus>>
    BY <1>8
      DEF task_events, ReadHistory, ReadEvents, ReplayDone, PushDone, HeartbeatTimeout,
          Receive, wait_until_terminal, HandshakeRefused, logVars
  <2>2. \A d \in Clients : srv'[d] \in Live =>
          srv[d] \in Live /\ cursor'[d] = cursor[d] /\ batch'[d] = batch[d]
    BY <1>8, <1>t
      DEF task_events, ReadHistory, ReadEvents, ReplayDone, PushDone, HeartbeatTimeout,
          Receive, wait_until_terminal, HandshakeRefused, Live, Domains
  <2> QED BY <2>1, <2>2, <1>u
<1>9. ASSUME NEW c \in Clients, Wake(c) PROVE \A d \in Clients : WakeupPending(d)'
  <2>1. UNCHANGED <<rows, silent, eid, pc, busReg, bus, cursor, batch>>
    BY <1>9 DEF Wake, logVars
  <2>2. srv'[c] = "poll" /\ \A d \in Clients \ {c} : srv'[d] = srv[d] /\ sig'[d] = sig[d]
    BY <1>9, <1>t DEF Wake, Domains
  <2> QED BY <2>1, <2>2, <1>u DEF Live
<1>10. ASSUME NEW c \in Clients, ClientEof(c) \/ ConnectionLost(c)
       PROVE  \A d \in Clients : WakeupPending(d)'
  <2>1. UNCHANGED <<rows, silent, eid, pc, busReg, sig, bus, cursor>>
    BY <1>10 DEF ClientEof, ConnectionLost, logVars
  <2>2. \A d \in Clients : srv'[d] \in Live => srv[d] \in Live /\ batch'[d] = batch[d]
    BY <1>10 DEF ClientEof, ConnectionLost, Disconnected, Live
  <2> QED BY <2>1, <2>2, <1>u
<1>11. ASSUME CrashAll PROVE \A c \in Clients : WakeupPending(c)'
  BY <1>11, CrashEndsAll DEF WakeupPending, Live, Follows
<1>12. ASSUME UNCHANGED vars PROVE \A c \in Clients : WakeupPending(c)'
  <2>1. UNCHANGED <<rows, silent, eid, pc, busReg, sig, bus, cursor, srv, batch>>
    BY <1>12 DEF vars, logVars, streamVars
  <2> QED BY <2>1, <1>u
<1> QED BY <1>1, <1>2, <1>3, <1>4, <1>5, <1>6, <1>7, <1>8, <1>9, <1>10, <1>11, <1>12
        DEF StreamNext, ServerStep, ClientStep

LEMMA Offset ==
  ASSUME NEW a \in Nat, NEW b \in Nat, NEW i \in Nat
  PROVE  /\ a + b \in Nat /\ (i <= a \/ (a < i /\ i <= a + b) \/ a + b < i)
         /\ a < i /\ i <= a + b => i - a \in 1..b /\ a + (i - a) = i
OBVIOUS

\* Once the task is over a generator that reads the table finds a terminal event:
\* had it been sent or received, the stream would have ended.
LEMMA TerminalAhead ==
  ASSUME IInv, StreamTypeOK, OverIsOrderly, Over, NEW c \in Clients, Follows(c),
         srv[c] \notin {"none", "closed"}
  PROVE  \E i \in 1..Len(rows) : cursor[c] < i /\ rows[i].kind = "terminal"
<1>1. PICK i \in 1..durable : rows[i].kind = "terminal"
  BY DEF Over, IInv, RunnerWritten, DiscardAfterTerminalRow
<1>2. i \in 1..Len(rows) /\ Len(rows) \in Nat
  BY DEF IInv, TypeOK
<1>n. Len(got[c]) \in Nat /\ Len(chan[c]) \in Nat
  BY Typed DEF TypeAt
<1>3. crashes = 0 /\ sdk[c] = "open" /\ cursor[c] = Len(got[c]) + Len(chan[c])
  BY DEF OverIsOrderly, Follows, NothingInFlight, CursorFits
<1>o. i \in Nat /\ i >= 1
  BY <1>2
<1>4. CASE i <= Len(got[c])
  <2>1. i \in 1..Len(got[c])
    BY <1>o, <1>n, <1>4
  <2>2. got[c][i] = rows[i] /\ got[c][i].kind # "terminal"
    BY <1>3, <2>1 DEF Follows, ReceivedIsLogged, TerminalIsLast
  <2> QED BY <1>1, <2>2
<1>5. CASE Len(got[c]) < i /\ i <= cursor[c]
  <2>1. /\ i - Len(got[c]) \in 1..Len(chan[c])
        /\ Len(got[c]) + (i - Len(got[c])) = i
    <3>1. Len(got[c]) < i /\ i <= Len(got[c]) + Len(chan[c])
      BY <1>3, <1>5
    <3> QED BY ONLY <3>1, <1>o, <1>n, Offset
  <2>2. chan[c][i - Len(got[c])].kind # "terminal"
    BY <2>1 DEF Follows, TerminalIsLast
  <2>3. chan[c][i - Len(got[c])] = rows[Len(got[c]) + (i - Len(got[c]))]
    BY <2>1 DEF Follows, ChanFits
  <2> QED BY <1>1, <2>1, <2>2, <2>3
<1>6. CASE cursor[c] < i
  BY <1>1, <1>2, <1>6
<1>7. i <= Len(got[c]) \/ (Len(got[c]) < i /\ i <= cursor[c]) \/ cursor[c] < i
  <2>1. cursor[c] = Len(got[c]) + Len(chan[c])
    BY <1>3
  <2>2. \/ i <= Len(got[c])
        \/ Len(got[c]) < i /\ i <= Len(got[c]) + Len(chan[c])
        \/ Len(got[c]) + Len(chan[c]) < i
    BY ONLY <1>o, <1>n, Offset, Zenon
  <2> QED BY ONLY <2>1, <2>2
<1> QED BY <1>4, <1>5, <1>6, <1>7

LEMMA EndStep ==
  ASSUME IInv, StreamTypeOK, OverIsOrderly, [StreamNext]_vars,
         \A c \in Clients : Follows(c) /\ BusFits(c) /\ EndPending(c)
  PROVE  \A c \in Clients : EndPending(c)'
<1>t. Domains /\ \A c \in Clients : TypeAt(c)
  BY Typed
<1>u. ASSUME NEW c \in Clients, Over' => Over,
             srv'[c] \in Live =>
               srv[c] \in Live /\ batch'[c] = batch[c] /\ (sig[c] => sig'[c])
      PROVE  EndPending(c)'
  BY <1>u DEF EndPending
<1>1. ASSUME RunnerOnly \/ discard \/ \E w \in Writers : LogOnly(w) \/ CancelSilently(w)
      PROVE  \A c \in Clients : EndPending(c)'
  <2>1. UNCHANGED <<srv, batch, sig>> /\ (Over' => Over \/ CommitNotify(Runner))
    BY <1>1, OverFrom DEF RunnerOnly, discard, LogOnly, CancelSilently, streamVars
  <2>2. ASSUME CommitNotify(Runner) PROVE \A c \in Clients : EndPending(c)'
    <3>1. ~discarded
      BY <2>2 DEF CommitNotify, CommitRow, IInv, RunnerWritten
    <3>2. \A c \in Clients : srv[c] \in Live => sig'[c]
      BY <2>2, <3>1 DEF CommitNotify, notify, BusFits, Subscribed, Live
    <3> QED BY <2>1, <3>2 DEF EndPending
  <2> QED BY <2>1, <2>2, <1>u
<1>2. ASSUME NEW w \in Writers, CommitNotify(w) PROVE \A c \in Clients : EndPending(c)'
  <2>1. UNCHANGED <<srv, batch>> /\ \A c \in Clients : sig[c] => sig'[c]
    BY <1>2 DEF CommitNotify, notify
  <2>2. ASSUME CommitNotify(Runner) PROVE \A c \in Clients : EndPending(c)'
    <3>1. ~discarded
      BY <2>2 DEF CommitNotify, CommitRow, IInv, RunnerWritten
    <3>2. \A c \in Clients : srv[c] \in Live => sig'[c]
      BY <2>2, <3>1 DEF CommitNotify, notify, BusFits, Subscribed, Live
    <3> QED BY <2>1, <3>2 DEF EndPending
  <2> QED BY <2>1, <2>2, <1>u, OverFrom
\* The rest leaves the log alone.
<1>n. ASSUME UNCHANGED logVars PROVE Over' => Over
  BY <1>n DEF Over, logVars
<1>3. ASSUME NEW c \in Clients, Poll(c) PROVE \A d \in Clients : EndPending(d)'
  <2>1. /\ UNCHANGED <<sig, cursor>> /\ UNCHANGED logVars /\ srv[c] = "poll"
        /\ batch' = [batch EXCEPT ![c] = get_events_after(cursor[c])]
        /\ srv' = [srv EXCEPT ![c] = "push"]
    BY <1>3 DEF Poll, ReadEvents
  <2>2. batch'[c] = get_events_after(cursor[c])
    BY <2>1, <1>t DEF Domains
  <2>3. TypeOK /\ GapFree /\ cursor[c] \in Nat /\ Len(rows) \in Nat
    BY <1>t DEF IInv, TypeOK, TypeAt
  <2>4. /\ get_events_after(cursor[c]) \in Seq(Rows)
        /\ cursor[c] + Len(get_events_after(cursor[c])) >= Len(rows)
        /\ \A i \in 1..Len(get_events_after(cursor[c])) :
             get_events_after(cursor[c])[i] = rows[cursor[c] + i]
    BY <2>3, ReadRows
  <2>5. ASSUME Over PROVE \E i \in 1..Len(batch'[c]) : batch'[c][i].kind = "terminal"
    <3>1. PICK i \in 1..Len(rows) : cursor[c] < i /\ rows[i].kind = "terminal"
      BY <2>1, <2>5, TerminalAhead
    <3> HIDE DEF get_events_after
    <3>2. Len(batch'[c]) \in Nat /\ cursor[c] + Len(batch'[c]) >= Len(rows)
      BY <2>2, <2>4
    <3>3. i - cursor[c] \in 1..Len(batch'[c]) /\ cursor[c] + (i - cursor[c]) = i
      BY <2>3, <3>1, <3>2
    <3>4. batch'[c][i - cursor[c]] = rows[cursor[c] + (i - cursor[c])]
      BY <2>2, <2>4, <3>3
    <3> QED BY <3>1, <3>3, <3>4
  <2>6. EndPending(c)'
    BY <2>1, <2>5, <1>n DEF EndPending
  <2>7. \A d \in Clients \ {c} : EndPending(d)'
    BY <2>1, <1>t, <1>n, <1>u DEF Domains
  <2> QED BY <2>6, <2>7
<1>4. ASSUME NEW c \in Clients, YieldEvent(c) PROVE \A d \in Clients : EndPending(d)'
  <2> DEFINE r == Head(batch[c])
  <2>1. /\ UNCHANGED logVars /\ UNCHANGED sig /\ batch[c] # <<>>
        /\ batch' = [batch EXCEPT ![c] = IF r.kind = "terminal" THEN <<>> ELSE Tail(@)]
        /\ srv' = [srv EXCEPT ![c] = IF r.kind = "terminal" THEN "closed" ELSE @]
    BY <1>4 DEF YieldEvent
  <2>2. /\ Len(batch[c]) \in Nat \ {0} /\ r = batch[c][1]
        /\ Len(Tail(batch[c])) = Len(batch[c]) - 1
        /\ \A i \in 1..Len(Tail(batch[c])) : Tail(batch[c])[i] = batch[c][i + 1]
    BY <2>1, <1>t, RowFacts DEF TypeAt
  <2> HIDE DEF r
  <2>3. CASE r.kind = "terminal"
    <3>1. srv'[c] = "closed"
      BY <2>1, <2>3, <1>t DEF Domains
    <3> QED BY <2>1, <3>1, <1>t, <1>n, <1>u DEF Domains, Live
  <2>4. CASE r.kind # "terminal"
    <3>1. srv'[c] = srv[c] /\ batch'[c] = Tail(batch[c]) /\ sig'[c] = sig[c]
      BY <2>1, <2>4, <1>t DEF Domains
    <3>2. ASSUME NEW i \in 1..Len(batch[c]), batch[c][i].kind = "terminal"
          PROVE  \E j \in 1..Len(batch'[c]) : batch'[c][j].kind = "terminal"
      <4>1. i # 1
        BY <2>2, <2>4, <3>2
      <4>2. i - 1 \in 1..Len(Tail(batch[c])) /\ (i - 1) + 1 = i
        BY <2>2, <4>1
      <4> QED BY <2>2, <3>1, <3>2, <4>2
    <3>3. EndPending(c)'
      BY <2>1, <3>1, <3>2, <1>n DEF EndPending
    <3>4. \A d \in Clients \ {c} : EndPending(d)'
      BY <2>1, <1>t, <1>n, <1>u DEF Domains
    <3> QED BY <3>3, <3>4
  <2> QED BY <2>3, <2>4
<1>5. ASSUME NEW c \in Clients,
             \/ task_events(c) \/ Subscribe(c) \/ ReadHistory(c) \/ ReplayDone(c)
             \/ PushDone(c) \/ Wake(c) \/ HeartbeatTimeout(c) \/ Receive(c)
             \/ wait_until_terminal(c) \/ HandshakeRefused(c)
      PROVE  \A d \in Clients : EndPending(d)'
  <2>1. UNCHANGED logVars
    BY <1>5
      DEF task_events, Subscribe, ReadHistory, ReadEvents, ReplayDone, PushDone, Wake,
          HeartbeatTimeout, Receive, wait_until_terminal, HandshakeRefused
  <2>2. \A d \in Clients : srv'[d] \in Live =>
          srv[d] \in Live /\ batch'[d] = batch[d] /\ sig'[d] = sig[d]
    BY <1>5, <1>t
      DEF task_events, Subscribe, ReadHistory, ReadEvents, ReplayDone, PushDone, Wake,
          HeartbeatTimeout, Receive, wait_until_terminal, HandshakeRefused, Live, Domains
  <2> QED BY <2>1, <2>2, <1>n, <1>u
<1>6. ASSUME NEW c \in Clients, ClientEof(c) \/ ConnectionLost(c)
      PROVE  \A d \in Clients : EndPending(d)'
  <2>1. UNCHANGED logVars /\ UNCHANGED sig
    BY <1>6 DEF ClientEof, ConnectionLost
  <2>2. \A d \in Clients : srv'[d] \in Live => srv[d] \in Live /\ batch'[d] = batch[d]
    BY <1>6 DEF ClientEof, ConnectionLost, Disconnected, Live
  <2> QED BY <2>1, <2>2, <1>n, <1>u
<1>7. ASSUME CrashAll PROVE \A c \in Clients : EndPending(c)'
  BY <1>7, OverFrom DEF EndPending
<1>8. ASSUME UNCHANGED vars PROVE \A c \in Clients : EndPending(c)'
  BY <1>8, <1>n, <1>u DEF vars, streamVars
<1> QED BY <1>1, <1>2, <1>3, <1>4, <1>5, <1>6, <1>7, <1>8
        DEF StreamNext, ServerStep, ClientStep

(***************************************************************************)
(* The theorems                                                            *)
(***************************************************************************)
LEMMA StreamInitIInv == StreamInit => StreamIInv
<1> SUFFICES ASSUME StreamInit PROVE StreamIInv
  OBVIOUS
<1>1. StreamTypeOK
  BY StreamAssumption
    DEF StreamInit, StreamTypeOK, SrvStates, SdkStates, NoBus
<1>2. AttemptsLeft
  BY StreamAssumption DEF StreamInit, AttemptsLeft
<1>3. OverIsOrderly
  BY DEF StreamInit, Init, OverIsOrderly, Over
<1>4. ASSUME NEW c \in Clients
      PROVE  Follows(c) /\ BusFits(c) /\ WakeupPending(c) /\ EndPending(c)
  <2>1. /\ srv[c] = "none" /\ sdk[c] = "connecting" /\ batch[c] = <<>> /\ chan[c] = <<>>
        /\ got[c] = <<>>
    BY DEF StreamInit
  <2>2. Follows(c)
    BY <2>1
      DEF Follows, NothingInFlight, CursorFits, ChanFits, BatchFits, TerminalIsLast,
          ReceivedIsLogged, InOrder
  <2>3. BusFits(c) /\ WakeupPending(c) /\ EndPending(c)
    BY <2>1 DEF BusFits, Subscribed, WakeupPending, EndPending, Live
  <2> QED BY <2>2, <2>3
<1> QED BY <1>1, <1>2, <1>3, <1>4 DEF StreamIInv

\* The inductive invariant holds of the log, the endpoint and the SDK together.
THEOREM StreamInvariance == StreamSpec => [](IInv /\ StreamIInv)
<1>1. StreamSpec => []IInv
  BY StreamImplementsLog, Invariance
<1>2. ASSUME IInv, StreamIInv, [StreamNext]_vars PROVE StreamIInv'
  <2>1. /\ StreamTypeOK /\ AttemptsLeft /\ OverIsOrderly
        /\ \A c \in Clients : Follows(c) /\ BusFits(c) /\ WakeupPending(c) /\ EndPending(c)
    BY <1>2 DEF StreamIInv
  <2>2. StreamTypeOK' /\ AttemptsLeft'
    BY <1>2, <2>1, StreamTypeStep
  <2>3. OverIsOrderly'
    BY <1>2, <2>1, OverStep
  <2>4. \A c \in Clients : Follows(c)'
    BY <1>2, <2>1, FollowsStep
  <2>5. \A c \in Clients : BusFits(c)'
    BY <1>2, <2>1, BusStep
  <2>6. \A c \in Clients : WakeupPending(c)'
    BY <1>2, <2>1, WakeupStep
  <2>7. \A c \in Clients : EndPending(c)'
    BY <1>2, <2>1, EndStep
  <2> QED BY <2>2, <2>3, <2>4, <2>5, <2>6, <2>7 DEF StreamIInv
<1>3. IInv /\ StreamIInv /\ [StreamNext]_vars => StreamIInv'
  BY <1>2
<1> QED BY <1>1, <1>3, StreamInitIInv, PTL DEF StreamSpec

\* Type correctness of the endpoint and the SDK; in particular
\* stream_events_with_reconnect counts at most MaxReconnect + 1 attempts.
THEOREM StreamTypeCorrect == StreamSpec => []StreamTypeOK
<1>1. StreamIInv => StreamTypeOK
  BY DEF StreamIInv
<1> QED BY StreamInvariance, <1>1, PTL

\* The caller of stream_events gets the events 1, 2, 3, ... whatever connections
\* break, reconnect with Last-Event-ID and replay, and whatever is lost in crashes.
THEOREM DeliveryIsExact == StreamSpec => []ExactlyOnceInOrder
<1>1. StreamIInv => ExactlyOnceInOrder
  <2> SUFFICES ASSUME StreamIInv, NEW c \in Clients, NEW i \in DOMAIN got[c]
               PROVE  got[c][i].eid = i
    BY DEF ExactlyOnceInOrder
  <2>1. DOMAIN got[c] = 1..Len(got[c])
    BY Typed DEF StreamIInv, TypeAt
  <2> QED BY <2>1 DEF StreamIInv, Follows, InOrder
<1> QED BY StreamInvariance, <1>1, PTL

\* A generator that sleeps in subscriber.wait() has read every row whose writer
\* has notified the bus.
THEOREM NoWakeupIsLost == StreamSpec => []NoLostWakeup
<1>1. StreamIInv => NoLostWakeup
  <2> SUFFICES ASSUME StreamIInv, NEW c \in Clients,
                      srv[c] = "wait" /\ ~sig[c] /\ bus[c] = busReg,
                      NEW i \in (cursor[c] + 1)..Len(rows)
               PROVE  Unnotified(i)
    BY DEF NoLostWakeup, Unnotified
  <2>1. Follows(c) /\ WakeupPending(c) /\ cursor[c] \in Nat
    BY Typed DEF StreamIInv, TypeAt
  <2>2. Len(batch[c]) = 0
    BY <2>1 DEF Follows, NothingInFlight, Streaming
  <2>3. cursor[c] + Len(batch[c]) + 1 = cursor[c] + 1
    BY <2>1, <2>2
  <2> QED BY <2>1, <2>3 DEF WakeupPending, Live
<1> QED BY StreamInvariance, <1>1, PTL

\* When queue._run_one drops the bus every generator still waiting was signalled.
THEOREM NobodyIsStranded == StreamSpec => []NoStrandedSubscriber
<1>1. StreamIInv => NoStrandedSubscriber
  <2> SUFFICES ASSUME StreamIInv, discarded, NEW c \in Clients, srv[c] = "wait"
               PROVE  sig[c]
    BY DEF NoStrandedSubscriber
  <2>1. EndPending(c) /\ batch[c] = <<>>
    BY DEF StreamIInv, Follows, NothingInFlight, Streaming
  <2> QED BY <2>1 DEF EndPending, Over, Live
<1> QED BY StreamInvariance, <1>1, PTL

\* What is proved of the event log alone holds beside the endpoint and the SDK.
THEOREM LogStaysSound ==
  StreamSpec => [](GapFree /\ ConflictOnlyAfterDiscard /\ DiscardAfterTerminalRow)
<1>1. IInv => GapFree /\ ConflictOnlyAfterDiscard /\ DiscardAfterTerminalRow
  BY DEF IInv
<1> QED BY StreamInvariance, <1>1, PTL

(***************************************************************************)
(* The refinement                                                          *)
(***************************************************************************)
LEMMA FeedStep ==
  ASSUME IInv, StreamIInv, [StreamNext]_vars
  PROVE  [Feed!Next]_(Feed!feedVars)
<1>l. rows \in Seq(Rows) /\ Len(rows) \in Nat /\ durable \in 0..Len(rows)
  BY DEF IInv, TypeOK
<1>c. ASSUME UNCHANGED <<rows, got>>, durable' = Len(rows) PROVE Feed!Commit
  BY <1>c, <1>l DEF Feed!Commit
<1>u. ASSUME UNCHANGED <<rows, durable, got>> PROVE UNCHANGED Feed!feedVars
  BY <1>u DEF Feed!feedVars
<1>1. ASSUME RunnerOnly \/ discard PROVE Feed!Commit \/ UNCHANGED Feed!feedVars
  BY <1>1, <1>c, <1>u
    DEF RunnerOnly, RunnerProgress, RunnerTerminal, MarkOrphanFailed, RecoverySkips, discard,
        discard_task_locks, update_task_status, streamVars
<1>2. ASSUME NEW w \in Writers, LogOnly(w) \/ CommitNotify(w) \/ CancelSilently(w)
      PROVE  Feed!AppendEvent \/ Feed!Commit \/ UNCHANGED Feed!feedVars
  <2>1. UNCHANGED got
    BY <1>2, LogStepFrame
  <2>2. rows' = rows => durable' \in {durable, Len(rows)}
    BY <1>2
      DEF LogOnly, CommitNotify, CancelSilently, AbortCheck, AbortUpdate, HandlerStatus,
          insert_event, AcquireLock, _next_event_id, InsertRow, CommitRow, CancelInsert,
          update_task_status
  <2>3. rows' # rows => durable' = durable
    BY <1>2
      DEF LogOnly, CommitNotify, CancelSilently, AbortCheck, AbortUpdate, HandlerStatus,
          insert_event, AcquireLock, _next_event_id, InsertRow, CommitRow, CancelInsert,
          update_task_status
  <2>4. \/ rows' = rows
        \/ /\ eid[w] = Len(rows) + 1 /\ NewRow(w) \in Rows
           /\ rows' = Append(rows, NewRow(w))
    BY <1>2, WriterRows
  <2>5. ASSUME rows' # rows PROVE Feed!AppendEvent
    <3>1. NewRow(w) = [eid |-> Len(rows) + 1, kind |-> kind[w]]
      BY <2>4, <2>5 DEF NewRow
    <3>2. kind[w] \in {"progress", "terminal"}
      BY DEF IInv, TypeOK, Kinds
    <3> QED BY <2>1, <2>3, <2>4, <2>5, <3>1, <3>2 DEF Feed!AppendEvent
  <2> QED BY <2>1, <2>2, <2>5, <1>c, <1>u
<1>3. ASSUME NEW c \in Clients, Receive(c) PROVE Feed!Deliver(c)
  <2>1. /\ UNCHANGED <<rows, durable>> /\ sdk[c] = "open" /\ chan[c] # <<>>
        /\ got' = [got EXCEPT ![c] = Append(@, Head(chan[c]))]
    BY <1>3 DEF Receive, logVars
  <2>2. chan[c] \in Seq(Rows) /\ got[c] \in Seq(Rows) /\ Follows(c) /\ Domains
    BY Typed DEF StreamIInv, TypeAt
  <2>3. Len(got[c]) \in Nat /\ Len(chan[c]) \in Nat \ {0} /\ Head(chan[c]) = chan[c][1]
    BY <2>1, <2>2, RowFacts
  <2>4. Len(got[c]) + 1 <= Len(rows) /\ Head(chan[c]) = rows[Len(got[c]) + 1]
    BY <2>2, <2>3 DEF Follows, ChanFits
  <2>5. ~Feed!Ended(c)
    <3>1. got[c] # <<>> => Len(got[c]) \in 1..Len(got[c])
      BY <2>2
    <3> QED BY <2>1, <2>2, <3>1 DEF Feed!Ended, Follows, TerminalIsLast
  <2>6. Len(got[c]) < Len(rows)
    BY <2>3, <2>4, <1>l
  <2>7. got' = [got EXCEPT ![c] = Append(@, rows[Len(@) + 1])]
    BY <2>1, <2>2, <2>4 DEF Domains
  <2> QED BY <2>1, <2>5, <2>6, <2>7 DEF Feed!Deliver
<1>4. ASSUME NEW c \in Clients,
             ServerStep(c) \/ task_events(c) \/ ClientEof(c) \/ wait_until_terminal(c)
                \/ ConnectionLost(c) \/ HandshakeRefused(c)
      PROVE  UNCHANGED Feed!feedVars
  <2>1. UNCHANGED <<rows, durable, got>>
    BY <1>4
      DEF ServerStep, ConnectionLost, HandshakeRefused, Subscribe, ReadHistory, Poll,
          ReadEvents, YieldEvent, ReplayDone, PushDone, Wake, HeartbeatTimeout, task_events, ClientEof,
          wait_until_terminal, logVars
  <2> QED BY <2>1, <1>u
<1>5. ASSUME CrashAll PROVE Feed!Crash
  BY <1>5 DEF CrashAll, CrashRestart, Feed!Crash
<1>6. ASSUME UNCHANGED vars PROVE UNCHANGED Feed!feedVars
  BY <1>6, <1>u DEF vars, logVars, streamVars
<1> QED BY <1>1, <1>2, <1>3, <1>4, <1>5, <1>6 DEF StreamNext, ClientStep, Feed!Next

\* The log, the endpoint and the SDK implement the promise of contract/event.py,
\* stated by EventFeed, for any number of writers, clients, reconnects and crashes.
THEOREM StreamImplementsFeed == StreamSpec => ImplementsFeed
<1>1. StreamInit => Feed!Init
  BY DEF StreamInit, Init, Feed!Init
<1>2. IInv /\ StreamIInv /\ [StreamNext]_vars => [Feed!Next]_(Feed!feedVars)
  BY FeedStep
<1> QED BY <1>1, <1>2, StreamInvariance, PTL DEF StreamSpec, ImplementsFeed, Feed!Spec
=============================================================================
