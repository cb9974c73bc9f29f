--------------------------- MODULE EventLogProofs ---------------------------
(***************************************************************************)
(* Proofs about EventLog for any number of handlers and abort requests,    *)
(* any number of progress events and any number of crashes.                *)
(***************************************************************************)
EXTENDS EventLog, TLAPS

Active == Holding \cup {"wait"}

(***************************************************************************)
(* The inductive invariant.  Two writers never hold one lock object; as    *)
(* long as discard_task_locks was not called every active writer uses the  *)
(* lock object in the registry, hence only one of them is between its      *)
(* SELECT and its COMMIT and the id it read is still the next one.         *)
(***************************************************************************)
Mutex ==
  \A v, w \in Writers :
    v # w /\ pc[v] \in Holding /\ pc[w] \in Holding => lockOf[v] # lockOf[w]

OneLock ==
  ~discarded =>
    \A w \in Writers : pc[w] \in Active => registry # NoLock /\ lockOf[w] = registry

EidBound ==
  \A w \in Writers : pc[w] = "insert" => eid[w] \in 1..(Len(rows) + 1)

FreshId ==
  ~discarded => \A w \in Writers : pc[w] = "insert" => eid[w] = Len(rows) + 1

RunnerRow ==
  pc[Runner] = "commit" =>
    /\ eid[Runner] \in 1..Len(rows)
    /\ rows[eid[Runner]].kind = kind[Runner]

RunnerWritten ==
  /\ pc[Runner] = "written" => \E i \in 1..durable : rows[i].kind = "terminal"
  /\ discarded => pc[Runner] = "done"

IInv ==
  /\ TypeOK /\ GapFree /\ Mutex /\ OneLock /\ EidBound /\ FreshId
  /\ RunnerRow /\ RunnerWritten
  /\ ConflictOnlyAfterDiscard /\ RunnerNeverRaises /\ DiscardAfterTerminalRow

\* The ids in the table are 1..Len(rows), so SELECT MAX + 1 is Len(rows) + 1.
LEMMA NextIdIsNext ==
  ASSUME rows \in Seq(Rows), GapFree
  PROVE  EventIds = 1..Len(rows) /\ NextId = Len(rows) + 1
<1>1. DOMAIN rows = 1..Len(rows) /\ Len(rows) \in Nat
  OBVIOUS
<1>2. EventIds = 1..Len(rows)
  BY <1>1 DEF EventIds, GapFree
<1>3. CASE rows = <<>>
  BY <1>2, <1>3 DEF NextId
<1>4. CASE rows # <<>>
  <2>1. Len(rows) \in EventIds /\ \A n \in EventIds : n <= Len(rows)
    BY <1>1, <1>2, <1>4
  <2>2. MaxId \in EventIds /\ \A n \in EventIds : n <= MaxId
    BY <2>1 DEF MaxId
  <2>3. MaxId = Len(rows)
    <3>1. MaxId \in 1..Len(rows) /\ Len(rows) <= MaxId
      BY <2>1, <2>2, <1>2
    <3>2. MaxId \in Int /\ Len(rows) \in Int /\ MaxId <= Len(rows)
      BY <3>1, <1>1
    <3> QED BY <3>1, <3>2
  <2> QED BY <2>3, <1>2, <1>4 DEF NextId
<1> QED BY <1>3, <1>4

\* Two sequence facts about the cut that a crash makes.
LEMMA CutLog ==
  ASSUME NEW S, NEW s \in Seq(S), NEW n \in 0..Len(s)
  PROVE  /\ SubSeq(s, 1, n) \in Seq(S)
         /\ Len(SubSeq(s, 1, n)) = n
         /\ \A i \in 1..n : SubSeq(s, 1, n)[i] = s[i]
  OBVIOUS

\* What appending the row of a writer does to the log.
LEMMA AppendRow ==
  ASSUME TypeOK, GapFree, EidBound, NEW w \in Writers, pc[w] = "insert", ~Conflict(w)
  PROVE  /\ Append(rows, NewRow(w)) \in Seq(Rows)
         /\ Len(Append(rows, NewRow(w))) = Len(rows) + 1
         /\ eid[w] = Len(rows) + 1
         /\ \A i \in 1..Len(rows) : Append(rows, NewRow(w))[i] = rows[i]
         /\ Append(rows, NewRow(w))[Len(rows) + 1] = NewRow(w)
<1>1. rows \in Seq(Rows) /\ Len(rows) \in Nat
  BY DEF TypeOK
<1>2. eid[w] \in 1..(Len(rows) + 1)
  BY DEF EidBound
<1>3. eid[w] \notin 1..Len(rows)
  BY <1>1, NextIdIsNext DEF Conflict
<1>4. eid[w] = Len(rows) + 1
  BY <1>1, <1>2, <1>3
<1>5. NewRow(w) \in Rows
  BY <1>1, <1>4 DEF NewRow, Rows, TypeOK
<1> QED BY <1>1, <1>4, <1>5

\* Type correctness of the initial state and of every step.
LEMMA TypeStep == IInv /\ [Next]_logVars => TypeOK'
<1> SUFFICES ASSUME IInv, [Next]_logVars PROVE TypeOK'
  OBVIOUS
<1>0. TypeOK /\ GapFree /\ EidBound
  BY DEF IInv
<1> USE WritersAssumption, <1>0 DEF TypeOK
<1>a. Runner \in Writers
  BY DEF Writers
<1>len. Len(rows) \in Nat
  OBVIOUS
<1>1. CASE RunnerProgress
  BY <1>1, <1>a, <1>len DEF RunnerProgress, update_task_status, Statuses, Kinds, PCs
<1>2. CASE RunnerTerminal
  BY <1>2, <1>a, <1>len DEF RunnerTerminal, update_task_status, Statuses, Kinds, PCs
<1>3. CASE discard_task_locks
  BY <1>3, <1>a DEF discard_task_locks, NoLock, PCs
<1>4. CASE MarkOrphanFailed
  BY <1>4, <1>a, <1>len DEF MarkOrphanFailed, update_task_status, Statuses, Kinds, PCs
<1>5. CASE RecoverySkips
  BY <1>5, <1>a DEF RecoverySkips, PCs
<1>6. CASE CrashRestart
  <2>1. rows' \in Seq(Rows) /\ Len(rows') = durable
    BY <1>6, CutLog DEF CrashRestart
  <2>2. durable' \in 0..Len(rows')
    BY <1>6, <2>1, <1>len DEF CrashRestart
  <2>3. pc' \in [Writers -> PCs]
    BY <1>6 DEF CrashRestart, PCs
  <2>4. crashes' \in 0..MaxCrash
    BY <1>6 DEF CrashRestart
  <2>5. registry' \in 0..nLocks'
    BY <1>6 DEF CrashRestart, NoLock
  <2>6. discarded' \in BOOLEAN
    BY <1>6, Zenon DEF CrashRestart
  <2> QED BY <1>6, <2>1, <2>2, <2>3, <2>4, <2>5, <2>6 DEF CrashRestart
<1>7. ASSUME NEW w \in Writers, WriterStep(w) \/ CancelInsert(w) PROVE TypeOK'
  <2>1. CASE AbortCheck(w)
    BY <2>1, <1>7 DEF AbortCheck, PCs
  <2>2. CASE AbortUpdate(w)
    BY <2>2, <1>7, <1>len DEF AbortUpdate, update_task_status, Statuses, Kinds, PCs
  <2>3. CASE HandlerStatus(w)
    BY <2>3, <1>7, <1>len DEF HandlerStatus, update_task_status, Statuses, PCs
  <2>4. CASE insert_event(w)
    BY <2>4, <1>7 DEF insert_event, _get_event_lock, NoLock, PCs, Holding
  <2>5. CASE AcquireLock(w)
    BY <2>5, <1>7 DEF AcquireLock, PCs, Holding
  <2>6. CASE _next_event_id(w)
    <3>1. NextId \in Nat
      BY NextIdIsNext, <1>len
    <3> QED BY <2>6, <3>1, <1>7 DEF _next_event_id, PCs, Holding
  <2>7. CASE InsertRow(w)
    <3>1. CASE Conflict(w)
      BY <2>7, <3>1, <1>7 DEF InsertRow, PCs
    <3>2. CASE ~Conflict(w)
      <4>1. rows' \in Seq(Rows) /\ Len(rows') = Len(rows) + 1
        BY <2>7, <3>2, <1>7, AppendRow DEF InsertRow
      <4> QED BY <2>7, <3>2, <4>1, <1>7, <1>len DEF InsertRow, PCs, Holding
    <3> QED BY <3>1, <3>2
  <2>8. CASE CommitRow(w)
    BY <2>8, <1>7, <1>len DEF CommitRow, AfterInsert, PCs, Holding
  <2>9. CASE CancelInsert(w)
    <3>1. rows' \in Seq(Rows) /\ durable' \in 0..Len(rows')
      <4>1. CASE UNCHANGED <<rows, durable>>
        BY <4>1
      <4>2. CASE pc[w] = "insert" /\ ~Conflict(w) /\ rows' = Append(rows, NewRow(w)) /\ UNCHANGED durable
        BY <4>2, <1>7, <1>len, AppendRow
      <4>3. CASE durable' = Len(rows) /\ UNCHANGED rows
        BY <4>3, <1>len
      <4> QED BY <2>9, <4>1, <4>2, <4>3 DEF CancelInsert
    <3> QED BY <2>9, <3>1, <1>7 DEF CancelInsert, PCs
  <2> QED BY <1>7, <2>1, <2>2, <2>3, <2>4, <2>5, <2>6, <2>7, <2>8, <2>9 DEF WriterStep
<1>8. CASE UNCHANGED logVars
  BY <1>8 DEF logVars
<1> QED BY <1>1, <1>2, <1>3, <1>4, <1>5, <1>6, <1>7, <1>8 DEF Next, RunnerStep

\* Lock objects: no step lets two writers hold one of them, and before the
\* discard every step leaves all active writers on the registered one.
LEMMA LockStep == IInv /\ [Next]_logVars => Mutex' /\ OneLock'
<1> SUFFICES ASSUME IInv, [Next]_logVars PROVE Mutex' /\ OneLock'
  OBVIOUS
<1>0. /\ pc \in [Writers -> PCs] /\ lockOf \in [Writers -> 0..nLocks]
      /\ nLocks \in Nat /\ registry \in 0..nLocks
      /\ Mutex /\ OneLock
  BY DEF IInv, TypeOK
<1>a. Runner \in Writers
  BY DEF Writers
<1> USE <1>0 DEF Mutex, OneLock, Active, Holding
<1>1. CASE RunnerProgress
  BY <1>1, <1>a DEF RunnerProgress
<1>2. CASE RunnerTerminal
  BY <1>2, <1>a DEF RunnerTerminal
<1>3. CASE discard_task_locks
  BY <1>3, <1>a DEF discard_task_locks
<1>4. CASE MarkOrphanFailed
  BY <1>4, <1>a DEF MarkOrphanFailed
<1>5. CASE RecoverySkips
  BY <1>5, <1>a DEF RecoverySkips
<1>6. CASE CrashRestart
  <2>1. \A w \in Writers : pc'[w] \in {"recover", "done"}
    BY <1>6 DEF CrashRestart
  <2> QED BY <2>1
<1>7. ASSUME NEW w \in Writers, WriterStep(w) \/ CancelInsert(w) PROVE Mutex' /\ OneLock'
  <2>1. CASE AbortCheck(w)
    BY <2>1, <1>7 DEF AbortCheck
  <2>2. CASE AbortUpdate(w)
    BY <2>2, <1>7 DEF AbortUpdate
  <2>3. CASE HandlerStatus(w)
    BY <2>3, <1>7 DEF HandlerStatus
  <2>4. CASE insert_event(w)
    <3>1. Mutex'
      BY <2>4, <1>7 DEF insert_event, _get_event_lock, Holds, NoLock
    <3>2. OneLock'
      BY <2>4, <1>7 DEF insert_event, _get_event_lock, NoLock
    <3> QED BY <3>1, <3>2
  <2>5. CASE AcquireLock(w)
    BY <2>5, <1>7 DEF AcquireLock, Holds
  <2>6. CASE _next_event_id(w)
    BY <2>6, <1>7 DEF _next_event_id
  <2>7. CASE InsertRow(w)
    BY <2>7, <1>7 DEF InsertRow
  <2>8. CASE CommitRow(w)
    BY <2>8, <1>7 DEF CommitRow, AfterInsert
  <2>9. CASE CancelInsert(w)
    BY <2>9, <1>7 DEF CancelInsert
  <2> QED BY <1>7, <2>1, <2>2, <2>3, <2>4, <2>5, <2>6, <2>7, <2>8, <2>9 DEF WriterStep
<1>8. CASE UNCHANGED logVars
  BY <1>8 DEF logVars
<1> QED BY <1>1, <1>2, <1>3, <1>4, <1>5, <1>6, <1>7, <1>8 DEF Next, RunnerStep

\* Before the discard at most one writer is between its SELECT and its COMMIT.
LEMMA OneInserter ==
  ASSUME IInv, ~discarded, NEW v \in Writers, NEW w \in Writers,
         pc[v] \in Holding, pc[w] \in Holding
  PROVE  v = w
  BY DEF IInv, Mutex, OneLock, Active

\* The ids: appended rows continue the numbering, and the id a writer has read
\* can be out of date only after the discard.
LEMMA IdStep == IInv /\ [Next]_logVars => GapFree' /\ EidBound' /\ FreshId'
<1> SUFFICES ASSUME IInv, [Next]_logVars PROVE GapFree' /\ EidBound' /\ FreshId'
  OBVIOUS
<1>0. /\ pc \in [Writers -> PCs] /\ eid \in [Writers -> Nat] /\ rows \in Seq(Rows)
      /\ Len(rows) \in Nat /\ DOMAIN rows = 1..Len(rows) /\ durable \in 0..Len(rows)
      /\ TypeOK /\ GapFree /\ EidBound /\ FreshId
  BY DEF IInv, TypeOK
<1>a. Runner \in Writers
  BY DEF Writers
<1>b. ASSUME UNCHANGED <<rows, eid, discarded>>, 
             \A w \in Writers : pc'[w] = "insert" => pc[w] = "insert"
      PROVE  GapFree' /\ EidBound' /\ FreshId'
  BY <1>0, <1>b DEF GapFree, EidBound, FreshId
<1>c. ASSUME NEW w \in Writers, pc[w] = "insert", ~Conflict(w),
             rows' = Append(rows, NewRow(w)), UNCHANGED <<eid, discarded>>,
             \A v \in Writers : pc'[v] = "insert" => v # w /\ pc[v] = "insert"
      PROVE  GapFree' /\ EidBound' /\ FreshId'
  <2>1. /\ rows' \in Seq(Rows)
        /\ Len(rows') = Len(rows) + 1
        /\ eid[w] = Len(rows) + 1
        /\ \A i \in 1..Len(rows) : rows'[i] = rows[i]
        /\ rows'[Len(rows) + 1] = NewRow(w)
    BY <1>0, <1>c, AppendRow
  <2>2. DOMAIN rows' = 1..(Len(rows) + 1)
    BY <2>1
  <2>3. GapFree'
    BY <1>0, <2>1, <2>2 DEF GapFree, NewRow
  <2>4. EidBound'
    BY <1>0, <1>c, <2>1 DEF EidBound
  <2>5. FreshId'
    <3>1. SUFFICES ASSUME ~discarded PROVE \A v \in Writers : pc'[v] # "insert"
      BY <1>c DEF FreshId
    <3> QED BY <1>c, <3>1, OneInserter DEF Holding
  <2> QED BY <2>3, <2>4, <2>5
<1>1. CASE RunnerProgress
  BY <1>1, <1>a, <1>0, <1>b DEF RunnerProgress
<1>2. CASE RunnerTerminal
  BY <1>2, <1>a, <1>0, <1>b DEF RunnerTerminal
<1>3. CASE discard_task_locks
  BY <1>3, <1>a, <1>0 DEF discard_task_locks, GapFree, EidBound, FreshId
<1>4. CASE MarkOrphanFailed
  BY <1>4, <1>a, <1>0, <1>b DEF MarkOrphanFailed
<1>5. CASE RecoverySkips
  BY <1>5, <1>a, <1>0, <1>b DEF RecoverySkips
<1>6. CASE CrashRestart
  <2>1. \A w \in Writers : pc'[w] \in {"recover", "done"}
    BY <1>6 DEF CrashRestart
  <2>2. /\ rows' \in Seq(Rows) /\ Len(rows') = durable
        /\ \A i \in 1..durable : rows'[i] = rows[i]
    BY <1>6, <1>0, CutLog DEF CrashRestart
  <2>3. DOMAIN rows' = 1..durable
    BY <2>2
  <2> QED BY <1>0, <2>1, <2>2, <2>3 DEF GapFree, EidBound, FreshId
<1>7. ASSUME NEW w \in Writers, WriterStep(w) \/ CancelInsert(w)
      PROVE  GapFree' /\ EidBound' /\ FreshId'
  <2>1. CASE AbortCheck(w)
    BY <2>1, <1>7, <1>0, <1>b DEF AbortCheck
  <2>2. CASE AbortUpdate(w)
    BY <2>2, <1>7, <1>0, <1>b DEF AbortUpdate
  <2>3. CASE HandlerStatus(w)
    BY <2>3, <1>7, <1>0, <1>b DEF HandlerStatus
  <2>4. CASE insert_event(w)
    BY <2>4, <1>7, <1>0, <1>b DEF insert_event
  <2>5. CASE AcquireLock(w)
    BY <2>5, <1>7, <1>0, <1>b DEF AcquireLock
  <2>6. CASE _next_event_id(w)
    <3>1. NextId = Len(rows) + 1
      BY <1>0, NextIdIsNext
    <3> QED BY <2>6, <1>7, <1>0, <3>1 DEF _next_event_id, GapFree, EidBound, FreshId
  <2>7. CASE InsertRow(w)
    <3>1. CASE Conflict(w)
      BY <2>7, <3>1, <1>7, <1>0, <1>b DEF InsertRow
    <3>2. CASE ~Conflict(w)
      BY <2>7, <3>2, <1>7, <1>0, <1>c DEF InsertRow
    <3> QED BY <3>1, <3>2
  <2>8. CASE CommitRow(w)
    BY <2>8, <1>7, <1>0, <1>b DEF CommitRow, AfterInsert
  <2>9. CASE CancelInsert(w)
    <3>1. CASE UNCHANGED rows
      BY <2>9, <3>1, <1>7, <1>0, <1>b DEF CancelInsert
    <3>2. CASE pc[w] = "insert" /\ ~Conflict(w) /\ rows' = Append(rows, NewRow(w))
      BY <2>9, <3>2, <1>7, <1>0, <1>c DEF CancelInsert
    <3> QED BY <2>9, <3>1, <3>2 DEF CancelInsert
  <2> QED BY <1>7, <2>1, <2>2, <2>3, <2>4, <2>5, <2>6, <2>7, <2>8, <2>9 DEF WriterStep
<1>8. CASE UNCHANGED logVars
  BY <1>8, <1>0, <1>b DEF logVars
<1> QED BY <1>1, <1>2, <1>3, <1>4, <1>5, <1>6, <1>7, <1>8 DEF Next, RunnerStep

\* A writer whose id is refused by UNIQUE is neither the runner nor any writer
\* that ran before the discard.
LEMMA ConflictStep ==
  IInv /\ [Next]_logVars => ConflictOnlyAfterDiscard' /\ RunnerNeverRaises'
<1> SUFFICES ASSUME IInv, [Next]_logVars
             PROVE  ConflictOnlyAfterDiscard' /\ RunnerNeverRaises'
  OBVIOUS
<1>0. /\ pc \in [Writers -> PCs] /\ rows \in Seq(Rows) /\ Len(rows) \in Nat
      /\ GapFree /\ FreshId /\ ConflictOnlyAfterDiscard /\ RunnerNeverRaises
      /\ discarded => pc[Runner] = "done"
  BY DEF IInv, TypeOK, RunnerWritten
<1>a. Runner \in Writers
  BY DEF Writers
<1>b. ASSUME discarded => discarded',
             \A w \in Writers : pc'[w] = "raised" => pc[w] = "raised"
      PROVE  ConflictOnlyAfterDiscard' /\ RunnerNeverRaises'
  BY <1>0, <1>a, <1>b DEF ConflictOnlyAfterDiscard, RunnerNeverRaises
<1>1. CASE RunnerProgress
  BY <1>1, <1>a, <1>0, <1>b DEF RunnerProgress
<1>2. CASE RunnerTerminal
  BY <1>2, <1>a, <1>0, <1>b DEF RunnerTerminal
<1>3. CASE discard_task_locks
  BY <1>3, <1>a, <1>0, <1>b DEF discard_task_locks
<1>4. CASE MarkOrphanFailed
  BY <1>4, <1>a, <1>0, <1>b DEF MarkOrphanFailed
<1>5. CASE RecoverySkips
  BY <1>5, <1>a, <1>0, <1>b DEF RecoverySkips
<1>6. CASE CrashRestart
  <2>1. \A w \in Writers : pc'[w] \in {"recover", "done"}
    BY <1>6 DEF CrashRestart
  <2> QED BY <2>1, <1>a DEF ConflictOnlyAfterDiscard, RunnerNeverRaises
<1>7. ASSUME NEW w \in Writers, WriterStep(w) \/ CancelInsert(w)
      PROVE  ConflictOnlyAfterDiscard' /\ RunnerNeverRaises'
  <2>1. CASE AbortCheck(w)
    BY <2>1, <1>7, <1>0, <1>b DEF AbortCheck
  <2>2. CASE AbortUpdate(w)
    BY <2>2, <1>7, <1>0, <1>b DEF AbortUpdate
  <2>3. CASE HandlerStatus(w)
    BY <2>3, <1>7, <1>0, <1>b DEF HandlerStatus
  <2>4. CASE insert_event(w)
    BY <2>4, <1>7, <1>0, <1>b DEF insert_event
  <2>5. CASE AcquireLock(w)
    BY <2>5, <1>7, <1>0, <1>b DEF AcquireLock
  <2>6. CASE _next_event_id(w)
    BY <2>6, <1>7, <1>0, <1>b DEF _next_event_id
  <2>7. CASE InsertRow(w)
    <3>1. CASE Conflict(w)
      <4>1. discarded
        <5>1. SUFFICES ASSUME ~discarded PROVE FALSE
          OBVIOUS
        <5>2. eid[w] = Len(rows) + 1
          BY <5>1, <2>7, <1>7, <1>0 DEF InsertRow, FreshId
        <5> QED BY <5>2, <3>1, <1>0, NextIdIsNext DEF Conflict
      <4>2. w # Runner
        BY <4>1, <2>7, <1>0 DEF InsertRow
      <4> QED BY <4>1, <4>2, <2>7, <1>7, <1>0, <1>a
              DEF InsertRow, ConflictOnlyAfterDiscard, RunnerNeverRaises
    <3>2. CASE ~Conflict(w)
      BY <2>7, <3>2, <1>7, <1>0, <1>b DEF InsertRow
    <3> QED BY <3>1, <3>2
  <2>8. CASE CommitRow(w)
    BY <2>8, <1>7, <1>0, <1>b DEF CommitRow, AfterInsert
  <2>9. CASE CancelInsert(w)
    BY <2>9, <1>7, <1>0, <1>b DEF CancelInsert
  <2> QED BY <1>7, <2>1, <2>2, <2>3, <2>4, <2>5, <2>6, <2>7, <2>8, <2>9 DEF WriterStep
<1>8. CASE UNCHANGED logVars
  BY <1>8, <1>0, <1>b DEF logVars
<1> QED BY <1>1, <1>2, <1>3, <1>4, <1>5, <1>6, <1>7, <1>8 DEF Next, RunnerStep

TerminalDurable == \E i \in 1..durable : rows[i].kind = "terminal"

\* The terminal row of the runner is in the table when it reaches the commit,
\* durable when the commit returns, and stays so.
LEMMA RunnerRowStep ==
  IInv /\ [Next]_logVars => RunnerRow' /\ RunnerWritten' /\ DiscardAfterTerminalRow'
<1> DEFINE Goal == RunnerRow' /\ RunnerWritten' /\ DiscardAfterTerminalRow'
<1> SUFFICES ASSUME IInv, [Next]_logVars PROVE Goal
  OBVIOUS
<1>0. /\ pc \in [Writers -> PCs] /\ rows \in Seq(Rows) /\ Len(rows) \in Nat
      /\ durable \in 0..Len(rows) /\ eid \in [Writers -> Nat] /\ kind \in [Writers -> Kinds]
      /\ TypeOK /\ GapFree /\ EidBound
      /\ RunnerRow /\ RunnerWritten /\ DiscardAfterTerminalRow
  BY DEF IInv, TypeOK
<1>a. Runner \in Writers /\ Runner \notin Handlers /\ Runner \notin Aborters
  BY WritersAssumption DEF Writers
\* Steps that keep or extend the rows and the durable prefix.
<1>b. ASSUME Len(rows') \in Nat, Len(rows') >= Len(rows),
             \A i \in 1..Len(rows) : rows'[i] = rows[i],
             durable' \in 0..Len(rows'), durable' >= durable
      PROVE  TerminalDurable => TerminalDurable'
  <2>1. SUFFICES ASSUME TerminalDurable PROVE TerminalDurable'
    OBVIOUS
  <2>2. PICK i \in 1..durable : rows[i].kind = "terminal"
    BY <2>1 DEF TerminalDurable
  <2>3. i \in 1..durable' /\ rows'[i] = rows[i]
    BY <1>0, <1>b, <2>2
  <2> QED BY <2>2, <2>3 DEF TerminalDurable
<1>c. ASSUME Len(rows') \in Nat, Len(rows') >= Len(rows),
             \A i \in 1..Len(rows) : rows'[i] = rows[i],
             durable' \in 0..Len(rows'), durable' >= durable,
             pc'[Runner] = pc[Runner], eid'[Runner] = eid[Runner],
             kind'[Runner] = kind[Runner], discarded' = discarded
      PROVE  Goal
  BY <1>0, <1>b, <1>c DEF RunnerRow, RunnerWritten, DiscardAfterTerminalRow, TerminalDurable
<1>d. ASSUME Len(rows') \in Nat, Len(rows') >= Len(rows),
             \A i \in 1..Len(rows) : rows'[i] = rows[i],
             durable' \in 0..Len(rows'), durable' >= durable,
             pc[Runner] # "done", pc'[Runner] \notin {"commit", "written"},
             discarded' = discarded
      PROVE  Goal
  BY <1>0, <1>d DEF RunnerRow, RunnerWritten, DiscardAfterTerminalRow
<1>1. CASE RunnerProgress
  BY <1>1, <1>a, <1>0, <1>d DEF RunnerProgress, update_task_status
<1>2. CASE RunnerTerminal
  BY <1>2, <1>a, <1>0, <1>d DEF RunnerTerminal, update_task_status
<1>3. CASE discard_task_locks
  BY <1>3, <1>a, <1>0 DEF discard_task_locks, RunnerRow, RunnerWritten, DiscardAfterTerminalRow
<1>4. CASE MarkOrphanFailed
  BY <1>4, <1>a, <1>0, <1>d DEF MarkOrphanFailed, update_task_status
<1>5. CASE RecoverySkips
  BY <1>5, <1>a, <1>0, <1>d DEF RecoverySkips
<1>6. CASE CrashRestart
  <2>1. pc'[Runner] = "recover" /\ discarded' = FALSE
    BY <1>6, <1>a DEF CrashRestart
  <2> QED BY <2>1 DEF RunnerRow, RunnerWritten, DiscardAfterTerminalRow
<1>7. ASSUME NEW w \in Writers, WriterStep(w) \/ CancelInsert(w) PROVE Goal
  <2>1. CASE AbortCheck(w)
    BY <2>1, <1>7, <1>a, <1>0, <1>c DEF AbortCheck
  <2>2. CASE AbortUpdate(w)
    BY <2>2, <1>7, <1>a, <1>0, <1>c DEF AbortUpdate, update_task_status
  <2>3. CASE HandlerStatus(w)
    BY <2>3, <1>7, <1>a, <1>0, <1>c DEF HandlerStatus, update_task_status
  <2>4. CASE insert_event(w)
    <3>1. CASE w = Runner
      BY <2>4, <3>1, <1>7, <1>a, <1>0, <1>d DEF insert_event, ReadyToInsert
    <3>2. CASE w # Runner
      BY <2>4, <3>2, <1>7, <1>a, <1>0, <1>c DEF insert_event
    <3> QED BY <3>1, <3>2
  <2>5. CASE AcquireLock(w)
    <3>1. CASE w = Runner
      BY <2>5, <3>1, <1>7, <1>a, <1>0, <1>d DEF AcquireLock
    <3>2. CASE w # Runner
      BY <2>5, <3>2, <1>7, <1>a, <1>0, <1>c DEF AcquireLock
    <3> QED BY <3>1, <3>2
  <2>6. CASE _next_event_id(w)
    <3>1. CASE w = Runner
      BY <2>6, <3>1, <1>7, <1>a, <1>0, <1>d DEF _next_event_id
    <3>2. CASE w # Runner
      BY <2>6, <3>2, <1>7, <1>a, <1>0, <1>c DEF _next_event_id
    <3> QED BY <3>1, <3>2
  <2>7. CASE InsertRow(w)
    <3>1. CASE Conflict(w)
      <4>1. CASE w = Runner
        BY <2>7, <3>1, <4>1, <1>7, <1>a, <1>0, <1>d DEF InsertRow
      <4>2. CASE w # Runner
        BY <2>7, <3>1, <4>2, <1>7, <1>a, <1>0, <1>c DEF InsertRow
      <4> QED BY <4>1, <4>2
    <3>2. CASE ~Conflict(w)
      <4>1. /\ Len(rows') = Len(rows) + 1
            /\ eid[w] = Len(rows) + 1
            /\ \A i \in 1..Len(rows) : rows'[i] = rows[i]
            /\ rows'[Len(rows) + 1] = NewRow(w)
        BY <2>7, <3>2, <1>7, <1>0, AppendRow DEF InsertRow
      <4>2. CASE w = Runner
        <5>1. RunnerRow'
          BY <2>7, <4>1, <4>2, <1>a, <1>0 DEF InsertRow, RunnerRow, NewRow
        <5>2. ~discarded /\ pc'[Runner] = "commit" /\ ~discarded'
          BY <2>7, <3>2, <4>2, <1>a, <1>0 DEF InsertRow, RunnerWritten
        <5> QED BY <5>1, <5>2 DEF RunnerWritten, DiscardAfterTerminalRow
      <4>3. CASE w # Runner
        BY <2>7, <4>1, <4>3, <1>7, <1>a, <1>0, <1>c DEF InsertRow
      <4> QED BY <4>2, <4>3
    <3> QED BY <3>1, <3>2
  <2>8. CASE CommitRow(w)
    <3>1. CASE w = Runner
      <4>1. TerminalDurable' \/ pc'[Runner] # "written"
        <5>1. SUFFICES ASSUME kind[Runner] = "terminal" PROVE TerminalDurable'
          BY <2>8, <3>1, <1>a, <1>0 DEF CommitRow, AfterInsert
        <5>2. durable' = Len(rows) /\ rows' = rows
          BY <2>8 DEF CommitRow
        <5>3. eid[Runner] \in 1..Len(rows) /\ rows[eid[Runner]].kind = "terminal"
          BY <5>1, <2>8, <3>1, <1>0 DEF CommitRow, RunnerRow
        <5> QED BY <5>2, <5>3 DEF TerminalDurable
      <4>2. pc'[Runner] # "commit" /\ ~discarded'
        BY <2>8, <3>1, <1>a, <1>0 DEF CommitRow, AfterInsert, RunnerWritten
      <4> QED BY <4>1, <4>2 DEF RunnerRow, RunnerWritten, DiscardAfterTerminalRow, TerminalDurable
    <3>2. CASE w # Runner
      BY <2>8, <3>2, <1>7, <1>a, <1>0, <1>c DEF CommitRow
    <3> QED BY <3>1, <3>2
  <2>9. CASE CancelInsert(w)
    <3>1. /\ Len(rows') \in Nat /\ Len(rows') >= Len(rows)
          /\ \A i \in 1..Len(rows) : rows'[i] = rows[i]
          /\ durable' \in 0..Len(rows') /\ durable' >= durable
      <4>1. CASE UNCHANGED <<rows, durable>>
        BY <4>1, <1>0
      <4>2. CASE pc[w] = "insert" /\ ~Conflict(w) /\ rows' = Append(rows, NewRow(w)) /\ UNCHANGED durable
        BY <4>2, <1>7, <1>0, AppendRow
      <4>3. CASE durable' = Len(rows) /\ UNCHANGED rows
        BY <4>3, <1>0
      <4> QED BY <2>9, <4>1, <4>2, <4>3 DEF CancelInsert
    <3>2. CASE w = Runner
      BY <2>9, <3>1, <3>2, <1>7, <1>a, <1>0, <1>d DEF CancelInsert, Holding
    <3>3. CASE w # Runner
      BY <2>9, <3>1, <3>3, <1>7, <1>a, <1>0, <1>c DEF CancelInsert
    <3> QED BY <3>2, <3>3
  <2> QED BY <1>7, <2>1, <2>2, <2>3, <2>4, <2>5, <2>6, <2>7, <2>8, <2>9 DEF WriterStep
<1>8. CASE UNCHANGED logVars
  BY <1>8, <1>0, <1>c DEF logVars
<1> QED BY <1>1, <1>2, <1>3, <1>4, <1>5, <1>6, <1>7, <1>8 DEF Next, RunnerStep

\* The invariant holds initially: no row, no lock, no coroutine under way.
LEMMA InitIInv == Init => IInv
<1> SUFFICES ASSUME Init PROVE IInv
  OBVIOUS
<1>a. Runner \in Writers
  BY DEF Writers
<1>1. TypeOK
  <2>1. rows \in Seq(Rows) /\ Len(rows) = 0 /\ durable = 0 /\ registry = 0 /\ nLocks = 0
    BY DEF Init, NoLock
  <2>2. /\ pc \in [Writers -> PCs] /\ lockOf \in [Writers -> 0..nLocks]
        /\ eid \in [Writers -> Nat] /\ kind \in [Writers -> Kinds]
    BY <2>1 DEF Init, Kinds, PCs, NoLock
  <2>3. status \in Statuses /\ progress \in 0..MaxProgress /\ crashes \in 0..MaxCrash
    BY WritersAssumption DEF Init, Statuses
  <2>4. discarded \in BOOLEAN
    BY Zenon DEF Init
  <2> QED BY <2>1, <2>2, <2>3, <2>4 DEF TypeOK
<1>2. \A w \in Writers : pc[w] = "idle"
  BY DEF Init
<1>3. DOMAIN rows = {} /\ ~discarded
  BY DEF Init
<1> QED BY <1>a, <1>1, <1>2, <1>3
    DEF IInv, GapFree, Mutex, OneLock, EidBound, FreshId, RunnerRow, RunnerWritten, Active,
        Holding, ConflictOnlyAfterDiscard, RunnerNeverRaises, DiscardAfterTerminalRow

\* IInv is an invariant of the log.
THEOREM Invariance == Spec => []IInv
<1>1. IInv /\ [Next]_logVars => IInv'
  BY TypeStep, LockStep, IdStep, ConflictStep, RunnerRowStep DEF IInv
<1> QED BY InitIInv, <1>1, PTL DEF Spec

\* Type correctness of the event log, for any set of writers.
THEOREM TypeCorrect == Spec => []TypeOK
<1>1. IInv => TypeOK
  BY DEF IInv
<1> QED BY Invariance, <1>1, PTL

\* The ids insert_event hands out have no gap and no duplicate, whatever the
\* number of concurrent coroutines, cancellations and crashes.
THEOREM IdsAreGapFree == Spec => []GapFree
<1>1. IInv => GapFree
  BY DEF IInv
<1> QED BY Invariance, <1>1, PTL

\* Before discard_task_locks no coroutine hits UNIQUE(task_id, event_id), and
\* the runner never does.
THEOREM NoConflictBeforeDiscard ==
  Spec => [](ConflictOnlyAfterDiscard /\ RunnerNeverRaises)
<1>1. IInv => ConflictOnlyAfterDiscard /\ RunnerNeverRaises
  BY DEF IInv
<1> QED BY Invariance, <1>1, PTL

\* The lock and the bus of a task are released only when its terminal event is
\* committed.
THEOREM TerminalRowBeforeDiscard == Spec => []DiscardAfterTerminalRow
<1>1. IInv => DiscardAfterTerminalRow
  BY DEF IInv
<1> QED BY Invariance, <1>1, PTL
=============================================================================
