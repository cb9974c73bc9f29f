------------------------- MODULE ArtifactStoreProofs -------------------------
(***************************************************************************)
(* Theorems about the artifacts, their files and the collector, for every  *)
(* set of tasks, artifacts and downloads, batch limit and number of faults *)
(* and crashes.                                                            *)
(***************************************************************************)
EXTENDS ArtifactStore, FiniteSetTheorems, TLAPS

\* Only a collected artifact has a row, and what a path holds was written by
\* the run of its task (insert_artifact, WriteFile).
RowsAndFiles ==
  /\ \A a \in row : pc[a] = "done"
  /\ \A t \in Tasks : \A a \in Artifacts : file[t] = a => TaskOf[a] = t

\* The rows of a batch were registered and had expired when it was selected,
\* and time does not go back.
BatchIsExpired ==
  \A i \in DOMAIN batch : pc[batch[i]] = "done" /\ Expired(batch[i])

\* Between the unlink and the delete of a row, whatever another run has written
\* to the path since is not lost with the row.
DeleteIsSafe ==
  gc = "delete" =>
    \A a \in Artifacts :
      file[TaskOf[Head(batch)]] = a /\ pc[a] = "done" =>
        \E b \in row \ {Head(batch)} : TaskOf[b] = TaskOf[Head(batch)]

\* KeptUntilExpired from the moment the file is written.
KeptOnceWritten ==
  \A a \in Artifacts \ Old :
    (pc[a] = "written" \/ a \in row) /\ ~Expired(a) /\ ~Shared(a) => file[TaskOf[a]] = a

IInv ==
  /\ TypeOK
  /\ RowsAndFiles
  /\ BatchIsExpired
  /\ NoOrphanFile
  /\ DeleteIsSafe
  /\ KeptOnceWritten

-----------------------------------------------------------------------------
\* LIMIT and ORDER BY pick members of P only: in a finite set of positions there
\* is one with exactly k positions up to it, for every k up to its size.
LEMMA OldestFirstType ==
  ASSUME TypeOK, NEW P \in SUBSET (1..Len(stamped)), NEW n \in Nat
  PROVE  /\ OldestFirst(P, n) \in Seq({stamped[i] : i \in P})
         /\ Len(OldestFirst(P, n)) <= n
<1> DEFINE rank == [i \in P |-> Cardinality({j \in P : j <= i})]
           size == IF Cardinality(P) < n THEN Cardinality(P) ELSE n
<1>0. P \subseteq Nat
  BY DEF TypeOK
<1>1. IsFiniteSet(P) /\ Cardinality(P) \in Nat
  <2>1. IsFiniteSet(1..Len(stamped))
    BY FS_Interval DEF TypeOK
  <2> QED  BY <2>1, FS_Subset, FS_CardinalityType
<1>2. ASSUME NEW i \in P
      PROVE  /\ IsFiniteSet({j \in P : j <= i})
             /\ rank[i] \in 1..Cardinality(P)
  <2>1. IsFiniteSet({j \in P : j <= i}) /\ rank[i] <= Cardinality(P)
    BY <1>1, FS_Subset
  <2>2. i \in {j \in P : j <= i}
    BY <1>0
  <2>3. rank[i] \in Nat /\ rank[i] # 0
    BY <2>1, <2>2, FS_CardinalityType, FS_EmptySet
  <2> QED  BY <1>1, <2>1, <2>3
<1>3. ASSUME NEW i \in P, NEW j \in P, i < j
      PROVE  rank[i] # rank[j]
  <2>1. {l \in P : l <= i} \subseteq {l \in P : l <= j}
    <3>1. ASSUME NEW l \in P, l <= i
          PROVE  l <= j
      <4>1. l \in Nat /\ i \in Nat /\ j \in Nat
        BY <1>0
      <4> QED  BY <1>3, <3>1, <4>1
    <3> QED  BY <3>1
  <2>2. j \in {l \in P : l <= j} /\ j \notin {l \in P : l <= i}
    BY <1>0, <1>3
  <2>3. Cardinality({l \in P : l <= j}) # Cardinality({l \in P : l <= i})
    BY <1>2, <2>1, <2>2, FS_Subset
  <2> QED  BY <2>3
<1>4. rank \in Injection(P, 1..Cardinality(P))
  <2>1. rank \in [P -> 1..Cardinality(P)]
    BY <1>2
  <2>2. \A i, j \in P : rank[i] = rank[j] => i = j
    BY <1>0, <1>3
  <2> QED  BY <2>1, <2>2 DEF Injection, IsInjective
<1>5. rank \in Surjection(P, 1..Cardinality(P))
  BY <1>1, <1>4, FS_Interval, FS_Injection
<1>6. ASSUME NEW k \in 1..size
      PROVE  (CHOOSE i \in P : Cardinality({j \in P : j <= i}) = k) \in P
  <2>1. k \in 1..Cardinality(P)
    BY <1>1
  <2>2. \E i \in P : rank[i] = k
    BY <1>5, <2>1 DEF Surjection
  <2>3. \E i \in P : Cardinality({j \in P : j <= i}) = k
    BY <2>2
  <2> QED  BY <2>3
<1>7. size \in Nat /\ size <= n
  BY <1>1
<1>8. OldestFirst(P, n) \in [1..size -> {stamped[i] : i \in P}]
  BY <1>6 DEF OldestFirst
<1>9. Len(OldestFirst(P, n)) = size
  BY <1>7 DEF OldestFirst
<1> QED  BY <1>7, <1>8, <1>9

\* What gc_run_once takes: rows that are registered and have expired.
LEMMA SelectedRows ==
  ASSUME TypeOK
  PROVE  /\ select_expired_artifacts \in Seq(Artifacts)
         /\ Len(select_expired_artifacts) <= BatchLimit
         /\ \A k \in DOMAIN select_expired_artifacts :
              select_expired_artifacts[k] \in row /\ Expired(select_expired_artifacts[k])
<1> DEFINE P == {i \in 1..clock : stamped[i] \in row}
           Q == {stamped[i] : i \in P}
<1>1. P \in SUBSET (1..Len(stamped))
  BY DEF TypeOK
<1>2. BatchLimit \in Nat
  BY StoreAssumption
<1>3. select_expired_artifacts \in Seq(Q) /\ Len(select_expired_artifacts) <= BatchLimit
  BY <1>1, <1>2, OldestFirstType DEF select_expired_artifacts
<1>4. \A a \in Q : a \in Artifacts /\ a \in row /\ Expired(a)
  BY DEF TypeOK, Expired
<1> QED  BY <1>3, <1>4

\* A turn of the collector ends: one row less to treat.
LEMMA SkipTurn ==
  ASSUME TypeOK, gc # "sleep", Skip
  PROVE  /\ batch' \in Seq(Artifacts) /\ Len(batch') <= BatchLimit
         /\ gc' \in {"sleep", "loop"}
         /\ (gc' = "sleep") <=> (batch' = <<>>)
         /\ \A i \in DOMAIN batch' : i + 1 \in DOMAIN batch /\ batch'[i] = batch[i + 1]
<1> USE StoreAssumption DEF TypeOK, Skip
<1>1. batch # <<>> /\ batch \in Seq(Artifacts)
  OBVIOUS
<1>2. /\ batch' \in Seq(Artifacts) /\ Len(batch') = Len(batch) - 1
      /\ \A i \in DOMAIN batch' : i + 1 \in DOMAIN batch /\ batch'[i] = batch[i + 1]
  BY <1>1
<1>3. (Len(batch) = 1) <=> (batch' = <<>>)
  <2>1. (Len(batch') = 0) <=> (batch' = <<>>)
    <3>1. batch' \in Seq(Artifacts)
      BY <1>2
    <3> HIDE DEF TypeOK, Skip
    <3> QED  BY <3>1
  <2>2. Len(batch) \in Nat
    BY <1>1
  <2>3. Len(batch') = Len(batch) - 1
    BY <1>2
  <2> QED  BY ONLY <2>1, <2>2, <2>3
<1>4. Len(batch') <= BatchLimit
  <2>1. Len(batch) \in Nat /\ BatchLimit \in Nat /\ Len(batch) <= BatchLimit
    BY <1>1
  <2>2. Len(batch') = Len(batch) - 1
    BY <1>2
  <2> QED  BY ONLY <2>1, <2>2
<1>5. gc' \in {"sleep", "loop"} /\ ((gc' = "sleep") <=> (Len(batch) = 1))
  OBVIOUS
<1> QED  BY ONLY <1>2, <1>3, <1>4, <1>5

\* The row whose turn it is.
LEMMA TurnOf ==
  ASSUME TypeOK, gc # "sleep"
  PROVE  Head(batch) \in Artifacts /\ Head(batch) = batch[1] /\ 1 \in DOMAIN batch
BY DEF TypeOK

\* Every step keeps the types, and a batch within its limit.
LEMMA TypeStep ==
  ASSUME TypeOK, [Next]_vars
  PROVE  TypeOK'
<1> USE StoreAssumption DEF vars, collectVars, gcVars, TypeOK
<1>1. ASSUME NEW t \in Tasks, remove_task(t) \/ create_task(t)
      PROVE  TypeOK'
  BY <1>1 DEF remove_task, create_task
<1>2. ASSUME NEW a \in Artifacts, _collect_artifacts(a)
      PROVE  TypeOK'
  <2>1. stamped' \in Seq(Artifacts) /\ clock' \in 0..Len(stamped')
    BY <1>2 DEF _collect_artifacts
  <2> QED  BY <1>2, <2>1 DEF _collect_artifacts
<1>3. ASSUME NEW a \in Artifacts, WriteFile(a)
      PROVE  TypeOK'
  <2>1. file' \in [Tasks -> Artifacts \cup {"none"}]
    <3>1. file' = [file EXCEPT ![TaskOf[a]] = a] \/ file' = file
      BY <1>3 DEF WriteFile
    <3>2. file \in [Tasks -> Artifacts \cup {"none"}]
      OBVIOUS
    <3> QED  BY ONLY <3>1, <3>2, a \in Artifacts
  <2>2. pc' \in [Artifacts -> {"idle", "fetching", "written", "done", "failed"}]
    <3>1. pc' = [pc EXCEPT ![a] = "written"] \/ pc' = [pc EXCEPT ![a] = "failed"]
      BY <1>3 DEF WriteFile
    <3>2. pc \in [Artifacts -> {"idle", "fetching", "written", "done", "failed"}]
      OBVIOUS
    <3> QED  BY ONLY <3>1, <3>2
  <2>3. UNCHANGED <<task, fresh, row, stamped, clock, gcVars, dl, faults, crashes>>
    BY <1>3 DEF WriteFile
  <2> QED  BY <2>1, <2>2, <2>3
<1>4. ASSUME NEW a \in Artifacts, insert_artifact(a)
      PROVE  TypeOK'
  BY <1>4 DEF insert_artifact
<1>5. CASE Expire
  BY <1>5 DEF Expire
<1>6. CASE gc_run_once
  BY <1>6, SelectedRows DEF gc_run_once
<1>7. CASE _unlink_file
  <2>1. Head(batch) \in Artifacts
    BY <1>7, TurnOf DEF _unlink_file
  <2>2. CASE /\ file' = [file EXCEPT ![TaskOf[Head(batch)]] = "none"]
             /\ gc' = "delete"
             /\ UNCHANGED <<batch, faults>>
    BY <1>7, <2>1, <2>2 DEF _unlink_file
  <2>3. CASE Skip /\ UNCHANGED file /\ faults' \in 0..MaxFaults
    BY <1>7, <2>3, SkipTurn DEF _unlink_file
  <2> QED  BY <1>7, <2>2, <2>3 DEF _unlink_file
<1>8. CASE delete_artifact_row
  BY <1>8, SkipTurn DEF delete_artifact_row
<1>9. ASSUME NEW d \in Downloads,
             download_artifact(d) \/ get_artifact_path(d) \/ CheckFile(d) \/ SendFile(d)
      PROVE  TypeOK'
  <2>1. \E s \in {"idle", "task", "path", "send", "lost", "200", "403", "404", "500"} :
          dl' = [dl EXCEPT ![d] = s]
    BY <1>9 DEF download_artifact, get_artifact_path, CheckFile, SendFile, Answer
  <2>2. dl' \in [Downloads -> {"idle", "task", "path", "send", "lost", "200", "403", "404", "500"}]
    BY <2>1
  <2>3. UNCHANGED <<task, fresh, pc, row, file, stamped, clock, gc, batch, faults, crashes>>
    BY <1>9 DEF download_artifact, get_artifact_path, CheckFile, SendFile, Answer
  <2> QED  BY <2>2, <2>3
<1>10. CASE Crash
  BY <1>10 DEF Crash
<1>11. CASE UNCHANGED vars
  BY <1>11
<1> QED
  BY <1>1, <1>2, <1>3, <1>4, <1>5, <1>6, <1>7, <1>8, <1>9, <1>10, <1>11 DEF Next, GcStep

\* Time and the order of expires_at only grow, and a collection does not start
\* over: what has expired stays expired, what shares its path goes on sharing.
LEMMA TimePasses ==
  ASSUME TypeOK, [Next]_vars
  PROVE  \A a \in Artifacts :
           /\ Expired(a) => Expired(a)'
           /\ Shared(a) => Shared(a)'
           /\ pc[a] = "done" => pc'[a] = "done"
<1> USE DEF vars, collectVars, gcVars, TypeOK
<1> DEFINE Later ==
             \A a \in Artifacts : /\ pc[a] # "idle" => pc'[a] # "idle"
                                  /\ pc[a] = "done" => pc'[a] = "done"
           Grows == \A i \in 1..clock : i \in 1..clock' /\ stamped'[i] = stamped[i]
<1>1. ASSUME NEW a \in Artifacts, _collect_artifacts(a)
      PROVE  Later /\ Grows
  BY <1>1 DEF _collect_artifacts
<1>2. ASSUME NEW a \in Artifacts, WriteFile(a) \/ insert_artifact(a)
      PROVE  Later /\ Grows
  BY <1>2 DEF WriteFile, insert_artifact
<1>3. Expire => Later /\ Grows
  BY DEF Expire
<1>4. GcStep => Later /\ Grows
  BY DEF GcStep, gc_run_once, _unlink_file, delete_artifact_row
<1>5. Crash => Later /\ Grows
  BY DEF Crash
<1>6. ASSUME \/ \E t \in Tasks : remove_task(t) \/ create_task(t)
             \/ \E d \in Downloads : download_artifact(d) \/ get_artifact_path(d)
                                    \/ CheckFile(d) \/ SendFile(d)
      PROVE  Later /\ Grows
  BY <1>6 DEF remove_task, create_task, download_artifact, get_artifact_path,
     CheckFile, SendFile, Answer
<1>7. UNCHANGED vars => Later /\ Grows
  OBVIOUS
<1>8. Later /\ Grows
  BY <1>1, <1>2, <1>3, <1>4, <1>5, <1>6, <1>7 DEF Next
<1>9. ASSUME NEW a \in Artifacts
      PROVE  /\ Expired(a) => Expired(a)'
             /\ Shared(a) => Shared(a)'
  <2>1. Expired(a) => Expired(a)'
    BY <1>8 DEF Expired
  <2>2. ASSUME Shared(a)
        PROVE  Shared(a)'
    <3>1. PICK b \in Artifacts \ {a} : TaskOf[b] = TaskOf[a] /\ pc[b] # "idle"
      BY <2>2 DEF Shared
    <3>2. pc'[b] # "idle"
      BY <1>8, <3>1
    <3> QED  BY <3>1, <3>2 DEF Shared
  <2> QED  BY <2>1, <2>2
<1> HIDE DEF TypeOK
<1> QED  BY <1>8, <1>9

\* Rows are inserted for the artifact that was collected, and WriteFile writes
\* the path of its own task.
LEMMA RowsStep ==
  ASSUME TypeOK, RowsAndFiles, [Next]_vars
  PROVE  RowsAndFiles'
<1> USE StoreAssumption DEF vars, collectVars, gcVars, TypeOK, RowsAndFiles
<1>1. ASSUME NEW a \in Artifacts, _collect_artifacts(a)
      PROVE  RowsAndFiles'
  BY <1>1 DEF _collect_artifacts
<1>2. ASSUME NEW a \in Artifacts, WriteFile(a)
      PROVE  RowsAndFiles'
  <2>1. \A t \in Tasks : \A b \in Artifacts : file'[t] = b => TaskOf[b] = t
    <3>1. file' = [file EXCEPT ![TaskOf[a]] = a] \/ file' = file
      BY <1>2 DEF WriteFile
    <3>2. /\ DOMAIN file = Tasks
          /\ \A t \in Tasks : \A b \in Artifacts : file[t] = b => TaskOf[b] = t
      OBVIOUS
    <3> QED  BY ONLY <3>1, <3>2
  <2>2. \A b \in row' : pc'[b] = "done"
    BY <1>2 DEF WriteFile
  <2> QED  BY <2>1, <2>2
<1>3. ASSUME NEW a \in Artifacts, insert_artifact(a)
      PROVE  RowsAndFiles'
  BY <1>3 DEF insert_artifact
<1>4. CASE gc_run_once \/ delete_artifact_row
  BY <1>4 DEF gc_run_once, delete_artifact_row
<1>5. CASE _unlink_file
  <2>1. Head(batch) \in Artifacts
    BY <1>5, TurnOf DEF _unlink_file
  <2> QED  BY <1>5, <2>1 DEF _unlink_file
<1>6. CASE Crash
  BY <1>6 DEF Crash
<1>7. CASE \/ \E t \in Tasks : remove_task(t) \/ create_task(t)
           \/ \E d \in Downloads : download_artifact(d) \/ get_artifact_path(d)
                                  \/ CheckFile(d) \/ SendFile(d)
           \/ Expire
  BY <1>7 DEF remove_task, create_task, download_artifact, get_artifact_path,
     CheckFile, SendFile, Answer, Expire
<1>8. CASE UNCHANGED vars
  BY <1>8
<1> QED
  BY <1>1, <1>2, <1>3, <1>4, <1>5, <1>6, <1>7, <1>8 DEF Next, GcStep

\* What the collector holds goes on being registered and expired.
LEMMA BatchStep ==
  ASSUME TypeOK, TypeOK', RowsAndFiles, BatchIsExpired, [Next]_vars
  PROVE  BatchIsExpired'
<1>1. CASE UNCHANGED batch
  <2>1. \A i \in DOMAIN batch : batch[i] \in Artifacts
    BY DEF TypeOK
  <2> QED  BY <1>1, <2>1, TimePasses DEF BatchIsExpired
<1>2. CASE gc_run_once
  <2>1. \A i \in DOMAIN batch' : batch'[i] \in row /\ Expired(batch'[i])
    BY <1>2, SelectedRows DEF gc_run_once
  <2>2. \A i \in DOMAIN batch' : batch'[i] \in Artifacts
    BY DEF TypeOK
  <2> QED  BY <2>1, <2>2, TimePasses DEF BatchIsExpired, RowsAndFiles
<1>3. CASE gc # "sleep" /\ Skip
  <2>1. \A i \in DOMAIN batch' : i + 1 \in DOMAIN batch /\ batch'[i] = batch[i + 1]
    BY <1>3, SkipTurn
  <2>2. \A i \in DOMAIN batch' : batch'[i] \in Artifacts
    BY DEF TypeOK
  <2> QED  BY <2>1, <2>2, TimePasses DEF BatchIsExpired
<1>4. CASE Crash
  BY <1>4 DEF Crash, BatchIsExpired
<1> QED
  BY <1>1, <1>2, <1>3, <1>4 DEF Next, GcStep, vars, gcVars, remove_task, create_task,
     _collect_artifacts, WriteFile, insert_artifact, Expire, _unlink_file,
     delete_artifact_row, download_artifact, get_artifact_path, CheckFile, SendFile,
     Answer

\* The row that leads to a file is deleted only when the file is gone.
LEMMA OrphanStep ==
  ASSUME TypeOK, TypeOK', RowsAndFiles, BatchIsExpired, NoOrphanFile, DeleteIsSafe,
         [Next]_vars
  PROVE  NoOrphanFile' /\ DeleteIsSafe'
<1> USE StoreAssumption DEF vars, collectVars, gcVars
<1>1. ASSUME NEW a \in Artifacts, _collect_artifacts(a)
      PROVE  NoOrphanFile' /\ DeleteIsSafe'
  BY <1>1 DEF _collect_artifacts, TypeOK, NoOrphanFile, DeleteIsSafe
<1>2. ASSUME NEW a \in Artifacts, WriteFile(a)
      PROVE  NoOrphanFile' /\ DeleteIsSafe'
  <2>1. \A b \in Artifacts : pc'[b] = "done" => pc[b] = "done" /\ b # a
    BY <1>2 DEF WriteFile, TypeOK
  <2>2. \A t \in Tasks : file'[t] = file[t] \/ file'[t] = a
    BY <1>2 DEF WriteFile, TypeOK
  <2>3. UNCHANGED <<row, gc, batch>>
    BY <1>2 DEF WriteFile
  <2>4. NoOrphanFile'
    BY <2>1, <2>2, <2>3 DEF NoOrphanFile
  <2>5. gc = "delete" => TaskOf[Head(batch)] \in Tasks
    BY TurnOf
  <2>6. DeleteIsSafe'
    BY <2>1, <2>2, <2>3, <2>5 DEF DeleteIsSafe
  <2> QED  BY <2>4, <2>6
<1>3. ASSUME NEW a \in Artifacts, insert_artifact(a)
      PROVE  NoOrphanFile' /\ DeleteIsSafe'
  <2>1. CASE row' = row \cup {a} /\ pc' = [pc EXCEPT ![a] = "done"]
    <3>1. UNCHANGED <<file, gc, batch>> /\ pc[a] = "written"
      BY <1>3 DEF insert_artifact
    <3>2. NoOrphanFile'
      BY <2>1, <3>1 DEF NoOrphanFile, RowsAndFiles, TypeOK
    <3>3. ASSUME gc = "delete"
          PROVE  Head(batch) # a /\ TaskOf[Head(batch)] \in Tasks
      BY <3>1, <3>3, TurnOf DEF BatchIsExpired
    <3>4. DeleteIsSafe'
      BY <2>1, <3>1, <3>3 DEF DeleteIsSafe, RowsAndFiles, TypeOK
    <3> QED  BY <3>2, <3>4
  <2>2. CASE pc' = [pc EXCEPT ![a] = "failed"] /\ UNCHANGED row
    BY <1>3, <2>2 DEF insert_artifact, TypeOK, NoOrphanFile, DeleteIsSafe
  <2> QED  BY <1>3, <2>1, <2>2 DEF insert_artifact
<1>4. CASE gc_run_once
  BY <1>4 DEF gc_run_once, NoOrphanFile, DeleteIsSafe
<1>5. CASE _unlink_file
  <2>1. Head(batch) \in Artifacts
    BY <1>5, TurnOf DEF _unlink_file
  <2>2. UNCHANGED <<row, pc>>
    BY <1>5 DEF _unlink_file
  <2>3. CASE /\ file' = [file EXCEPT ![TaskOf[Head(batch)]] = "none"]
             /\ gc' = "delete" /\ UNCHANGED batch
    <3>1. file'[TaskOf[Head(batch')]] = "none"
      BY <2>1, <2>3 DEF TypeOK
    <3>2. \A t \in Tasks : file'[t] = file[t] \/ file'[t] = "none"
      BY <2>1, <2>3 DEF TypeOK
    <3> QED  BY <2>2, <3>1, <3>2 DEF NoOrphanFile, DeleteIsSafe
  <2>4. CASE Skip /\ UNCHANGED file
    <3>1. gc' # "delete"
      BY <2>4 DEF Skip
    <3> QED  BY <2>2, <2>4, <3>1 DEF NoOrphanFile, DeleteIsSafe
  <2> QED  BY <1>5, <2>3, <2>4 DEF _unlink_file
<1>6. CASE delete_artifact_row
  <2>1. Head(batch) \in Artifacts
    BY <1>6, TurnOf DEF delete_artifact_row
  <2>2. gc' # "delete" /\ UNCHANGED <<file, pc>> /\ row \ {Head(batch)} \subseteq row'
    BY <1>6 DEF delete_artifact_row, Skip
  <2>3. ASSUME NEW t \in Tasks, NEW a \in Artifacts, file[t] = a, pc[a] = "done"
        PROVE  \E b \in row \ {Head(batch)} : TaskOf[b] = t
    <3>1. CASE t = TaskOf[Head(batch)]
      BY <1>6, <2>3, <3>1 DEF delete_artifact_row, DeleteIsSafe
    <3>2. CASE t # TaskOf[Head(batch)]
      BY <2>3, <3>2 DEF NoOrphanFile
    <3> QED  BY <3>1, <3>2
  <2> QED  BY <2>2, <2>3 DEF NoOrphanFile, DeleteIsSafe
<1>7. CASE Crash
  BY <1>7 DEF Crash, NoOrphanFile, DeleteIsSafe
<1>8. CASE \/ \E t \in Tasks : remove_task(t) \/ create_task(t)
           \/ \E d \in Downloads : download_artifact(d) \/ get_artifact_path(d)
                                  \/ CheckFile(d) \/ SendFile(d)
           \/ Expire
           \/ UNCHANGED vars
  BY <1>8 DEF remove_task, create_task, download_artifact, get_artifact_path,
     CheckFile, SendFile, Answer, Expire, NoOrphanFile, DeleteIsSafe
<1> QED
  BY <1>1, <1>2, <1>3, <1>4, <1>5, <1>6, <1>7, <1>8 DEF Next, GcStep

\* A file that its task alone has written is unlinked only for its own row, and
\* that only when it has expired.
LEMMA KeptStep ==
  ASSUME TypeOK, TypeOK', BatchIsExpired, KeptOnceWritten, [Next]_vars
  PROVE  KeptOnceWritten'
<1> USE StoreAssumption DEF vars, collectVars, gcVars
<1> SUFFICES ASSUME NEW a \in Artifacts \ Old,
                    pc'[a] = "written" \/ a \in row', ~Expired(a)', ~Shared(a)'
             PROVE  file'[TaskOf[a]] = a
  BY DEF KeptOnceWritten
<1>0. ~Expired(a) /\ ~Shared(a)
  BY TimePasses
<1>a. ASSUME pc[a] = "written" \/ a \in row, UNCHANGED file
      PROVE  file'[TaskOf[a]] = a
  BY <1>0, <1>a DEF KeptOnceWritten
<1>1. ASSUME NEW b \in Artifacts, _collect_artifacts(b)
      PROVE  file'[TaskOf[a]] = a
  BY <1>a, <1>1 DEF _collect_artifacts, TypeOK
<1>2. ASSUME NEW b \in Artifacts, WriteFile(b)
      PROVE  file'[TaskOf[a]] = a
  <2>1. CASE a = b
    BY <1>a, <1>2, <2>1 DEF WriteFile, TypeOK
  <2>2. CASE a # b
    <3>1. TaskOf[a] # TaskOf[b]
      BY <1>0, <1>2, <2>2 DEF Shared, WriteFile
    <3>2. file'[TaskOf[a]] = file[TaskOf[a]] /\ (pc[a] = "written" \/ a \in row)
      BY <1>2, <2>2, <3>1 DEF WriteFile, TypeOK
    <3> QED  BY <1>0, <3>2 DEF KeptOnceWritten
  <2> QED  BY <2>1, <2>2
<1>3. ASSUME NEW b \in Artifacts, insert_artifact(b)
      PROVE  file'[TaskOf[a]] = a
  BY <1>a, <1>3 DEF insert_artifact, TypeOK
<1>4. CASE gc_run_once \/ delete_artifact_row
  BY <1>a, <1>4 DEF gc_run_once, delete_artifact_row
<1>5. CASE _unlink_file
  <2>1. pc[Head(batch)] = "done" /\ Expired(Head(batch)) /\ Head(batch) \in Artifacts
    BY <1>5, TurnOf DEF _unlink_file, BatchIsExpired
  <2>2. TaskOf[Head(batch)] # TaskOf[a]
    BY <1>0, <2>1 DEF Shared
  <2>3. file'[TaskOf[a]] = file[TaskOf[a]] /\ (pc[a] = "written" \/ a \in row)
    BY <1>5, <2>1, <2>2 DEF _unlink_file, TypeOK
  <2> QED  BY <1>0, <2>3 DEF KeptOnceWritten
<1>6. CASE Crash
  BY <1>a, <1>6 DEF Crash, TypeOK
<1>7. CASE \/ \E t \in Tasks : remove_task(t) \/ create_task(t)
           \/ \E d \in Downloads : download_artifact(d) \/ get_artifact_path(d)
                                  \/ CheckFile(d) \/ SendFile(d)
           \/ Expire
           \/ UNCHANGED vars
  BY <1>a, <1>7 DEF remove_task, create_task, download_artifact, get_artifact_path,
     CheckFile, SendFile, Answer, Expire
<1> QED
  BY <1>1, <1>2, <1>3, <1>4, <1>5, <1>6, <1>7 DEF Next, GcStep

-----------------------------------------------------------------------------
\* IInv holds over faults, crashes, deleted and resubmitted tasks.
THEOREM Invariance == Spec => []IInv
<1>1. Init => IInv
  <2> SUFFICES ASSUME Init
               PROVE  IInv
    OBVIOUS
  <2> USE StoreAssumption DEF Init
  <2>1. TypeOK
    BY DEF TypeOK, Old
  <2>2. RowsAndFiles /\ BatchIsExpired
    BY DEF RowsAndFiles, BatchIsExpired, Old
  <2>3. NoOrphanFile /\ DeleteIsSafe
    BY DEF NoOrphanFile, DeleteIsSafe
  <2>4. KeptOnceWritten
    BY DEF KeptOnceWritten
  <2> QED  BY <2>1, <2>2, <2>3, <2>4 DEF IInv
<1>2. IInv /\ [Next]_vars => IInv'
  <2> SUFFICES ASSUME IInv, [Next]_vars
               PROVE  IInv'
    OBVIOUS
  <2>1. TypeOK'
    BY TypeStep DEF IInv
  <2> QED  BY <2>1, RowsStep, BatchStep, OrphanStep, KeptStep DEF IInv
<1> QED  BY <1>1, <1>2, PTL DEF Spec

\* Types, and no round takes more than BatchLimit rows.
THEOREM TypeCorrect == Spec => []TypeOK
<1>1. IInv => TypeOK
  BY DEF IInv
<1> QED  BY <1>1, Invariance, PTL

\* No registered file is left without a row that leads the collector to it,
\* although unlink and DELETE are two steps and a new run of the task may write
\* the path between them.
THEOREM NoFileIsOrphaned == Spec => []NoOrphanFile
<1>1. IInv => NoOrphanFile
  BY DEF IInv
<1> QED  BY <1>1, Invariance, PTL

\* An unexpired artifact of a task that ran once can be downloaded.
THEOREM ArtifactsAreKept == Spec => []KeptUntilExpired
<1>1. IInv => KeptUntilExpired
  BY DEF IInv, TypeOK, KeptOnceWritten, KeptUntilExpired
<1> QED  BY <1>1, Invariance, PTL
=============================================================================
