---------------------------- MODULE ArtifactStore ----------------------------
(***************************************************************************)
(* Artifacts of finished runs: _collect_artifacts of the driver writes a   *)
(* file and registers a row, the collector of orchestrator/artifact_gc.py  *)
(* unlinks the files of expired rows and then deletes the rows, and        *)
(* GET /tasks/{id}/artifacts/{id} serves a file.                           *)
(*                                                                         *)
(* A run has one artifact here (the transcript is written like the diff).  *)
(* Its path depends on the task id only, so a path is a task id; a task id *)
(* is run again when the task was deleted and the same id submitted again. *)
(***************************************************************************)
EXTENDS Integers, Sequences, FiniteSets

CONSTANTS
  Tasks,      \* task ids, and the path of each
  Artifacts,  \* artifact ids
  TaskOf,     \* the task of each artifact
  OldRows,    \* artifacts registered under another artifacts_dir, oldest first
  Downloads,  \* download requests
  Wanted,     \* the artifact each download asks for
  BatchLimit, \* _GC_BATCH_LIMIT
  MaxFaults,  \* bound: failures of unlink or of DELETE that do not last
  MaxCrash    \* bound: crashes of the worker process

Old == {OldRows[i] : i \in DOMAIN OldRows}

ASSUME StoreAssumption ==
  /\ TaskOf \in [Artifacts -> Tasks] /\ "none" \notin Artifacts
  /\ OldRows \in Seq(Artifacts)
  /\ \A i, j \in DOMAIN OldRows : OldRows[i] = OldRows[j] => i = j
  /\ Wanted \in [Downloads -> Artifacts]
  /\ BatchLimit \in Nat \ {0} /\ MaxFaults \in Nat /\ MaxCrash \in Nat

VARIABLES
  task,      \* the row of each task exists
  fresh,     \* a task was submitted and its run has not collected yet
  pc,        \* where the collection of each artifact is
  row,       \* artifacts registered in the table
  file,      \* the artifact whose content each path holds, or "none"
  stamped,   \* artifacts in the order of their expires_at
  clock,     \* how many of these times have passed
  gc,        \* where gc_run_once is: sleep, loop or delete
  batch,     \* expired rows it has still to treat
  dl,        \* where each download is
  faults, crashes

vars == <<task, fresh, pc, row, file, stamped, clock, gc, batch, dl, faults, crashes>>
collectVars == <<task, fresh, pc, stamped>>
gcVars == <<gc, batch>>

Init ==
  /\ task = [t \in Tasks |-> TRUE]
  /\ fresh = [t \in Tasks |-> TRUE]
  /\ pc = [a \in Artifacts |-> IF a \in Old THEN "done" ELSE "idle"]
  /\ row = Old
  /\ file = [t \in Tasks |-> "none"]
  /\ stamped = OldRows
  /\ clock = 0
  /\ gc = "sleep" /\ batch = <<>>
  /\ dl = [d \in Downloads |-> "idle"]
  /\ faults = 0 /\ crashes = 0

(***************************************************************************)
(* The tasks table.  DELETE /tasks/{id} leaves the rows of the artifacts   *)
(* (no PRAGMA foreign_keys); an abort makes any task deletable.            *)
(***************************************************************************)
\* Variant: the rows of the artifacts are deleted with the task.
remove_task_Cascade(t) ==
  /\ task[t]
  /\ task' = [task EXCEPT ![t] = FALSE]
  /\ row' = {a \in row : TaskOf[a] # t}
  /\ UNCHANGED <<fresh, pc, file, stamped, clock, gcVars, dl, faults, crashes>>

remove_task(t) ==
  /\ task[t]
  /\ task' = [task EXCEPT ![t] = FALSE]
  /\ UNCHANGED <<fresh, pc, row, file, stamped, clock, gcVars, dl, faults, crashes>>

create_task(t) ==
  /\ ~task[t]
  /\ task' = [task EXCEPT ![t] = TRUE]
  /\ fresh' = [fresh EXCEPT ![t] = TRUE]
  /\ UNCHANGED <<pc, row, file, stamped, clock, gcVars, dl, faults, crashes>>

(***************************************************************************)
(* _collect_artifacts                                                      *)
(***************************************************************************)
\* expires_at is fixed before the diff is requested.
_collect_artifacts(a) ==
  /\ pc[a] = "idle" /\ fresh[TaskOf[a]]
  /\ fresh' = [fresh EXCEPT ![TaskOf[a]] = FALSE]
  /\ stamped' = Append(stamped, a)
  /\ pc' = [pc EXCEPT ![a] = "fetching"]
  /\ UNCHANGED <<task, row, file, clock, gcVars, dl, faults, crashes>>

\* write_text replaces what the path holds; without a diff nothing is written.
WriteFile(a) ==
  /\ pc[a] = "fetching"
  /\ \/ /\ file' = [file EXCEPT ![TaskOf[a]] = a]
        /\ pc' = [pc EXCEPT ![a] = "written"]
     \/ pc' = [pc EXCEPT ![a] = "failed"] /\ UNCHANGED file
  /\ UNCHANGED <<task, fresh, row, stamped, clock, gcVars, dl, faults, crashes>>

\* An exception is logged; the file stays.
insert_artifact(a) ==
  /\ pc[a] = "written"
  /\ \/ row' = row \cup {a} /\ pc' = [pc EXCEPT ![a] = "done"]
     \/ pc' = [pc EXCEPT ![a] = "failed"] /\ UNCHANGED row
  /\ UNCHANGED <<task, fresh, file, stamped, clock, gcVars, dl, faults, crashes>>

\* Time passes the next expires_at.
Expire ==
  /\ clock < Len(stamped)
  /\ clock' = clock + 1
  /\ UNCHANGED <<collectVars, row, file, gcVars, dl, faults, crashes>>

(***************************************************************************)
(* gc_run_once                                                             *)
(***************************************************************************)
Expired(a) == \E i \in 1..clock : stamped[i] = a

\* ORDER BY expires_at LIMIT n: of the positions P of stamped the n least.
OldestFirst(P, n) ==
  [k \in 1..(IF Cardinality(P) < n THEN Cardinality(P) ELSE n) |->
     stamped[CHOOSE i \in P : Cardinality({j \in P : j <= i}) = k]]

\* Variants: without LIMIT, and without a look at expires_at.
select_expired_artifacts_NoLimit ==
  OldestFirst({i \in 1..clock : stamped[i] \in row}, Len(stamped))
select_expired_artifacts_All ==
  OldestFirst({i \in 1..Len(stamped) : stamped[i] \in row}, BatchLimit)

\* Expired rows in the order of expires_at, at most BatchLimit of them.
select_expired_artifacts ==
  OldestFirst({i \in 1..clock : stamped[i] \in row}, BatchLimit)

gc_run_once ==
  /\ gc = "sleep" /\ select_expired_artifacts # <<>>
  /\ batch' = select_expired_artifacts
  /\ gc' = "loop"
  /\ UNCHANGED <<collectVars, row, file, clock, dl, faults, crashes>>

\* Treats the next row as an error: its turn is over and the row stays.
Skip == batch' = Tail(batch) /\ gc' = IF Len(batch) = 1 THEN "sleep" ELSE "loop"

\* ok and missing_file go on to the row.  A path outside artifacts_dir is
\* refused; OSError is a fault.
_unlink_file ==
  /\ gc = "loop"
  /\ LET a == Head(batch)
     IN \/ /\ a \notin Old
           /\ file' = [file EXCEPT ![TaskOf[a]] = "none"]
           /\ gc' = "delete"
           /\ UNCHANGED <<batch, faults>>
        \/ a \in Old /\ Skip /\ UNCHANGED <<file, faults>>
        \/ /\ a \notin Old /\ faults < MaxFaults
           /\ faults' = faults + 1
           /\ Skip /\ UNCHANGED file
  /\ UNCHANGED <<collectVars, row, clock, dl, crashes>>

\* Variant: the row stays.
delete_artifact_row_Kept ==
  /\ gc = "delete"
  /\ Skip
  /\ UNCHANGED <<collectVars, row, file, clock, dl, faults, crashes>>

delete_artifact_row ==
  /\ gc = "delete"
  /\ \/ row' = row \ {Head(batch)} /\ UNCHANGED faults
     \/ faults < MaxFaults /\ faults' = faults + 1 /\ UNCHANGED row
  /\ Skip
  /\ UNCHANGED <<collectVars, file, clock, dl, crashes>>

(***************************************************************************)
(* download_artifact: an await between each of its steps                   *)
(***************************************************************************)
Answer(d, s) ==
  /\ dl' = [dl EXCEPT ![d] = s]
  /\ UNCHANGED <<collectVars, row, file, clock, gcVars, faults, crashes>>

download_artifact(d) ==
  /\ dl[d] = "idle"
  /\ Answer(d, IF task[TaskOf[Wanted[d]]] THEN "task" ELSE "404")

\* expires_at is not looked at.
get_artifact_path(d) ==
  /\ dl[d] = "task"
  /\ Answer(d, IF Wanted[d] \in row THEN "path" ELSE "404")

CheckFile(d) ==
  /\ dl[d] = "path"
  /\ Answer(d, IF Wanted[d] \in Old THEN "403"
               ELSE IF file[TaskOf[Wanted[d]]] = "none" THEN "404" ELSE "send")

\* FileResponse (external) raises when the file is gone by now.
SendFile(d) ==
  /\ dl[d] = "send"
  /\ Answer(d, IF file[TaskOf[Wanted[d]]] = "none" THEN "500" ELSE "200")

\* Requests and runs are gone; rows and files stay.
Crash ==
  /\ crashes < MaxCrash
  /\ crashes' = crashes + 1
  /\ pc' = [a \in Artifacts |-> IF pc[a] \in {"fetching", "written"} THEN "failed" ELSE pc[a]]
  /\ fresh' = [t \in Tasks |-> FALSE]
  /\ gc' = "sleep" /\ batch' = <<>>
  /\ dl' = [d \in Downloads |-> IF dl[d] \in {"task", "path", "send"} THEN "lost" ELSE dl[d]]
  /\ UNCHANGED <<task, row, file, stamped, clock, faults>>

GcStep == gc_run_once \/ _unlink_file \/ delete_artifact_row

Next ==
  \/ \E t \in Tasks : remove_task(t) \/ create_task(t)
  \/ \E a \in Artifacts : _collect_artifacts(a) \/ WriteFile(a) \/ insert_artifact(a)
  \/ Expire
  \/ GcStep
  \/ \E d \in Downloads :
       download_artifact(d) \/ get_artifact_path(d) \/ CheckFile(d) \/ SendFile(d)
  \/ Crash

Spec == Init /\ [][Next]_vars

\* _gc_loop never exits: after an error it sleeps and runs again.
FairSpec == Spec /\ WF_vars(GcStep)

(***************************************************************************)
(* Properties                                                              *)
(***************************************************************************)
\* Every variable has its type, and a round of the collector takes at most
\* BatchLimit rows (gc_run_once).
TypeOK ==
  /\ task \in [Tasks -> BOOLEAN] /\ fresh \in [Tasks -> BOOLEAN]
  /\ pc \in [Artifacts -> {"idle", "fetching", "written", "done", "failed"}]
  /\ row \subseteq Artifacts
  /\ file \in [Tasks -> Artifacts \cup {"none"}]
  /\ stamped \in Seq(Artifacts)
  /\ clock \in 0..Len(stamped)
  /\ gc \in {"sleep", "loop", "delete"}
  /\ batch \in Seq(Artifacts) /\ Len(batch) <= BatchLimit
  /\ (gc = "sleep") <=> (batch = <<>>)
  /\ dl \in [Downloads -> {"idle", "task", "path", "send", "lost", "200", "403", "404", "500"}]
  /\ faults \in 0..MaxFaults /\ crashes \in 0..MaxCrash

\* "避免 DB 行已删但文件残留无主导致永久泄漏": whatever fails, crashes or is deleted
\* in between, a file whose artifact was registered has a row that leads the
\* collector to it (gc_run_once unlinks first; DELETE of the task keeps rows).
NoOrphanFile ==
  \A t \in Tasks : \A a \in Artifacts :
    file[t] = a /\ pc[a] = "done" => \E b \in row : TaskOf[b] = t

Shared(a) == \E b \in Artifacts \ {a} : TaskOf[b] = TaskOf[a] /\ pc[b] # "idle"

\* An artifact that has not expired can be downloaded: nobody removes its file,
\* unless the same task id was run twice (_unlink_file, select_expired_artifacts).
KeptUntilExpired ==
  \A a \in row \ Old :
    ~Expired(a) /\ ~Shared(a) => file[TaskOf[a]] = a

\* As long as the rows that can never be unlinked do not fill a batch, every
\* expired row is deleted in the end, over faults and crashes, whether or not
\* its task still exists.
ExpiredIsCollected ==
  Len(OldRows) < BatchLimit =>
    \A a \in Artifacts \ Old : (a \in row /\ Expired(a)) ~> a \notin row

(***************************************************************************)
(* Statements of the repository the code does not meet                     *)
(***************************************************************************)
\* "单轮限 _GC_BATCH_LIMIT 行，超出由下轮续清": the rows a round leaves out are
\* collected by a later one.
OverflowIsCleared ==
  \A a \in Artifacts \ Old : (a \in row /\ Expired(a)) ~> a \notin row

\* "artifact 默认保留 7 天": the file of a registered artifact is there until it
\* expires.
RetentionIsHonoured ==
  \A a \in row \ Old : ~Expired(a) => file[TaskOf[a]] # "none"
=============================================================================
