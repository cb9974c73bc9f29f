------------------------------ MODULE SdkClient ------------------------------
(***************************************************************************)
(* worker_sdk/client.py, AsyncWorkerClient, with retry.py, errors.py and   *)
(* compat.py: concurrent calls on one client object, over a network that   *)
(* loses requests and answers and delays requests past the client's        *)
(* timeout, and download_artifact_to with the files it writes.             *)
(*                                                                         *)
(* The worker's side of a call is the route handler of api/routes.py, as   *)
(* far as its answer depends on it: the row of a task (absent, not         *)
(* terminal, terminal) or of a decision (absent, pending, settled), which  *)
(* other clients and the runs change too.  TaskLifecycle and Driver have   *)
(* the handlers in full.  Messages are left out, and so is the time waited *)
(* before a retry: it is the backoff or, when longer, the Retry-After of   *)
(* the worker, which has no limit, and httpx limits the single connect,    *)
(* read and write and not the request.  So nothing is said about when a    *)
(* call ends.                                                              *)
(***************************************************************************)
EXTENDS Integers, Sequences, FiniteSets

CONSTANTS
  Calls,        \* calls of the client's methods, each made once
  Op,           \* Op[c]: the method, see Posts; "GET" is one of a task
  Programs,     \* sets of calls an application makes on one client
  Target,       \* the key, or the destination file, of each call
  Overwrite,    \* downloads made with overwrite=True
  OldFiles,     \* destinations that exist beforehand
  MaxAttempts,  \* RetryPolicy.max_attempts
  RetryOn,      \* the failures the policy retries: "server", "transport"
  Chunks,       \* chunks of an artifact
  Nobody

Posts == {"create_task", "submit_decision", "abort_task"}
Downloads == {c \in Calls : Op[c] = "download"}
Keys == {Target[c] : c \in Calls \ Downloads}
Decisions == {Target[c] : c \in {d \in Calls : Op[d] = "submit_decision"}}
Files == {Target[c] : c \in Downloads}

ASSUME ClientAssumption ==
  /\ Op \in [Calls -> Posts \cup {"GET", "download", "assert_compatible"}]
  /\ DOMAIN Target = Calls /\ Programs \subseteq SUBSET Calls
  /\ \A c \in Calls : Op[c] \in {"create_task", "abort_task", "GET"} => Target[c] \notin Decisions
  /\ Overwrite \subseteq Downloads /\ OldFiles \subseteq Files
  /\ MaxAttempts \in Nat \ {0} /\ Chunks \in Nat \ {0}
  /\ RetryOn \subseteq {"server", "transport"}
  /\ Nobody \notin Calls \cup {"old"} /\ "old" \notin Calls

VARIABLES
  program,       \* the calls made in this behaviour
  compatChecked, \* _compat_checked
  pc,            \* per call: idle, health, main (a request loop), write, done
  attempt,       \* requests sent in the current loop
  wire,          \* the attempt under way: none, sent, or what has come back
  result,        \* how each call ended
  compatible,    \* is_compatible(version of the worker)
  row,           \* the worker's row of each key: none, open or closed
  inbox,         \* POSTs sent that the worker has not looked at and may get
  passed,        \* abort_task handlers past their check of the status
  effect,        \* history: POSTs the worker carried out
  unchecked,     \* history: a first version check ended without the version
  dest, part,    \* per destination: the file there, and the one at .part
  bytes,         \* content of the file each download created
  fh, offset,    \* file and position each download writes to
  stuck,         \* .part files whose unlink failed, not opened again since
  overlap        \* history: two downloads had one .part file open

fileVars == <<dest, part, bytes, fh, offset, stuck, overlap>>
workerVars == <<row, inbox, passed, effect>>
given == <<program, compatible>>
callVars == <<pc, attempt, wire, result>>
vars == <<given, compatChecked, unchecked, callVars, workerVars, fileVars>>

Init ==
  /\ program \in Programs
  /\ compatChecked = FALSE /\ unchecked = FALSE
  /\ pc = [c \in Calls |-> "idle"]
  /\ attempt = [c \in Calls |-> 0]
  /\ wire = [c \in Calls |-> "none"]
  /\ result = [c \in Calls |-> "none"]
  /\ compatible \in BOOLEAN
  /\ row = [k \in Keys |-> "none"]
  /\ inbox = {} /\ passed = {} /\ effect = {}
  /\ dest = [f \in Files |-> IF f \in OldFiles THEN "old" ELSE Nobody]
  /\ part = [f \in Files |-> Nobody]
  /\ bytes = [c \in Downloads |-> <<>>]
  /\ fh = [c \in Downloads |-> Nobody]
  /\ offset = [c \in Downloads |-> 0]
  /\ stuck = {} /\ overlap = [f \in Files |-> FALSE]

(***************************************************************************)
(* The request loop                                                        *)
(***************************************************************************)
End(c, r) ==
  /\ pc' = [pc EXCEPT ![c] = "done"]
  /\ result' = [result EXCEPT ![c] = r]
  /\ wire' = [wire EXCEPT ![c] = "none"]
  /\ UNCHANGED attempt

Loop(c, l) ==
  /\ pc' = [pc EXCEPT ![c] = l]
  /\ attempt' = [attempt EXCEPT ![c] = 0]
  /\ wire' = [wire EXCEPT ![c] = "none"]
  /\ UNCHANGED result

\* The call past its version check.  download_artifact_to looks at the
\* destination here, before it awaits the answer.
Enter(c) ==
  IF c \in Downloads \ Overwrite /\ dest[Target[c]] # Nobody
  THEN End(c, "exists")
  ELSE Loop(c, "main")

\* A method is called: _maybe_compat_check sets the flag before it awaits
\* /health, so that a second call goes ahead.  assert_compatible does not look
\* at the flag.
_maybe_compat_check(c) ==
  /\ c \in program /\ pc[c] = "idle"
  /\ \/ Op[c] = "assert_compatible" /\ Loop(c, "health") /\ UNCHANGED compatChecked
     \/ /\ Op[c] # "assert_compatible" /\ compatChecked
        /\ Enter(c) /\ UNCHANGED compatChecked
     \/ /\ Op[c] # "assert_compatible" /\ ~compatChecked
        /\ Loop(c, "health") /\ compatChecked' = TRUE
  /\ UNCHANGED <<given, unchecked, workerVars, fileVars>>

\* Variant: a POST is retried like a GET.
_should_retry_Post(c) == Op[c] # "download"

\* The method is GET, also that of the version check; a download goes round
\* _request.
_should_retry(c) == pc[c] = "health" \/ Op[c] = "GET"

policy(c) == IF _should_retry(c) THEN MaxAttempts ELSE 1

\* A request goes out; a POST of the method itself may reach the worker from
\* now on.
_send_once(c) ==
  /\ pc[c] \in {"health", "main"} /\ wire[c] = "none"
  /\ attempt' = [attempt EXCEPT ![c] = @ + 1]
  /\ wire' = [wire EXCEPT ![c] = "sent"]
  /\ inbox' = IF pc[c] = "main" /\ Op[c] \in Posts THEN inbox \cup {c} ELSE inbox
  /\ UNCHANGED <<given, compatChecked, unchecked, pc, result, row, passed, effect, fileVars>>

\* Variant: the last failure is retried once more.
Retryable_OffByOne(c, failure) == failure \in RetryOn /\ attempt[c] <= policy(c)

Retryable(c, failure) == failure \in RetryOn /\ attempt[c] < policy(c)

\* The version check of a first call is given up: _maybe_compat_check lets
\* every error but WorkerCompatibilityError pass and leaves the flag set.
CheckGivenUp(c) ==
  unchecked' = (unchecked \/ (pc[c] = "health" /\ Op[c] # "assert_compatible"))

\* 5xx or an httpx error: another attempt after the wait, or the error of the
\* last one.
Failure(c) ==
  /\ wire[c] \in {"server", "transport"}
  /\ IF Retryable(c, wire[c])
     THEN wire' = [wire EXCEPT ![c] = "none"] /\ UNCHANGED <<pc, attempt, result, unchecked>>
     ELSE End(c, wire[c]) /\ CheckGivenUp(c)
  /\ UNCHANGED <<given, compatChecked, workerVars, fileVars>>

\* 4xx is raised at once.
Refused(c) ==
  /\ wire[c] \in {"conflict", "notfound"}
  /\ End(c, wire[c]) /\ CheckGivenUp(c)
  /\ UNCHANGED <<given, compatChecked, workerVars, fileVars>>

\* _parse_json: the body of a 2xx answer is no JSON.
BadJson(c) ==
  /\ wire[c] = "version" \/ (wire[c] = "ok" /\ c \notin Downloads)
  /\ End(c, "client") /\ CheckGivenUp(c)
  /\ UNCHANGED <<given, compatChecked, workerVars, fileVars>>

Success(c) ==
  /\ wire[c] = "ok" /\ c \notin Downloads
  /\ End(c, "ok")
  /\ UNCHANGED <<given, compatChecked, unchecked, workerVars, fileVars>>

\* Variant: the flag stays set after a WorkerCompatibilityError.
assert_compatible_KeepsFlag(c) ==
  /\ wire[c] = "version"
  /\ compatChecked' = (compatChecked \/ compatible)
  /\ \/ ~compatible /\ End(c, "incompatible")
     \/ compatible /\ Op[c] # "assert_compatible" /\ Enter(c)
     \/ compatible /\ Op[c] = "assert_compatible" /\ End(c, "ok")
  /\ UNCHANGED <<given, unchecked, workerVars, fileVars>>

\* The version has arrived.  WorkerCompatibilityError puts the flag back when
\* it passes through _maybe_compat_check.
assert_compatible(c) ==
  /\ wire[c] = "version"
  /\ \/ /\ ~compatible /\ End(c, "incompatible")
        /\ compatChecked' = (compatChecked /\ Op[c] = "assert_compatible")
     \/ /\ compatible /\ compatChecked' = TRUE
        /\ \/ Op[c] # "assert_compatible" /\ Enter(c)
           \/ Op[c] = "assert_compatible" /\ End(c, "ok")
  /\ UNCHANGED <<given, unchecked, workerVars, fileVars>>

(***************************************************************************)
(* The worker and the network                                              *)
(***************************************************************************)
\* The client gets the answer if it still waits for it.
Reply(c, r) == wire' = IF wire[c] = "sent" THEN [wire EXCEPT ![c] = r] ELSE wire

\* The handler of a POST has done what it is asked for.
CarriedOut(c, state) ==
  /\ effect' = effect \cup {c}
  /\ row' = [row EXCEPT ![Target[c]] = state]

create_task(c) ==
  /\ c \in inbox /\ Op[c] = "create_task"
  /\ inbox' = inbox \ {c} /\ UNCHANGED passed
  /\ IF row[Target[c]] = "none"
     THEN CarriedOut(c, "open") /\ Reply(c, "ok")
     ELSE UNCHANGED <<row, effect>> /\ Reply(c, "conflict")
  /\ UNCHANGED <<given, compatChecked, unchecked, pc, attempt, result, fileVars>>

\* resolve_decision updates a pending decision; one that does not exist is
\* answered like one already resolved.  Denied has the 404 of a missing task.
submit_decision(c) ==
  /\ c \in inbox /\ Op[c] = "submit_decision"
  /\ inbox' = inbox \ {c} /\ UNCHANGED passed
  /\ IF row[Target[c]] = "open"
     THEN CarriedOut(c, "closed") /\ Reply(c, "ok")
     ELSE UNCHANGED <<row, effect>> /\ Reply(c, "conflict")
  /\ UNCHANGED <<given, compatChecked, unchecked, pc, attempt, result, fileVars>>

\* abort_task looks at the status and awaits the write.
abort_task(c) ==
  /\ c \in inbox /\ Op[c] = "abort_task" /\ inbox' = inbox \ {c}
  /\ \/ /\ row[Target[c]] = "open" /\ passed' = passed \cup {c}
        /\ UNCHANGED wire
     \/ /\ row[Target[c]] # "open" /\ UNCHANGED passed
        /\ Reply(c, IF row[Target[c]] = "none" THEN "notfound" ELSE "conflict")
  /\ UNCHANGED <<given, compatChecked, unchecked, pc, attempt, result, row, effect, fileVars>>

\* The write is unconditional, so every abort past the check is answered 200;
\* a row deleted meanwhile stays deleted.
abort_task_write(c) ==
  /\ c \in passed /\ passed' = passed \ {c} /\ UNCHANGED inbox
  /\ CarriedOut(c, IF row[Target[c]] = "none" THEN "none" ELSE "closed")
  /\ Reply(c, "ok")
  /\ UNCHANGED <<given, compatChecked, unchecked, pc, attempt, result, fileVars>>

\* /health, GET of a task, and the answer of download_artifact.
ServeGet(c) ==
  /\ wire[c] = "sent"
  /\ \/ pc[c] = "health" /\ Reply(c, "version")
     \/ /\ pc[c] = "main" /\ Op[c] = "GET"
        /\ Reply(c, IF row[Target[c]] = "none" THEN "notfound" ELSE "ok")
     \/ /\ pc[c] = "main" /\ Op[c] = "download"
        /\ Reply(c, "ok")
  /\ UNCHANGED <<given, compatChecked, unchecked, pc, attempt, result, workerVars, fileVars>>

\* A request the worker has not looked at.
Unread(c) == c \in inbox \/ (wire[c] = "sent" /\ (pc[c] = "health" \/ Op[c] \notin Posts))

\* Any other 4xx, given before anything is done: the token (401), the body
\* (422), no such path, artifact or task of a decision (404); to /health when
\* base_url names something else than a worker.
Denied(c) ==
  /\ Unread(c) /\ inbox' = inbox \ {c} /\ Reply(c, "notfound")
  /\ UNCHANGED <<given, compatChecked, unchecked, pc, attempt, result, row, passed, effect, fileVars>>

\* A 5xx answer, of a handler that failed before or after it took effect.
ServeFails(c) ==
  /\ Unread(c) \/ c \in passed
  /\ inbox' = inbox \ {c} /\ passed' = passed \ {c} /\ Reply(c, "server")
  /\ \/ UNCHANGED <<row, effect>>
     \/ Op[c] = "create_task" /\ c \in inbox /\ row[Target[c]] = "none" /\ CarriedOut(c, "open")
     \/ Op[c] = "submit_decision" /\ c \in inbox /\ row[Target[c]] = "open" /\ CarriedOut(c, "closed")
     \/ c \in passed /\ CarriedOut(c, IF row[Target[c]] = "none" THEN "none" ELSE "closed")
  /\ UNCHANGED <<given, compatChecked, unchecked, pc, attempt, result, fileVars>>

\* The connection fails or one of the client's timeouts passes: the request is
\* lost, or still on its way, or the answer is lost.
Lose(c) ==
  /\ wire[c] \notin {"none", "transport"}
  /\ wire' = [wire EXCEPT ![c] = "transport"]
  /\ inbox' \in {inbox, inbox \ {c}}
  /\ UNCHANGED <<given, compatChecked, unchecked, pc, attempt, result, row, passed, effect, fileVars>>

\* Somebody else creates, ends or deletes the task; the run asks for the
\* decision, or it expires or is answered by somebody else.  The id of a
\* decision is not used again.  Rows that no call is about are left as they are.
RowChanges(k) ==
  /\ \E c \in program : Target[c] = k
  /\ \/ row[k] = "none" /\ row' = [row EXCEPT ![k] = "open"]
     \/ row[k] = "open" /\ row' = [row EXCEPT ![k] = "closed"]
     \/ row[k] = "closed" /\ k \notin Decisions /\ row' = [row EXCEPT ![k] = "none"]
  /\ UNCHANGED <<given, compatChecked, unchecked, callVars, inbox, passed, effect, fileVars>>

(***************************************************************************)
(* download_artifact_to: the body is written to <dest>.part, which takes   *)
(* the place of the destination at the end.  A file is named by the        *)
(* download that created it; "wb" empties the one that is there, written   *)
(* by another download or left behind by one.                              *)
(***************************************************************************)
open_part(c) ==
  LET f == Target[c]
      file == IF part[f] = Nobody THEN c ELSE part[f] IN
  /\ c \in Downloads /\ pc[c] = "main" /\ wire[c] = "ok"
  /\ pc' = [pc EXCEPT ![c] = "write"]
  /\ part' = [part EXCEPT ![f] = file]
  /\ bytes' = [bytes EXCEPT ![file] = <<>>]
  /\ fh' = [fh EXCEPT ![c] = file]
  /\ stuck' = stuck \ {f}
  /\ overlap' = [overlap EXCEPT ![f] = @ \/ \E d \in Downloads : Target[d] = f /\ pc[d] = "write"]
  /\ UNCHANGED <<given, compatChecked, unchecked, attempt, wire, result, workerVars, dest, offset>>

\* Writing at position n of a file: what lies before it and was never written
\* is a hole.
WriteAt(s, n, c) ==
  [i \in 1 .. (IF n > Len(s) THEN n ELSE Len(s)) |->
     IF i = n THEN c ELSE IF i <= Len(s) THEN s[i] ELSE Nobody]

write_chunk(c) ==
  /\ c \in Downloads /\ pc[c] = "write" /\ wire[c] = "ok" /\ offset[c] < Chunks
  /\ bytes' = [bytes EXCEPT ![fh[c]] = WriteAt(@, offset[c] + 1, c)]
  /\ offset' = [offset EXCEPT ![c] = @ + 1]
  /\ UNCHANGED <<given, compatChecked, unchecked, callVars, workerVars, dest, part, fh, stuck, overlap>>

\* os.replace, which fails when another download took the .part file away.
os_replace(c) ==
  LET f == Target[c] IN
  /\ c \in Downloads /\ pc[c] = "write" /\ wire[c] = "ok" /\ offset[c] = Chunks
  /\ part' = [part EXCEPT ![f] = Nobody] /\ stuck' = stuck \ {f}
  /\ IF part[f] # Nobody
     THEN dest' = [dest EXCEPT ![f] = part[f]] /\ End(c, "ok")
     ELSE UNCHANGED dest /\ End(c, "oserror")
  /\ UNCHANGED <<given, compatChecked, unchecked, workerVars, bytes, fh, offset, overlap>>

\* tmp_path.unlink(missing_ok=True), whose OSError is swallowed: then the file
\* stays.
unlink(f) ==
  \/ part' = [part EXCEPT ![f] = Nobody] /\ stuck' = stuck \ {f}
  \/ part[f] # Nobody /\ stuck' = stuck \cup {f} /\ UNCHANGED part

\* Variant: only an Exception is caught, so a cancellation leaves the file.
WriteFails_KeepsPart(c) ==
  /\ c \in Downloads
  /\ \/ pc[c] = "write" /\ wire[c] = "transport" /\ End(c, "transport") /\ unlink(Target[c])
     \/ pc[c] = "write" /\ End(c, "cancelled") /\ UNCHANGED <<part, stuck>>
     \/ /\ pc[c] = "write" \/ (pc[c] = "main" /\ wire[c] = "ok")
        /\ End(c, "oserror") /\ unlink(Target[c])
  /\ UNCHANGED <<given, compatChecked, unchecked, workerVars, dest, bytes, fh, offset, overlap>>

\* The connection breaks while the body is read, the call is cancelled, or an
\* open, write or replace fails.
WriteFails(c) ==
  /\ c \in Downloads
  /\ \/ pc[c] = "write" /\ wire[c] = "transport" /\ End(c, "transport")
     \/ pc[c] = "write" /\ End(c, "cancelled")
     \/ (pc[c] = "write" \/ (pc[c] = "main" /\ wire[c] = "ok")) /\ End(c, "oserror")
  /\ unlink(Target[c])
  /\ UNCHANGED <<given, compatChecked, unchecked, workerVars, dest, bytes, fh, offset, overlap>>

\* The caller's task is cancelled while it awaits an answer or sleeps before the
\* next attempt; a request on its way may still be carried out.
Cancelled(c) ==
  /\ pc[c] \in {"health", "main"}
  /\ End(c, "cancelled") /\ CheckGivenUp(c)
  /\ inbox' \in {inbox, inbox \ {c}}
  /\ UNCHANGED <<given, compatChecked, row, passed, effect, fileVars>>

(***************************************************************************)
ClientStep(c) ==
  \/ _send_once(c) \/ Success(c) \/ BadJson(c) \/ Refused(c) \/ assert_compatible(c)
  \/ pc[c] # "write" /\ Failure(c)
  \/ open_part(c) \/ write_chunk(c) \/ os_replace(c) \/ WriteFails(c)

WorkerStep(c) ==
  \/ create_task(c) \/ submit_decision(c) \/ abort_task(c) \/ abort_task_write(c)
  \/ ServeGet(c) \/ Denied(c) \/ ServeFails(c)

Next ==
  \/ \E c \in Calls :
       _maybe_compat_check(c) \/ ClientStep(c) \/ Cancelled(c) \/ WorkerStep(c) \/ Lose(c)
  \/ \E k \in Keys : RowChanges(k)

Spec == Init /\ [][Next]_vars

(***************************************************************************)
(* Properties                                                              *)
(***************************************************************************)
Results == {"none", "ok", "exists", "server", "transport", "conflict", "notfound",
            "client", "incompatible", "oserror", "cancelled"}

CallTypeOK ==
  /\ pc \in [Calls -> {"idle", "health", "main", "write", "done"}]
  /\ attempt \in [Calls -> 0..MaxAttempts]
  /\ wire \in [Calls -> {"none", "sent", "ok", "version", "conflict", "notfound",
                         "server", "transport"}]
  /\ result \in [Calls -> Results]
  /\ \A c \in Calls : result[c] = "none" <=> pc[c] # "done"

WorkerTypeOK ==
  /\ program \in Programs
  /\ compatChecked \in BOOLEAN /\ unchecked \in BOOLEAN /\ compatible \in BOOLEAN
  /\ row \in [Keys -> {"none", "open", "closed"}]
  /\ inbox \subseteq Calls /\ passed \subseteq Calls /\ effect \subseteq Calls

FileTypeOK ==
  /\ dest \in [Files -> Downloads \cup {"old", Nobody}]
  /\ part \in [Files -> Downloads \cup {Nobody}]
  /\ bytes \in [Downloads -> Seq(Downloads \cup {Nobody})]
  /\ fh \in [Downloads -> Downloads \cup {Nobody}]
  /\ offset \in [Downloads -> 0..Chunks]
  /\ stuck \subseteq Files /\ overlap \in [Files -> BOOLEAN]

\* Every variable has its type; a call has a result exactly when it has ended.
SdkTypeOK == CallTypeOK /\ WorkerTypeOK /\ FileTypeOK

\* What a POST tells its caller is true of the worker, whatever was lost,
\* delayed, cancelled or submitted twice by the application: 2xx means that this
\* very request was carried out, and a 4xx that it was not and is not still on
\* its way, so that a conflict is never one with itself (_should_retry keeps
\* _request from sending a POST again); and of several answers to one decision
\* one caller at most is told that the worker took his (resolve_decision).
OutcomeHonest ==
  /\ \A c \in Calls : Op[c] \in Posts =>
       /\ result[c] = "ok" => c \in effect
       /\ result[c] \in {"conflict", "notfound"} => c \notin effect \cup inbox \cup passed
  /\ \A c, d \in Calls :
       /\ Op[c] = "submit_decision" /\ Op[d] = "submit_decision" /\ Target[c] = Target[d]
       /\ result[c] = "ok" /\ result[d] = "ok"
       => c = d

\* A transport error or a 5xx reaches the caller of a GET only when every
\* attempt of the policy was used, that of a POST after the only one; no
\* request is sent beyond them (_request, RetryPolicy).
RetriesSpent ==
  \A c \in Calls :
    /\ attempt[c] <= (IF Op[c] = "GET" \/ pc[c] # "main" THEN MaxAttempts ELSE 1)
    /\ Op[c] = "GET" /\ result[c] \in RetryOn => attempt[c] = MaxAttempts

\* A request reaches an incompatible worker only past a version check that is
\* still under way or did not get the version: an answer, also one that crosses other
\* calls and their checks, closes the gate (_maybe_compat_check).
CompatBypass ==
  ~compatible /\ compatChecked =>
    unchecked \/ \E c \in Calls : pc[c] = "health" /\ Op[c] # "assert_compatible"

\* The destination is the old file or an artifact that one download wrote from
\* beginning to end, also over what an earlier one left behind; and no .part
\* file outlives its downloads, through broken connections, failed opens and
\* writes and cancellations, but one that could not be unlinked; unless two
\* downloads wrote to the .part file at the same time (download_artifact_to).
FilesWhole ==
  \A f \in Files :
    /\ dest[f] \in Downloads /\ ~overlap[f] =>
         \E c \in Downloads : Target[c] = f /\ bytes[dest[f]] = [i \in 1..Chunks |-> c]
    /\ part[f] # Nobody /\ f \notin stuck =>
         \E c \in Downloads : Target[c] = f /\ pc[c] = "write"

(***************************************************************************)
(* Statements of the repository the code does not meet                     *)
(***************************************************************************)
\* client.py, _maybe_compat_check: a failed check must not make the SDK skip
\* the check for ever; docs/worker-sdk-usage.md: the version is checked before
\* the first request.  No request but the check's own goes to a worker that is
\* not compatible.
CompatGate == ~compatible => \A c \in Calls : pc[c] # "main"

\* client.py, download_artifact_to: no half-written file is left, also when two
\* downloads write to one destination.
OverlapWhole ==
  \A f \in Files :
    dest[f] \in Downloads => \A i \in 1..Chunks : i <= Len(bytes[dest[f]]) /\ bytes[dest[f]][i] # Nobody

\* client.py, download_artifact_to: with overwrite=False a file that is there is
\* not replaced.
NoClobber ==
  [][\A f \in Files :
       dest[f] # Nobody /\ dest'[f] # dest[f] =>
         \E c \in Overwrite : Target[c] = f /\ pc[c] = "write"]_vars

\* contract/decision.py: a repeated submission is ignored in silence.
RepeatIgnored ==
  \A c, d \in Calls :
    Op[c] = "submit_decision" /\ Op[d] = "submit_decision" /\ Target[c] = Target[d] =>
      ~(result[c] = "ok" /\ result[d] = "conflict")
==============================================================================
