-------------------------- MODULE SdkClientProofs --------------------------
(***************************************************************************)
(* Theorems about the SDK client, for every set of concurrent calls, every *)
(* retry policy and every size of an artifact.                             *)
(***************************************************************************)
EXTENDS SdkClient, TLAPS

\* An answer belongs to the loop that asked for it: the version to the check, a
\* body to the request proper; no request is under way outside the loops.
AnswersInPlace ==
  \A c \in Calls :
    /\ pc[c] \in {"idle", "done"} => wire[c] = "none"
    /\ wire[c] = "sent" => pc[c] \in {"health", "main"}
    /\ wire[c] = "version" => pc[c] = "health"
    /\ wire[c] = "ok" => pc[c] \in {"main", "write"}
    /\ wire[c] \in {"conflict", "notfound"} => pc[c] \in {"health", "main"}
    /\ pc[c] = "main" => Op[c] # "assert_compatible"
    /\ pc[c] = "write" => Op[c] = "download"

\* Attempts are counted: a request under way was the first or a later one, and
\* before the next is sent the policy has one left.
AttemptsLeft ==
  \A c \in Calls :
    /\ pc[c] \in {"health", "main"} /\ wire[c] # "none" => attempt[c] \in 1..policy(c)
    /\ pc[c] \in {"health", "main"} /\ wire[c] = "none" => attempt[c] < policy(c)

\* Where the request of a POST can be: nowhere before it is sent, with the worker
\* once, and after an answer nowhere again.
Pending(c) == c \in inbox \/ c \in passed

PostSent(c) ==
  /\ pc[c] \in {"idle", "health"} \/ (pc[c] = "main" /\ wire[c] = "none") =>
       c \notin effect /\ ~Pending(c)
  /\ Pending(c) => c \notin effect
  /\ ~(c \in inbox /\ c \in passed)
  /\ wire[c] = "ok" \/ result[c] = "ok" => c \in effect
  /\ {wire[c], result[c]} \cap {"conflict", "notfound"} # {} =>
       c \notin effect /\ ~Pending(c)

PostOnce ==
  \A c \in Calls : /\ c \in inbox => Op[c] \in Posts
                   /\ c \in passed => Op[c] = "abort_task"
                   /\ c \in effect => Op[c] \in Posts
                   /\ Op[c] \in Posts => PostSent(c)

\* The decision that an answer was taken for is settled, and took no other.
DecidedOnce ==
  \A c \in effect : Op[c] = "submit_decision" =>
    /\ row[Target[c]] = "closed"
    /\ \A d \in effect : Op[d] = "submit_decision" /\ Target[d] = Target[c] => d = c

\* Files stay with their destination and were created by a download that got as
\* far as its first write; the one at .part is not the destination, and unless
\* its unlink failed a download is writing it.
FilesInPlace ==
  /\ \A f \in Files :
       /\ dest[f] \in Downloads =>
            Target[dest[f]] = f /\ pc[dest[f]] \notin {"idle", "health", "main"}
       /\ part[f] # Nobody =>
            /\ Target[part[f]] = f /\ pc[part[f]] \notin {"idle", "health", "main"}
            /\ part[f] # dest[f]
            /\ f \in stuck \/ \E c \in Downloads : Target[c] = f /\ pc[c] = "write"
  /\ \A c \in Downloads :
       /\ fh[c] # Nobody => Target[fh[c]] = Target[c]
       /\ pc[c] \in {"idle", "health", "main"} => offset[c] = 0

\* The first n chunks of an artifact, as download c wrote them.
Written(c, n) == [i \in 1..n |-> c]

\* Download c is the only one to write to its .part file, which has what it wrote
\* so far and is not the destination; the name .part may have been unlinked.
Alone(c) ==
  /\ \A d \in Downloads : Target[d] = Target[c] /\ pc[d] = "write" => d = c
  /\ fh[c] \in Downloads /\ fh[c] # dest[Target[c]] /\ part[Target[c]] \in {fh[c], Nobody}
  /\ bytes[fh[c]] = Written(c, offset[c])

\* Some download of f wrote the whole of a file.
Whole(f, file) == \E c \in Downloads : Target[c] = f /\ bytes[file] = Written(c, Chunks)

OneWriter ==
  /\ \A c \in Downloads : pc[c] = "write" /\ ~overlap[Target[c]] => Alone(c)
  /\ \A f \in Files : dest[f] \in Downloads /\ ~overlap[f] => Whole(f, dest[f])

IInv ==
  /\ SdkTypeOK
  /\ AnswersInPlace
  /\ AttemptsLeft
  /\ RetriesSpent
  /\ PostOnce
  /\ DecidedOnce
  /\ CompatBypass
  /\ FilesInPlace
  /\ OneWriter

-----------------------------------------------------------------------------
\* A call ends, starts a loop, or sees its request answered.
LEMMA EndType ==
  ASSUME CallTypeOK, NEW c \in Calls, NEW r \in Results \ {"none"}, End(c, r)
  PROVE  CallTypeOK'
BY DEF CallTypeOK, End

LEMMA LoopType ==
  ASSUME CallTypeOK, NEW c \in Calls, NEW l \in {"health", "main"}, Loop(c, l),
         pc[c] # "done"
  PROVE  CallTypeOK'
BY ClientAssumption DEF CallTypeOK, Loop

LEMMA EnterMoves ==
  ASSUME NEW c \in Calls, Enter(c)
  PROVE  Loop(c, "main") \/ (End(c, "exists") /\ Op[c] = "download")
BY DEF Enter, Downloads

LEMMA AnswerType ==
  ASSUME CallTypeOK, NEW c \in Calls, UNCHANGED <<pc, attempt, result>>,
         NEW r \in {"none", "sent", "ok", "version", "conflict", "notfound", "server",
                    "transport"},
         wire' = wire \/ wire' = [wire EXCEPT ![c] = r]
  PROVE  CallTypeOK'
BY DEF CallTypeOK

\* What the worker does to the calls: at most an answer to one that waits.
Answered(c) ==
  /\ UNCHANGED <<pc, attempt, result>>
  /\ \/ wire' = wire
     \/ wire[c] = "sent" /\ \E r \in {"ok", "version", "conflict", "notfound", "server"} :
                              wire' = [wire EXCEPT ![c] = r]

LEMMA WorkerAnswers ==
  ASSUME NEW c \in Calls, WorkerStep(c)
  PROVE  Answered(c) /\ UNCHANGED <<given, compatChecked, unchecked, fileVars>>
<1>1. CASE create_task(c) \/ submit_decision(c)
  BY <1>1 DEF create_task, submit_decision, Reply, Answered
<1>2. CASE abort_task(c) \/ abort_task_write(c)
  BY <1>2 DEF abort_task, abort_task_write, Reply, Answered
<1>3. CASE ServeGet(c)
  BY <1>3 DEF ServeGet, Reply, Answered
<1>4. CASE Denied(c) \/ ServeFails(c)
  BY <1>4 DEF Denied, ServeFails, Reply, Answered
<1> QED  BY <1>1, <1>2, <1>3, <1>4 DEF WorkerStep

\* The file a download opens or writes.
LEMMA WriteAtType ==
  ASSUME NEW s \in Seq(Downloads \cup {Nobody}), NEW n \in Nat \ {0}, NEW c \in Downloads
  PROVE  WriteAt(s, n, c) \in Seq(Downloads \cup {Nobody})
<1> DEFINE m == IF n > Len(s) THEN n ELSE Len(s)
<1>1. m \in Nat
  OBVIOUS
<1>2. WriteAt(s, n, c) \in [1..m -> Downloads \cup {Nobody}]
  BY DEF WriteAt
<1> QED  BY <1>1, <1>2

\* The next chunk of a file written from its beginning.
LEMMA WriteAtEnd ==
  ASSUME NEW n \in Nat, NEW c
  PROVE  WriteAt(Written(c, n), n + 1, c) = Written(c, n + 1)
<1>1. Len(Written(c, n)) = n
  BY DEF Written
<1> QED  BY <1>1 DEF WriteAt, Written

\* Every step keeps the types of the calls: no attempt beyond the policy.
LEMMA CallTypeStep ==
  ASSUME CallTypeOK, AnswersInPlace, AttemptsLeft, [Next]_vars
  PROVE  CallTypeOK'
<1> USE ClientAssumption DEF vars, callVars
<1>1. ASSUME NEW c \in Calls, _maybe_compat_check(c)
      PROVE  CallTypeOK'
  <2>1. CASE Loop(c, "health") \/ Loop(c, "main")
    BY <1>1, <2>1, LoopType DEF _maybe_compat_check
  <2>2. CASE End(c, "exists")
    BY <2>2, EndType DEF Results
  <2> QED  BY <1>1, <2>1, <2>2, EnterMoves DEF _maybe_compat_check
<1>2. ASSUME NEW c \in Calls, _send_once(c)
      PROVE  CallTypeOK'
  <2>1. attempt[c] + 1 \in 0..MaxAttempts
    BY <1>2 DEF _send_once, AttemptsLeft, policy, CallTypeOK
  <2> QED  BY <1>2, <2>1 DEF _send_once, CallTypeOK
<1>3. ASSUME NEW c \in Calls, NEW r \in Results \ {"none"}, End(c, r)
      PROVE  CallTypeOK'
  BY <1>3, EndType
<1>4. ASSUME NEW c \in Calls, assert_compatible(c)
      PROVE  CallTypeOK'
  <2>1. pc[c] # "done"
    BY <1>4 DEF assert_compatible, AnswersInPlace
  <2>2. CASE Loop(c, "main")
    BY <2>1, <2>2, LoopType
  <2>3. CASE End(c, "exists") \/ End(c, "ok") \/ End(c, "incompatible")
    BY <2>3, EndType DEF Results
  <2> QED  BY <1>4, <2>2, <2>3, EnterMoves DEF assert_compatible
<1>5. ASSUME NEW c \in Calls, Failure(c)
      PROVE  CallTypeOK'
  <2>1. CASE Retryable(c, wire[c])
    BY <1>5, <2>1, AnswerType DEF Failure
  <2>2. CASE ~Retryable(c, wire[c])
    BY <1>5, <2>2, EndType DEF Failure, Results
  <2> QED  BY <2>1, <2>2
<1>6. ASSUME NEW c \in Calls, open_part(c)
      PROVE  CallTypeOK'
  BY <1>6 DEF open_part, CallTypeOK
<1>7. ASSUME NEW c \in Calls, Success(c) \/ BadJson(c) \/ Refused(c) \/ Cancelled(c)
                               \/ os_replace(c) \/ WriteFails(c)
      PROVE  CallTypeOK'
  <2>1. \E r \in Results \ {"none"} : End(c, r)
    BY <1>7 DEF Success, BadJson, Refused, Cancelled, os_replace, WriteFails, Results
  <2> QED  BY <1>3, <2>1
<1>8. ASSUME NEW c \in Calls, WorkerStep(c) \/ Lose(c)
      PROVE  CallTypeOK'
  BY <1>8, WorkerAnswers, AnswerType DEF Answered, Lose
<1>9. CASE \/ \E c \in Calls : write_chunk(c)
           \/ \E k \in Keys : RowChanges(k)
           \/ UNCHANGED vars
  BY <1>9 DEF write_chunk, RowChanges, CallTypeOK
<1> QED
  BY <1>1, <1>2, <1>4, <1>5, <1>6, <1>7, <1>8, <1>9 DEF Next, ClientStep

\* Every step keeps the types of the worker and of the flags.
LEMMA WorkerTypeStep ==
  ASSUME WorkerTypeOK, [Next]_vars
  PROVE  WorkerTypeOK'
<1> USE ClientAssumption DEF vars, given, workerVars, WorkerTypeOK
<1>1. ASSUME NEW c \in Calls, ClientStep(c) \/ _maybe_compat_check(c)
      PROVE  WorkerTypeOK'
  <2>1. CASE _maybe_compat_check(c) \/ assert_compatible(c)
    BY <2>1 DEF _maybe_compat_check, assert_compatible
  <2>2. CASE BadJson(c) \/ Failure(c) \/ Refused(c)
    BY <2>2 DEF BadJson, Failure, Refused, CheckGivenUp
  <2>3. CASE _send_once(c)
    BY <2>3 DEF _send_once
  <2>4. CASE Success(c) \/ open_part(c) \/ write_chunk(c) \/ os_replace(c) \/ WriteFails(c)
    BY <2>4 DEF Success, open_part, write_chunk, os_replace, WriteFails
  <2> QED  BY <1>1, <2>1, <2>2, <2>3, <2>4 DEF ClientStep
<1>2. ASSUME NEW c \in Calls, WorkerStep(c)
      PROVE  WorkerTypeOK'
  <2>1. UNCHANGED <<program, compatible, compatChecked, unchecked>>
    BY <1>2, WorkerAnswers
  <2>2. /\ \/ UNCHANGED <<row, effect>>
           \/ \E state \in {"none", "open", "closed"} : CarriedOut(c, state)
        /\ inbox' \in {inbox, inbox \ {c}}
        /\ passed' \in {passed, passed \ {c}, passed \cup {c}}
    <3>1. CASE create_task(c) \/ submit_decision(c)
      BY <3>1 DEF create_task, submit_decision
    <3>2. CASE abort_task(c) \/ abort_task_write(c)
      BY <3>2 DEF abort_task, abort_task_write
    <3>3. CASE ServeGet(c) \/ Denied(c)
      BY <3>3 DEF ServeGet, Denied
    <3>4. CASE ServeFails(c)
      BY <3>4 DEF ServeFails
    <3> QED  BY <1>2, <3>1, <3>2, <3>3, <3>4 DEF WorkerStep
  <2> QED  BY <2>1, <2>2 DEF CarriedOut
<1>3. ASSUME NEW c \in Calls, Lose(c) \/ Cancelled(c)
      PROVE  WorkerTypeOK'
  BY <1>3 DEF Lose, Cancelled, CheckGivenUp
<1>4. CASE (\E k \in Keys : RowChanges(k)) \/ UNCHANGED vars
  BY <1>4 DEF RowChanges
<1> QED  BY <1>1, <1>2, <1>3, <1>4 DEF Next

\* Every step keeps the types of the files.
LEMMA FileTypeStep ==
  ASSUME FileTypeOK, [Next]_vars
  PROVE  FileTypeOK'
<1> USE ClientAssumption DEF FileTypeOK
<1>1. CASE UNCHANGED fileVars
  BY <1>1 DEF fileVars
<1>2. ASSUME NEW c \in Calls, open_part(c)
      PROVE  FileTypeOK'
  <2> DEFINE file == IF part[Target[c]] = Nobody THEN c ELSE part[Target[c]]
  <2>1. c \in Downloads /\ Target[c] \in Files /\ file \in Downloads
    BY <1>2 DEF open_part, Files
  <2>2. /\ part' = [part EXCEPT ![Target[c]] = file]
        /\ bytes' = [bytes EXCEPT ![file] = <<>>]
        /\ fh' = [fh EXCEPT ![c] = file]
        /\ stuck' = stuck \ {Target[c]}
        /\ \E b \in BOOLEAN : overlap' = [overlap EXCEPT ![Target[c]] = b]
        /\ UNCHANGED <<dest, offset>>
    BY <1>2 DEF open_part
  <2> HIDE DEF file
  <2> QED  BY <2>1, <2>2
<1>3. ASSUME NEW c \in Calls, write_chunk(c)
      PROVE  FileTypeOK'
  <2>1. c \in Downloads /\ offset[c] + 1 \in 0..Chunks /\ offset[c] + 1 \in Nat \ {0}
    BY <1>3 DEF write_chunk
  <2>2. bytes' \in [Downloads -> Seq(Downloads \cup {Nobody})]
    BY <1>3, <2>1, WriteAtType DEF write_chunk
  <2> QED  BY <1>3, <2>1, <2>2 DEF write_chunk
<1>4. ASSUME NEW c \in Calls, os_replace(c)
      PROVE  FileTypeOK'
  <2>1. Target[c] \in Files
    BY <1>4 DEF os_replace, Files
  <2>2. dest' = dest \/ (part[Target[c]] # Nobody
                         /\ dest' = [dest EXCEPT ![Target[c]] = part[Target[c]]])
    BY <1>4 DEF os_replace
  <2>3. dest' \in [Files -> Downloads \cup {"old", Nobody}]
    BY <2>1, <2>2
  <2>4. part' \in [Files -> Downloads \cup {Nobody}]
    BY <1>4 DEF os_replace
  <2> QED  BY <1>4, <2>3, <2>4 DEF os_replace
<1>5. ASSUME NEW c \in Calls, WriteFails(c)
      PROVE  FileTypeOK'
  <2>1. Target[c] \in Files
    BY <1>5 DEF WriteFails, Files
  <2> QED  BY <1>5, <2>1 DEF WriteFails, unlink
<1> QED
  BY <1>1, <1>2, <1>3, <1>4, <1>5, WorkerAnswers DEF Next, ClientStep, vars,
     _maybe_compat_check, _send_once, Success, BadJson, Refused, assert_compatible,
     Failure, Cancelled, Lose, RowChanges

-----------------------------------------------------------------------------
\* An answer is for the loop that waits for it.
LEMMA AnswersStep ==
  ASSUME CallTypeOK, AnswersInPlace, PostOnce, [Next]_vars
  PROVE  AnswersInPlace'
<1> USE ClientAssumption DEF vars, callVars, CallTypeOK, AnswersInPlace
<1>1. ASSUME NEW c \in Calls, NEW r, End(c, r)
      PROVE  AnswersInPlace'
  BY <1>1 DEF End
<1>2. ASSUME NEW c \in Calls, NEW l \in {"health", "main"}, Loop(c, l),
             l = "main" => Op[c] # "assert_compatible"
      PROVE  AnswersInPlace'
  BY <1>2 DEF Loop
<1>3. ASSUME NEW c \in Calls, _maybe_compat_check(c)
      PROVE  AnswersInPlace'
  BY <1>1, <1>2, <1>3, EnterMoves DEF _maybe_compat_check
<1>4. ASSUME NEW c \in Calls, assert_compatible(c)
      PROVE  AnswersInPlace'
  BY <1>1, <1>2, <1>4, EnterMoves DEF assert_compatible
<1>5. ASSUME NEW c \in Calls, _send_once(c)
      PROVE  AnswersInPlace'
  BY <1>5 DEF _send_once
<1>6. ASSUME NEW c \in Calls, Failure(c)
      PROVE  AnswersInPlace'
  <2>1. CASE Retryable(c, wire[c])
    BY <1>6, <2>1 DEF Failure
  <2>2. CASE ~Retryable(c, wire[c])
    BY <1>1, <1>6, <2>2 DEF Failure
  <2> QED  BY <2>1, <2>2
<1>7. ASSUME NEW c \in Calls, open_part(c)
      PROVE  AnswersInPlace'
  BY <1>7 DEF open_part, Downloads
<1>8. ASSUME NEW c \in Calls, Success(c) \/ BadJson(c) \/ Refused(c) \/ Cancelled(c)
                               \/ os_replace(c) \/ WriteFails(c)
      PROVE  AnswersInPlace'
  BY <1>1, <1>8 DEF Success, BadJson, Refused, Cancelled, os_replace, WriteFails
<1>9. ASSUME NEW c \in Calls, WorkerStep(c)
      PROVE  AnswersInPlace'
  <2>1. Pending(c) /\ wire[c] = "sent" => pc[c] = "main"
    BY DEF PostOnce, PostSent, Pending, Posts
  <2>2. ASSUME NEW r \in {"ok", "version", "conflict", "notfound", "server"}, Reply(c, r),
               wire[c] = "sent" /\ r = "ok" => pc[c] = "main",
               wire[c] = "sent" /\ r = "version" => pc[c] = "health", UNCHANGED <<pc, attempt, result>>
        PROVE  AnswersInPlace'
    BY <2>2 DEF Reply
  <2>3. CASE create_task(c) \/ submit_decision(c) \/ abort_task_write(c)
    <3>1. UNCHANGED <<pc, attempt, result>> /\ Pending(c) /\ (Reply(c, "ok") \/ Reply(c, "conflict"))
      BY <2>3 DEF create_task, submit_decision, abort_task_write, Pending
    <3> QED  BY <2>1, <2>2, <3>1
  <2>4. CASE abort_task(c)
    BY <2>2, <2>4 DEF abort_task
  <2>5. CASE ServeGet(c)
    BY <2>2, <2>5 DEF ServeGet
  <2>6. CASE Denied(c) \/ ServeFails(c)
    BY <2>2, <2>6 DEF Denied, ServeFails
  <2> QED  BY <1>9, <2>3, <2>4, <2>5, <2>6 DEF WorkerStep
<1>10. ASSUME NEW c \in Calls, Lose(c)
      PROVE  AnswersInPlace'
  BY <1>10 DEF Lose
<1>11. CASE \/ \E c \in Calls : write_chunk(c)
            \/ \E k \in Keys : RowChanges(k)
            \/ UNCHANGED vars
  BY <1>11 DEF write_chunk, RowChanges
<1> QED
  BY <1>3, <1>4, <1>5, <1>6, <1>7, <1>8, <1>9, <1>10, <1>11
     DEF Next, ClientStep

\* The attempts of a loop are counted, and an error of the last one is raised.
LEMMA AttemptsStep ==
  ASSUME CallTypeOK, AnswersInPlace, AttemptsLeft, RetriesSpent, [Next]_vars
  PROVE  AttemptsLeft' /\ RetriesSpent'
<1> USE ClientAssumption DEF vars, callVars, CallTypeOK, AttemptsLeft, RetriesSpent,
      policy, _should_retry
<1>1. ASSUME NEW c \in Calls, NEW r, End(c, r),
             r \in RetryOn /\ Op[c] = "GET" => attempt[c] = MaxAttempts
      PROVE  AttemptsLeft' /\ RetriesSpent'
  BY <1>1 DEF End
<1>2. ASSUME NEW c \in Calls, NEW l \in {"health", "main"}, Loop(c, l), pc[c] # "done"
      PROVE  AttemptsLeft' /\ RetriesSpent'
  BY <1>2 DEF Loop
<1>3. ASSUME NEW c \in Calls, _maybe_compat_check(c)
      PROVE  AttemptsLeft' /\ RetriesSpent'
  BY <1>1, <1>2, <1>3, EnterMoves DEF _maybe_compat_check
<1>4. ASSUME NEW c \in Calls, assert_compatible(c)
      PROVE  AttemptsLeft' /\ RetriesSpent'
  <2>1. pc[c] # "done"
    BY <1>4 DEF assert_compatible, AnswersInPlace
  <2> QED  BY <1>1, <1>2, <1>4, <2>1, EnterMoves DEF assert_compatible
<1>5. ASSUME NEW c \in Calls, _send_once(c)
      PROVE  AttemptsLeft' /\ RetriesSpent'
  BY <1>5 DEF _send_once
<1>6. ASSUME NEW c \in Calls, pc[c] # "write", Failure(c)
      PROVE  AttemptsLeft' /\ RetriesSpent'
  <2>1. CASE Retryable(c, wire[c])
    BY <1>6, <2>1 DEF Failure, Retryable
  <2>2. CASE ~Retryable(c, wire[c])
    <3>1. pc[c] \in {"health", "main"} /\ wire[c] # "none"
      BY <1>6 DEF Failure, AnswersInPlace
    <3>2. wire[c] \in RetryOn /\ Op[c] = "GET" => attempt[c] = MaxAttempts
      BY <2>2, <3>1 DEF Retryable
    <3> QED  BY <1>1, <1>6, <2>2, <3>2 DEF Failure
  <2> QED  BY <2>1, <2>2
<1>7. ASSUME NEW c \in Calls, open_part(c)
      PROVE  AttemptsLeft' /\ RetriesSpent'
  BY <1>7 DEF open_part
<1>8. ASSUME NEW c \in Calls, Success(c) \/ BadJson(c) \/ Refused(c) \/ Cancelled(c)
                               \/ os_replace(c)
      PROVE  AttemptsLeft' /\ RetriesSpent'
  BY <1>1, <1>8 DEF Success, BadJson, Refused, Cancelled, os_replace
<1>9. ASSUME NEW c \in Calls, WriteFails(c)
      PROVE  AttemptsLeft' /\ RetriesSpent'
  BY <1>1, <1>9 DEF WriteFails, Downloads
<1>10. ASSUME NEW c \in Calls, WorkerStep(c) \/ Lose(c)
      PROVE  AttemptsLeft' /\ RetriesSpent'
  <2>1. UNCHANGED <<pc, attempt, result>>
    BY <1>10, WorkerAnswers DEF Answered, Lose
  <2>2. \A d \in Calls : wire'[d] = "none" <=> wire[d] = "none"
    BY <1>10, WorkerAnswers DEF Answered, Lose
  <2> QED  BY <2>1, <2>2
<1>11. CASE \/ \E c \in Calls : write_chunk(c)
            \/ \E k \in Keys : RowChanges(k)
            \/ UNCHANGED vars
  BY <1>11 DEF write_chunk, RowChanges
<1> QED
  BY <1>3, <1>4, <1>5, <1>6, <1>7, <1>8, <1>9, <1>10, <1>11
     DEF Next, ClientStep

\* The worker learns of a POST once, and tells its sender what became of it.
LEMMA PostStep ==
  ASSUME SdkTypeOK, AnswersInPlace, AttemptsLeft, PostOnce, [Next]_vars
  PROVE  PostOnce'
<1> USE ClientAssumption DEF vars, callVars, workerVars, SdkTypeOK, CallTypeOK,
      WorkerTypeOK, Keys, Downloads, Posts
<1> DEFINE Post(c) == /\ c \in inbox => Op[c] \in Posts
                      /\ c \in passed => Op[c] = "abort_task"
                      /\ c \in effect => Op[c] \in Posts
                      /\ Op[c] \in Posts => PostSent(c)
<1> SUFFICES ASSUME NEW d \in Calls
             PROVE  Post(d)'
  BY DEF PostOnce
<1>0. Post(d)
  BY DEF PostOnce
<1> USE DEF AnswersInPlace, PostSent, Pending
<1>1. ASSUME NEW c \in Calls, _maybe_compat_check(c)
      PROVE  Post(d)'
  BY <1>0, <1>1, EnterMoves DEF _maybe_compat_check, End, Loop
<1>2. ASSUME NEW c \in Calls, assert_compatible(c)
      PROVE  Post(d)'
  BY <1>0, <1>2, EnterMoves DEF assert_compatible, End, Loop
<1>3. ASSUME NEW c \in Calls, _send_once(c)
      PROVE  Post(d)'
  BY <1>0, <1>3 DEF _send_once
<1>4. ASSUME NEW c \in Calls, pc[c] # "write", Failure(c)
      PROVE  Post(d)'
  <2>1. CASE Retryable(c, wire[c])
    <3>1. pc[c] = "main" => Op[c] \notin Posts
      BY <1>4, <2>1 DEF Failure, Retryable, AttemptsLeft, policy, _should_retry
    <3> QED  BY <1>0, <1>4, <2>1, <3>1 DEF Failure
  <2>2. CASE ~Retryable(c, wire[c])
    BY <1>0, <1>4, <2>2 DEF Failure, End
  <2> QED  BY <2>1, <2>2
<1>5. ASSUME NEW c \in Calls, Success(c) \/ BadJson(c) \/ Refused(c)
      PROVE  Post(d)'
  BY <1>0, <1>5 DEF Success, BadJson, Refused, End
<1>6. ASSUME NEW c \in Calls, open_part(c) \/ write_chunk(c)
      PROVE  Post(d)'
  BY <1>0, <1>6 DEF open_part, write_chunk
<1>7. ASSUME NEW c \in Calls, os_replace(c) \/ WriteFails(c)
      PROVE  Post(d)'
  BY <1>0, <1>7 DEF os_replace, WriteFails, End
<1>8. ASSUME NEW c \in Calls, Cancelled(c) \/ Lose(c)
      PROVE  Post(d)'
  BY <1>0, <1>8 DEF Cancelled, Lose, End
<1>9. ASSUME NEW c \in Calls, create_task(c) \/ submit_decision(c)
      PROVE  Post(d)'
  BY <1>0, <1>9 DEF create_task, submit_decision, Reply, CarriedOut
<1>10. ASSUME NEW c \in Calls, abort_task(c) \/ abort_task_write(c)
      PROVE  Post(d)'
  BY <1>0, <1>10 DEF abort_task, abort_task_write, Reply, CarriedOut, PostOnce
<1>11. ASSUME NEW c \in Calls, ServeGet(c) \/ Denied(c)
      PROVE  Post(d)'
  BY <1>0, <1>11 DEF ServeGet, Denied, Unread, Reply
<1>12. ASSUME NEW c \in Calls, ServeFails(c)
      PROVE  Post(d)'
  BY <1>0, <1>12 DEF ServeFails, Unread, Reply, CarriedOut
<1>13. ASSUME NEW k \in Keys, RowChanges(k)
      PROVE  Post(d)'
  BY <1>0, <1>13 DEF RowChanges
<1>14. CASE UNCHANGED vars
  BY <1>0, <1>14
<1> QED
  BY <1>1, <1>2, <1>3, <1>4, <1>5, <1>6, <1>7, <1>8, <1>9, <1>10, <1>11, <1>12, <1>13,
     <1>14
     DEF Next, ClientStep, WorkerStep

\* resolve_decision takes one answer.
LEMMA DecidedStep ==
  ASSUME SdkTypeOK, PostOnce, DecidedOnce, [Next]_vars
  PROVE  DecidedOnce'
<1> USE DEF DecidedOnce
<1>0. /\ effect \subseteq Calls /\ row \in [Keys -> {"none", "open", "closed"}]
      /\ \A c \in Calls : Op[c] = "submit_decision" => Target[c] \in Decisions /\ Target[c] \in Keys
      /\ \A c \in Calls : Op[c] \in {"create_task", "abort_task"} =>
           Target[c] \notin Decisions
  BY ClientAssumption DEF SdkTypeOK, WorkerTypeOK, Decisions, Keys, Downloads, Posts
<1>1. CASE UNCHANGED <<row, effect>>
  BY <1>1
<1>2. ASSUME NEW c \in Calls, NEW state, CarriedOut(c, state),
             \/ Op[c] \in {"create_task", "abort_task"}
             \/ Op[c] = "submit_decision" /\ row[Target[c]] = "open" /\ state = "closed"
      PROVE  DecidedOnce'
  BY <1>0, <1>2 DEF CarriedOut
<1>3. ASSUME NEW c \in Calls, WorkerStep(c)
      PROVE  DecidedOnce'
  <2>1. c \in passed => Op[c] = "abort_task"
    BY DEF PostOnce
  <2>2. CASE create_task(c) \/ submit_decision(c)
    BY <1>1, <1>2, <2>2 DEF create_task, submit_decision
  <2>3. CASE abort_task(c) \/ abort_task_write(c)
    BY <1>1, <1>2, <2>1, <2>3 DEF abort_task, abort_task_write
  <2>4. CASE ServeGet(c) \/ Denied(c)
    BY <1>1, <2>4 DEF ServeGet, Denied, workerVars
  <2>5. CASE ServeFails(c)
    BY <1>1, <1>2, <2>1, <2>5 DEF ServeFails
  <2> QED  BY <1>3, <2>2, <2>3, <2>4, <2>5 DEF WorkerStep
<1>4. ASSUME NEW k \in Keys, RowChanges(k)
      PROVE  DecidedOnce'
  BY <1>0, <1>4 DEF RowChanges
<1>5. ASSUME NEW c \in Calls, _maybe_compat_check(c) \/ ClientStep(c) \/ Cancelled(c) \/ Lose(c)
      PROVE  UNCHANGED <<row, effect>>
  BY <1>5 DEF _maybe_compat_check, ClientStep, Cancelled, Lose, _send_once, Success, BadJson,
     Refused, assert_compatible, Failure, open_part, write_chunk, os_replace, WriteFails,
     workerVars
<1> QED  BY <1>1, <1>3, <1>4, <1>5 DEF Next, vars, workerVars

\* A version check that fails to close the gate is remembered.
LEMMA CompatStep ==
  ASSUME SdkTypeOK, AnswersInPlace, CompatBypass, [Next]_vars
  PROVE  CompatBypass'
<1> USE DEF vars, callVars, given, SdkTypeOK, CallTypeOK, WorkerTypeOK, CompatBypass
<1>1. ASSUME NEW c \in Calls, _maybe_compat_check(c)
      PROVE  CompatBypass'
  <2>1. pc[c] = "idle" /\ UNCHANGED <<unchecked, compatible>>
    BY <1>1 DEF _maybe_compat_check
  <2>2. \A e \in Calls \ {c} : pc'[e] = pc[e]
    BY <1>1, EnterMoves DEF _maybe_compat_check, End, Loop
  <2>3. \/ compatChecked' = compatChecked
        \/ pc'[c] = "health" /\ Op[c] # "assert_compatible"
    BY <1>1 DEF _maybe_compat_check, Loop
  <2> QED  BY <2>1, <2>2, <2>3
<1>2. ASSUME NEW c \in Calls, assert_compatible(c)
      PROVE  CompatBypass'
  <2>1. CASE compatible
    BY <1>2, <2>1 DEF assert_compatible
  <2>2. CASE ~compatible
    <3>1. /\ pc' = [pc EXCEPT ![c] = "done"]
          /\ compatChecked' = (compatChecked /\ Op[c] = "assert_compatible")
          /\ UNCHANGED <<unchecked, compatible>>
      BY <1>2, <2>2 DEF assert_compatible, End
    <3> QED  BY <3>1
  <2> QED  BY <2>1, <2>2
<1>3. ASSUME NEW c \in Calls, NEW r, End(c, r), CheckGivenUp(c),
             UNCHANGED <<compatChecked, compatible>>
      PROVE  CompatBypass'
  BY <1>3 DEF End, CheckGivenUp
<1>4. ASSUME NEW c \in Calls, BadJson(c) \/ Refused(c) \/ Cancelled(c) \/ Failure(c)
      PROVE  CompatBypass'
  BY <1>3, <1>4 DEF BadJson, Refused, Cancelled, Failure
<1>5. ASSUME NEW c \in Calls, Success(c) \/ open_part(c) \/ os_replace(c) \/ WriteFails(c)
      PROVE  CompatBypass'
  <2>1. pc[c] # "health"
    BY <1>5 DEF AnswersInPlace, Success, open_part, os_replace, WriteFails
  <2>2. \A d \in Calls \ {c} : pc'[d] = pc[d]
    BY <1>5 DEF Success, open_part, os_replace, WriteFails, End
  <2>3. UNCHANGED <<compatChecked, unchecked, compatible>>
    BY <1>5 DEF Success, open_part, os_replace, WriteFails
  <2> QED  BY <2>1, <2>2, <2>3
<1>6. CASE UNCHANGED <<compatChecked, unchecked, compatible, pc>>
  BY <1>6
<1> QED
  BY <1>1, <1>2, <1>4, <1>5, <1>6, WorkerAnswers DEF Next, ClientStep, Answered, _send_once,
     write_chunk, Lose, RowChanges

-----------------------------------------------------------------------------
\* Only these steps touch the files or move a download to or from the writing.
LEMMA FileSteps ==
  ASSUME CallTypeOK, AnswersInPlace, [Next]_vars
  PROVE  \/ \E c \in Downloads : open_part(c) \/ write_chunk(c) \/ os_replace(c) \/ WriteFails(c)
         \/ /\ UNCHANGED fileVars
            /\ \A c \in Downloads :
                 /\ pc'[c] = "write" <=> pc[c] = "write"
                 /\ pc[c] = "done" => pc'[c] = "done"
                 /\ pc'[c] \in {"idle", "health", "main"} =>
                      pc[c] \in {"idle", "health", "main"}
<1> USE DEF CallTypeOK, AnswersInPlace, Downloads
<1> DEFINE Quiet ==
      /\ UNCHANGED fileVars
      /\ \A c \in Downloads :
           /\ pc'[c] = "write" <=> pc[c] = "write"
           /\ pc[c] = "done" => pc'[c] = "done"
           /\ pc'[c] \in {"idle", "health", "main"} => pc[c] \in {"idle", "health", "main"}
<1>1. ASSUME NEW c \in Calls, _maybe_compat_check(c)
      PROVE  Quiet
  BY <1>1, EnterMoves DEF _maybe_compat_check, End, Loop
<1>2. ASSUME NEW c \in Calls, assert_compatible(c)
      PROVE  Quiet
  BY <1>2, EnterMoves DEF assert_compatible, End, Loop
<1>3. ASSUME NEW c \in Calls, pc[c] # "write", Failure(c)
      PROVE  Quiet
  BY <1>3 DEF Failure, End
<1>4. ASSUME NEW c \in Calls, Success(c) \/ BadJson(c) \/ Refused(c) \/ Cancelled(c)
      PROVE  Quiet
  BY <1>4 DEF Success, BadJson, Refused, Cancelled, End
<1>5. ASSUME NEW c \in Calls, _send_once(c) \/ WorkerStep(c) \/ Lose(c)
      PROVE  Quiet
  BY <1>5, WorkerAnswers DEF _send_once, Answered, Lose
<1>6. ASSUME NEW k \in Keys, RowChanges(k)
      PROVE  Quiet
  BY <1>6 DEF RowChanges, callVars
<1>7. CASE UNCHANGED vars
  BY <1>7 DEF vars, callVars
<1>8. ASSUME NEW c \in Calls, open_part(c) \/ write_chunk(c) \/ os_replace(c) \/ WriteFails(c)
      PROVE  c \in Downloads
  BY <1>8 DEF open_part, write_chunk, os_replace, WriteFails
<1> QED
  BY <1>1, <1>2, <1>3, <1>4, <1>5, <1>6, <1>7, <1>8 DEF Next, ClientStep

\* What open_part does, in terms of the file it opens.
Opens(c, file) ==
  /\ file = IF part[Target[c]] = Nobody THEN c ELSE part[Target[c]]
  /\ pc[c] = "main" /\ pc' = [pc EXCEPT ![c] = "write"]
  /\ part' = [part EXCEPT ![Target[c]] = file]
  /\ bytes' = [bytes EXCEPT ![file] = <<>>]
  /\ fh' = [fh EXCEPT ![c] = file]
  /\ stuck' = stuck \ {Target[c]}
  /\ UNCHANGED <<dest, offset>>

LEMMA OpenPart ==
  ASSUME CallTypeOK, FileTypeOK, FilesInPlace, NEW c \in Downloads, open_part(c)
  PROVE  /\ \E file \in Downloads :
              Opens(c, file) /\ Target[file] = Target[c] /\ file # dest[Target[c]]
         /\ \A f \in Files : ~overlap'[f] => ~overlap[f]
         /\ ~overlap'[Target[c]] => \A d \in Downloads : Target[d] = Target[c] => pc[d] # "write"
<1> DEFINE file == IF part[Target[c]] = Nobody THEN c ELSE part[Target[c]]
<1>0. Target[c] \in Files
  BY DEF Files
<1>1. file \in Downloads
  BY <1>0 DEF FileTypeOK
<1>2. Target[file] = Target[c] /\ file # dest[Target[c]]
  BY <1>0, <1>1 DEF FilesInPlace, open_part
<1>3. Opens(c, file)
  BY DEF open_part, Opens
<1>4. overlap' = [overlap EXCEPT ![Target[c]] =
                    @ \/ \E d \in Downloads : Target[d] = Target[c] /\ pc[d] = "write"]
  BY DEF open_part
<1>5. overlap'[Target[c]] =
        (overlap[Target[c]] \/ \E d \in Downloads : Target[d] = Target[c] /\ pc[d] = "write")
  BY <1>0, <1>4 DEF FileTypeOK
<1>6. \A f \in Files : f # Target[c] => overlap'[f] = overlap[f]
  BY <1>0, <1>4 DEF FileTypeOK
<1> HIDE DEF file
<1> QED  BY <1>1, <1>2, <1>3, <1>5, <1>6

\* How a download ends that was writing or could not open the .part file.
Ends(c) ==
  /\ pc[c] \in {"main", "write"} /\ pc' = [pc EXCEPT ![c] = "done"]
  /\ UNCHANGED <<bytes, fh, offset, overlap>>
  /\ \/ part' = [part EXCEPT ![Target[c]] = Nobody] /\ stuck' = stuck \ {Target[c]}
     \/ UNCHANGED part /\ stuck' = stuck \cup {Target[c]}
  /\ \/ dest' = dest
     \/ /\ part' = [part EXCEPT ![Target[c]] = Nobody]
        /\ pc[c] = "write" /\ offset[c] = Chunks /\ part[Target[c]] # Nobody
        /\ dest' = [dest EXCEPT ![Target[c]] = part[Target[c]]]

LEMMA WriteEnds ==
  ASSUME NEW c \in Downloads, os_replace(c) \/ WriteFails(c)
  PROVE  Ends(c)
<1>1. CASE os_replace(c)
  BY <1>1 DEF os_replace, End, Ends
<1>2. CASE WriteFails(c)
  BY <1>2 DEF WriteFails, unlink, End, Ends
<1> QED  BY <1>1, <1>2

\* Files do not move between destinations, and the writers of a .part file see
\* to it in the end.
LEMMA PlacesStep ==
  ASSUME CallTypeOK, FileTypeOK, AnswersInPlace, FilesInPlace, [Next]_vars
  PROVE  FilesInPlace'
<1>0. /\ Downloads \subseteq Calls /\ Nobody \notin Downloads
      /\ \A d \in Downloads : Target[d] \in Files
  BY ClientAssumption DEF Downloads, Files
<1> USE <1>0
<1>t. /\ DOMAIN pc = Calls /\ DOMAIN part = Files /\ DOMAIN fh = Downloads /\ DOMAIN dest = Files
      /\ \A f \in Files : part[f] \in Downloads \cup {Nobody}
  BY DEF CallTypeOK, FileTypeOK
<1>1. CASE /\ UNCHANGED fileVars
           /\ \A c \in Downloads :
                /\ pc'[c] = "write" <=> pc[c] = "write"
                /\ pc[c] = "done" => pc'[c] = "done"
                /\ pc'[c] \in {"idle", "health", "main"} =>
                     pc[c] \in {"idle", "health", "main"}
  BY <1>1, <1>t DEF FilesInPlace, fileVars
<1>2. ASSUME NEW c \in Downloads, open_part(c)
      PROVE  FilesInPlace'
  <2>1. PICK file \in Downloads :
           Opens(c, file) /\ Target[file] = Target[c] /\ file # dest[Target[c]]
    BY <1>2, OpenPart
  <2>2. \A d \in Downloads : pc'[d] = IF d = c THEN "write" ELSE pc[d]
    BY <1>t, <2>1 DEF Opens
  <2>3. ASSUME NEW f \in Files, dest'[f] \in Downloads
        PROVE  Target[dest'[f]] = f /\ pc'[dest'[f]] \notin {"idle", "health", "main"}
    BY <2>1, <2>2, <2>3 DEF FilesInPlace, Opens
  <2>4. ASSUME NEW f \in Files, part'[f] # Nobody
        PROVE  /\ Target[part'[f]] = f /\ pc'[part'[f]] \notin {"idle", "health", "main"}
               /\ part'[f] # dest'[f]
               /\ f \in stuck' \/ \E d \in Downloads : Target[d] = f /\ pc'[d] = "write"
    <3>1. CASE f = Target[c]
      <4>1. part'[f] = file /\ dest'[f] = dest[f]
        BY <1>t, <2>1, <3>1 DEF Opens
      <4>2. pc'[file] \notin {"idle", "health", "main"}
        BY <1>t, <2>1, <2>2 DEF FilesInPlace, Opens
      <4> QED  BY <2>1, <2>2, <3>1, <4>1, <4>2
    <3>2. CASE f # Target[c]
      <4>1. part'[f] = part[f] /\ dest'[f] = dest[f] /\ (f \in stuck => f \in stuck')
        BY <1>t, <2>1, <3>2 DEF Opens
      <4> QED  BY <1>t, <2>2, <2>4, <4>1 DEF FilesInPlace
    <3> QED  BY <3>1, <3>2
  <2>5. \A d \in Downloads :
          /\ fh'[d] # Nobody => Target[fh'[d]] = Target[d]
          /\ pc'[d] \in {"idle", "health", "main"} => offset'[d] = 0
    BY <1>t, <2>1, <2>2 DEF FilesInPlace, Opens
  <2> QED  BY <2>3, <2>4, <2>5 DEF FilesInPlace
<1>3. ASSUME NEW c \in Downloads, write_chunk(c)
      PROVE  FilesInPlace'
  <2>1. /\ UNCHANGED <<pc, dest, part, fh, stuck>> /\ pc[c] = "write"
        /\ offset' = [offset EXCEPT ![c] = @ + 1]
    BY <1>3 DEF write_chunk, callVars
  <2> QED  BY <1>0, <2>1 DEF FilesInPlace, FileTypeOK
<1>4. ASSUME NEW c \in Downloads, os_replace(c) \/ WriteFails(c)
      PROVE  FilesInPlace'
  <2>1. Ends(c)
    BY <1>4, WriteEnds
  <2>2. \A d \in Downloads : pc'[d] = IF d = c THEN "done" ELSE pc[d]
    BY <1>t, <2>1 DEF Ends
  <2>3. ASSUME NEW f \in Files, dest'[f] \in Downloads
        PROVE  Target[dest'[f]] = f /\ pc'[dest'[f]] \notin {"idle", "health", "main"}
    <3>1. CASE dest'[f] = dest[f]
      BY <2>2, <2>3, <3>1 DEF FilesInPlace
    <3>2. CASE dest'[f] # dest[f]
      <4>1. dest'[f] = part[f] /\ part[f] # Nobody
        BY <1>t, <2>1, <3>2 DEF Ends
      <4> QED  BY <1>t, <2>2, <4>1 DEF FilesInPlace
    <3> QED  BY <3>1, <3>2
  <2>4. ASSUME NEW f \in Files, part'[f] # Nobody
        PROVE  /\ Target[part'[f]] = f /\ pc'[part'[f]] \notin {"idle", "health", "main"}
               /\ part'[f] # dest'[f]
               /\ f \in stuck' \/ \E d \in Downloads : Target[d] = f /\ pc'[d] = "write"
    <3>1. part'[f] = part[f] /\ dest'[f] = dest[f]
      BY <1>t, <2>1, <2>4 DEF Ends
    <3>2. f = Target[c] => f \in stuck'
      BY <1>t, <2>1, <2>4 DEF Ends
    <3>3. f # Target[c] /\ f \in stuck => f \in stuck'
      BY <2>1 DEF Ends
    <3> QED  BY <1>t, <2>2, <2>4, <3>1, <3>2, <3>3 DEF FilesInPlace
  <2>5. \A d \in Downloads :
          /\ fh'[d] # Nobody => Target[fh'[d]] = Target[d]
          /\ pc'[d] \in {"idle", "health", "main"} => offset'[d] = 0
    BY <2>1, <2>2 DEF FilesInPlace, Ends
  <2> QED  BY <2>3, <2>4, <2>5 DEF FilesInPlace
<1> QED  BY <1>1, <1>2, <1>3, <1>4, FileSteps

\* A .part file with one writer becomes a whole artifact.
LEMMA WriterStep ==
  ASSUME CallTypeOK, FileTypeOK, AnswersInPlace, FilesInPlace, OneWriter, [Next]_vars
  PROVE  OneWriter'
<1>0. /\ Downloads \subseteq Calls /\ Nobody \notin Downloads
      /\ \A d \in Downloads : Target[d] \in Files
  BY ClientAssumption DEF Downloads, Files
<1> USE <1>0
<1>t. /\ DOMAIN pc = Calls /\ DOMAIN part = Files /\ DOMAIN fh = Downloads /\ DOMAIN dest = Files
      /\ DOMAIN bytes = Downloads /\ DOMAIN offset = Downloads
      /\ \A f \in Files : part[f] \in Downloads \cup {Nobody}
  BY DEF CallTypeOK, FileTypeOK
<1>a. \A d \in Downloads : pc[d] = "write" /\ ~overlap[Target[d]] => Alone(d)
  BY DEF OneWriter
<1>d. \A f \in Files : dest[f] \in Downloads /\ ~overlap[f] => Whole(f, dest[f])
  BY DEF OneWriter
<1>i. \A f \in Files : dest[f] \in Downloads => Target[dest[f]] = f
  BY DEF FilesInPlace
<1>h. \A d \in Downloads : fh[d] # Nobody => Target[fh[d]] = Target[d]
  BY DEF FilesInPlace
<1>1. CASE /\ UNCHANGED fileVars
           /\ \A c \in Downloads :
                /\ pc'[c] = "write" <=> pc[c] = "write"
                /\ pc[c] = "done" => pc'[c] = "done"
                /\ pc'[c] \in {"idle", "health", "main"} =>
                     pc[c] \in {"idle", "health", "main"}
  <2>1. \A c \in Downloads : Alone(c) => Alone(c)'
    BY <1>1 DEF Alone, fileVars
  <2>2. \A f \in Files : Whole(f, dest[f]) => Whole(f, dest[f])'
    BY <1>1 DEF Whole, fileVars
  <2> QED  BY <1>1, <1>a, <1>d, <2>1, <2>2 DEF OneWriter, fileVars
<1>2. ASSUME NEW c \in Downloads, open_part(c)
      PROVE  OneWriter'
  <2>1. PICK file \in Downloads :
           Opens(c, file) /\ Target[file] = Target[c] /\ file # dest[Target[c]]
    BY <1>2, OpenPart
  <2>2. /\ \A f \in Files : ~overlap'[f] => ~overlap[f]
        /\ ~overlap'[Target[c]] => \A d \in Downloads : Target[d] = Target[c] => pc[d] # "write"
    BY <1>2, OpenPart
  <2>3. /\ \A d \in Downloads : pc'[d] = IF d = c THEN "write" ELSE pc[d]
        /\ \A d \in Downloads : fh'[d] = IF d = c THEN file ELSE fh[d]
        /\ \A d \in Downloads : bytes'[d] = IF d = file THEN <<>> ELSE bytes[d]
        /\ \A f \in Files : part'[f] = IF f = Target[c] THEN file ELSE part[f]
        /\ UNCHANGED <<dest, offset>>
    BY <1>t, <2>1 DEF Opens
  <2>4. ASSUME NEW d \in Downloads, pc'[d] = "write", ~overlap'[Target[d]]
        PROVE  Alone(d)'
    <3>1. CASE d = c
      <4>1. offset'[c] = 0
        BY <2>1 DEF FilesInPlace, Opens
      <4>2. bytes'[fh'[d]] = Written(d, offset'[d])
        BY <2>3, <3>1, <4>1 DEF Written
      <4> QED  BY <2>1, <2>2, <2>3, <2>4, <3>1, <4>2 DEF Alone
    <3>2. CASE d # c
      <4>1. pc[d] = "write" /\ ~overlap[Target[d]] /\ Target[d] # Target[c]
        BY <2>2, <2>3, <2>4, <3>2
      <4>2. Alone(d)
        BY <1>a, <4>1
      <4>3. fh[d] # file
        BY <1>h, <2>1, <4>1, <4>2 DEF Alone
      <4>4. bytes'[fh[d]] = bytes[fh[d]] /\ fh[d] \in Downloads
        BY <2>3, <4>2, <4>3 DEF Alone
      <4> QED  BY <2>3, <3>2, <4>1, <4>2, <4>4 DEF Alone
    <3> QED  BY <3>1, <3>2
  <2>5. ASSUME NEW f \in Files, dest'[f] \in Downloads, ~overlap'[f]
        PROVE  Whole(f, dest[f])'
    <3>1. dest[f] # file /\ dest'[f] = dest[f]
      BY <1>i, <2>1, <2>3, <2>5
    <3>2. bytes'[dest[f]] = bytes[dest[f]]
      BY <2>3, <2>5, <3>1
    <3>3. Whole(f, dest[f])
      BY <1>d, <2>2, <2>5, <3>1
    <3> QED  BY <3>1, <3>2, <3>3 DEF Whole
  <2> QED  BY <2>4, <2>5 DEF OneWriter
<1>3. ASSUME NEW c \in Downloads, write_chunk(c)
      PROVE  OneWriter'
  <2>1. /\ UNCHANGED <<pc, dest, part, fh, overlap>> /\ pc[c] = "write"
        /\ bytes' = [bytes EXCEPT ![fh[c]] = WriteAt(@, offset[c] + 1, c)]
        /\ offset' = [offset EXCEPT ![c] = @ + 1]
    BY <1>3 DEF write_chunk, callVars
  <2>2. ASSUME NEW d \in Downloads, pc[d] = "write", ~overlap[Target[d]]
        PROVE  Alone(d)'
    <3>1. Alone(d)
      BY <1>a, <2>2
    <3>2. bytes'[fh[d]] = Written(d, offset'[d])
      <4>1. CASE d = c
        <5>1. offset[c] \in Nat /\ offset'[c] = offset[c] + 1
          BY <2>1 DEF FileTypeOK
        <5>2. fh[c] \in Downloads /\ bytes[fh[c]] = Written(c, offset[c])
          BY <3>1, <4>1 DEF Alone
        <5>3. bytes'[fh[c]] = WriteAt(bytes[fh[c]], offset[c] + 1, c)
          BY <1>t, <2>1, <5>2
        <5> QED  BY <4>1, <5>1, <5>2, <5>3, WriteAtEnd
      <4>2. CASE d # c
        <5>1. fh[c] # fh[d]
          BY <1>h, <2>1, <3>1, <4>2 DEF Alone
        <5>2. bytes'[fh[d]] = bytes[fh[d]] /\ offset'[d] = offset[d]
          BY <1>t, <2>1, <3>1, <4>2, <5>1 DEF Alone
        <5> QED  BY <3>1, <5>2 DEF Alone
      <4> QED  BY <4>1, <4>2
    <3> QED  BY <2>1, <3>1, <3>2 DEF Alone
  <2>3. ASSUME NEW f \in Files, dest[f] \in Downloads, ~overlap[f]
        PROVE  Whole(f, dest[f])'
    <3>1. fh[c] # dest[f]
      BY <1>a, <1>h, <1>i, <2>1, <2>3 DEF Alone
    <3>2. bytes'[dest[f]] = bytes[dest[f]]
      BY <1>t, <2>1, <2>3, <3>1
    <3>3. Whole(f, dest[f])
      BY <1>d, <2>3
    <3> QED  BY <2>1, <3>2, <3>3 DEF Whole
  <2> QED  BY <2>1, <2>2, <2>3 DEF OneWriter
<1>4. ASSUME NEW c \in Downloads, os_replace(c) \/ WriteFails(c)
      PROVE  OneWriter'
  <2>1. Ends(c)
    BY <1>4, WriteEnds
  <2>2. /\ UNCHANGED <<bytes, fh, offset, overlap>>
        /\ \A d \in Downloads : pc'[d] = IF d = c THEN "done" ELSE pc[d]
        /\ \A f \in Files : part'[f] \in {part[f], Nobody}
        /\ \A f \in Files : dest'[f] # dest[f] =>
             f = Target[c] /\ pc[c] = "write" /\ offset[c] = Chunks /\ dest'[f] = part[f]
             /\ part[f] # Nobody
    BY <1>t, <2>1 DEF Ends
  <2>3. ASSUME NEW d \in Downloads, pc'[d] = "write", ~overlap[Target[d]]
        PROVE  Alone(d)'
    <3>1. d # c /\ pc[d] = "write" /\ Alone(d)
      BY <1>a, <2>2, <2>3
    <3>2. dest'[Target[d]] = dest[Target[d]]
      BY <2>2, <3>1 DEF Alone
    <3> QED  BY <2>2, <3>1, <3>2 DEF Alone
  <2>4. ASSUME NEW f \in Files, dest'[f] \in Downloads, ~overlap[f]
        PROVE  Whole(f, dest[f])'
    <3>1. CASE dest'[f] = dest[f]
      BY <1>d, <2>2, <2>4, <3>1 DEF Whole
    <3>2. CASE dest'[f] # dest[f]
      <4>1. f = Target[c] /\ dest'[f] = part[f] /\ part[f] # Nobody /\ offset[c] = Chunks /\ Alone(c)
        BY <1>a, <2>2, <2>4, <3>2
      <4>2. dest'[f] = fh[c] /\ bytes[fh[c]] = Written(c, Chunks)
        BY <4>1 DEF Alone
      <4> QED  BY <2>2, <4>1, <4>2 DEF Whole
    <3> QED  BY <3>1, <3>2
  <2> QED  BY <2>2, <2>3, <2>4 DEF OneWriter
<1> QED  BY <1>1, <1>2, <1>3, <1>4, FileSteps

-----------------------------------------------------------------------------
\* IInv holds through lost, delayed and failed requests and cancelled calls.
THEOREM Invariance == Spec => []IInv
<1>1. Init => IInv
  <2> SUFFICES ASSUME Init
               PROVE  IInv
    OBVIOUS
  <2> USE ClientAssumption DEF Init
  <2>1. CallTypeOK
    BY DEF CallTypeOK, Results
  <2>7. WorkerTypeOK
    BY DEF WorkerTypeOK
  <2>2. FileTypeOK
    BY DEF FileTypeOK
  <2>3. AnswersInPlace /\ AttemptsLeft /\ RetriesSpent
    BY DEF AnswersInPlace, AttemptsLeft, RetriesSpent
  <2>4. PostOnce
    BY DEF PostOnce, PostSent, Pending
  <2>8. DecidedOnce
    BY DEF DecidedOnce
  <2>5. CompatBypass
    BY DEF CompatBypass
  <2>6. FilesInPlace /\ OneWriter
    BY DEF FilesInPlace, OneWriter, Downloads, Files
  <2> QED  BY <2>1, <2>2, <2>3, <2>4, <2>5, <2>6, <2>7, <2>8 DEF IInv, SdkTypeOK
<1>2. IInv /\ [Next]_vars => IInv'
  <2> SUFFICES ASSUME IInv, [Next]_vars
               PROVE  IInv'
    OBVIOUS
  <2>1. SdkTypeOK'
    BY CallTypeStep, WorkerTypeStep, FileTypeStep DEF IInv, SdkTypeOK
  <2>2. AnswersInPlace' /\ AttemptsLeft' /\ RetriesSpent'
    BY AnswersStep, AttemptsStep DEF IInv, SdkTypeOK
  <2>3. PostOnce' /\ DecidedOnce' /\ CompatBypass'
    BY PostStep, DecidedStep, CompatStep DEF IInv
  <2>4. FilesInPlace' /\ OneWriter'
    BY PlacesStep, WriterStep DEF IInv, SdkTypeOK
  <2> QED  BY <2>1, <2>2, <2>3, <2>4 DEF IInv
<1> QED  BY <1>1, <1>2, PTL DEF Spec

\* Types; no loop sends more than MaxAttempts requests, and a call has a result
\* exactly when it has ended.
THEOREM TypeCorrect == Spec => []SdkTypeOK
<1>1. IInv => SdkTypeOK
  BY DEF IInv
<1> QED  BY <1>1, Invariance, PTL

\* The outcome of a POST is what became of it at the worker: done after a 2xx,
\* not done and never to be done after a 4xx; one answer to a decision is taken.
THEOREM PostsAreHonest == Spec => []OutcomeHonest
<1>1. IInv => OutcomeHonest
  <2> SUFFICES ASSUME IInv
               PROVE  OutcomeHonest
    OBVIOUS
  <2>1. \A c \in Calls : Op[c] \in Posts =>
          /\ result[c] = "ok" => c \in effect
          /\ result[c] \in {"conflict", "notfound"} => c \notin effect \cup inbox \cup passed
    BY DEF IInv, PostOnce, PostSent, Pending
  <2>2. \A c, d \in effect :
          Op[c] = "submit_decision" /\ Op[d] = "submit_decision" /\ Target[c] = Target[d] => c = d
    BY DEF IInv, DecidedOnce
  <2> QED  BY <2>1, <2>2 DEF OutcomeHonest, Posts
<1> QED  BY <1>1, Invariance, PTL

\* A GET fails only after all attempts of the policy, and nothing is sent past
\* them.
THEOREM RetriesAreSpent == Spec => []RetriesSpent
<1>1. IInv => RetriesSpent
  BY DEF IInv
<1> QED  BY <1>1, Invariance, PTL

\* The gate to an incompatible worker is open only during a version check and
\* after one that got no answer.
THEOREM BypassIsExplained == Spec => []CompatBypass
<1>1. IInv => CompatBypass
  BY DEF IInv
<1> QED  BY <1>1, Invariance, PTL

\* A destination is the old file or an artifact one download wrote, and a .part
\* file without a writer is one that could not be unlinked, for every artifact
\* size, unless downloads wrote to the .part file at the same time.
THEOREM FilesAreWhole == Spec => []FilesWhole
<1>1. IInv => FilesWhole
  <2>1. ASSUME IInv, NEW f \in Files, dest[f] \in Downloads, ~overlap[f]
        PROVE  \E c \in Downloads : Target[c] = f /\ bytes[dest[f]] = [i \in 1..Chunks |-> c]
    BY <2>1 DEF IInv, OneWriter, Whole, Written
  <2>2. ASSUME IInv, NEW f \in Files, part[f] # Nobody, f \notin stuck
        PROVE  \E c \in Downloads : Target[c] = f /\ pc[c] = "write"
    BY <2>2 DEF IInv, FilesInPlace
  <2> QED  BY <2>1, <2>2 DEF FilesWhole
<1> QED  BY <1>1, Invariance, PTL
==============================================================================
