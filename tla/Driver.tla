------------------------------- MODULE Driver -------------------------------
(***************************************************************************)
(* adapters/opencode/driver.py: OpenCodeDriver drives one opencode session *)
(* from session creation to the exception or return that ends the run.     *)
(*                                                                         *)
(* Coroutines: main (_run_inner under asyncio.timeout), sse (_consume_sse),*)
(* poll (_poll_session_idle), and one detached _handle_permission for each *)
(* permission opencode asks for.  They meet in _abort_event, in the counter*)
(* of consecutive rejects and in the decisions table, which the client     *)
(* answers through POST /tasks/{id}/decisions.                             *)
(*                                                                         *)
(* opencode and the human are the environment.  An action is the code from *)
(* one await to the next; awaits between which only events are written are *)
(* merged (EventLog models how an event is written).                       *)
(***************************************************************************)
EXTENDS Integers

CONSTANTS
  Perms,            \* permission requests as _consume_sse hands them out
  AutoApprove,      \* those a hitl_policy.auto_approve pattern matches
  Mode,             \* request.mode
  OnTimeout,        \* hitl_policy.on_timeout; "escalate" acts as "continue"
  _REJECT_THRESHOLD,
  Plan              \* the plan_approval decision

ASSUME DriverAssumption ==
  /\ AutoApprove \subseteq Perms
  /\ Mode \in {"plan_first", "direct_execute"}
  /\ OnTimeout \in {"abort", "continue"}
  /\ _REJECT_THRESHOLD \in Nat \ {0}
  /\ Plan \notin Perms

VARIABLES
  main,          \* where _run_inner and _handle_plan_approval are
  sse, poll,     \* the two background tasks
  timer,         \* asyncio.timeout around _run_inner
  hand,          \* where the handler of each permission is
  answer,        \* opencode_response of each handler
  sent,          \* what respond_permission told opencode
  dec, choice,   \* decisions table: status and response of each decision
  lapsed,        \* history: decisions whose wait ended without an answer
  verdict,       \* choice_val in _handle_plan_approval
  abort, reason, \* _abort_event and _abort_reason
  first,         \* history: the reason of the first abort signalled
  rejects,       \* _reject_count
  reached,       \* history: the rejects in a row reached the threshold
  status,        \* the last status the driver wrote
  buffer,        \* _assistant_buffer: "empty" or "text"
  planText,      \* _plan_text: "none" or "text"
  sessionError,  \* history: opencode reported session.error
  outcome,       \* how run() ended
  finalReason    \* reason of the TaskAbortedError raised

vars == <<main, sse, poll, timer, hand, answer, sent, dec, choice, lapsed, verdict,
          abort, reason, first, rejects, reached, status, buffer, planText,
          sessionError, outcome, finalReason>>
endVars == <<outcome, finalReason>>
textVars == <<buffer, planText, sessionError>>
countVars == <<rejects, reached>>
permVars == <<hand, answer, sent, rejects, reached>>
decVars == <<dec, choice, lapsed>>
abortVars == <<abort, reason, first>>

DecisionChoice == {"approve", "reject", "revise", "abort"}
Decisions == Perms \cup {Plan}
Reasons == {"none", "plan_rejected", "permission_rejected",
            "reject_threshold_exceeded", "hitl_timeout"}

Planning == {"plan", "plan_asked", "plan_wait", "plan_expire", "plan_decided"}
MainStates == {"start", "prompt", "wait", "reap", "exec_prompt", "exec",
               "after", "collect", "final", "close", "ended"} \cup Planning
HandStates == {"none", "begin", "asked", "wait", "expire", "default", "threshold",
               "respond", "restore", "done"}
TaskStates == {"off", "run", "done", "cancelling", "cancelled"}

Init ==
  /\ main = "start" /\ sse = "off" /\ poll = "off" /\ timer = "armed"
  /\ hand = [p \in Perms |-> "none"]
  /\ answer = [p \in Perms |-> "reject"]
  /\ sent = [p \in Perms |-> "none"]
  /\ dec = [d \in Decisions |-> "none"]
  /\ choice = [d \in Decisions |-> "none"]
  /\ lapsed = {}
  /\ verdict = "none"
  /\ abort = FALSE /\ reason = "none" /\ first = "none"
  /\ rejects = 0 /\ reached = FALSE
  /\ status = "starting_opencode"
  /\ buffer = "empty" /\ planText = "none" /\ sessionError = FALSE
  /\ outcome = "none" /\ finalReason = "none"

\* client.aclose() has not been called: requests can still succeed.
ClientOpen == main # "ended"

(***************************************************************************)
(* Helpers of the driver                                                   *)
(***************************************************************************)
\* Variant: a later signal overwrites the reason.
_signal_abort_LastWins(r) == abort' = TRUE /\ reason' = r

\* The first reason is kept.
_signal_abort(r) ==
  /\ abort' = TRUE
  /\ reason' = IF abort THEN reason ELSE r

\* A call of _signal_abort, and the reason it was called with remembered.
Signal(r) ==
  /\ _signal_abort(r)
  /\ first' = IF abort THEN first ELSE r

\* Variant: a timeout always stands for an abort.
_resolve_hitl_timeout_policy_Abort == "abort"

\* The decision a timeout stands for.
_resolve_hitl_timeout_policy == IF OnTimeout = "abort" THEN "abort" ELSE "approve"

insert_decision(d) ==
  /\ dec' = [dec EXCEPT ![d] = "pending"]
  /\ UNCHANGED <<choice, lapsed>>

\* UPDATE ... WHERE status = 'pending': an answered decision stays answered.
expire_decision(d) ==
  /\ dec' = [dec EXCEPT ![d] = IF @ = "pending" THEN "timed_out" ELSE @]
  /\ UNCHANGED <<choice, lapsed>>

\* _wait_for_decision gives up: its last look at the row found no answer.
Lapse(d) ==
  /\ dec[d] # "resolved"
  /\ lapsed' = lapsed \cup {d}
  /\ UNCHANGED <<dec, choice>>

\* A task that t.cancel() reaches while it runs.
Cancel(t) == IF t = "run" THEN "cancelling" ELSE t
Stopped(t) == IF t = "run" THEN "cancelled" ELSE t

\* _run_inner leaves with outcome o; run() goes on to its finally block.
Leave(o, r) ==
  /\ main' = "close"
  /\ outcome' = o
  /\ finalReason' = r

(***************************************************************************)
(* main: _run_inner up to the end of the first phase                       *)
(***************************************************************************)
\* Session, injected messages, first status; the two tasks are created.
_run_inner ==
  /\ main = "start"
  /\ main' = "prompt"
  /\ status' = IF Mode = "plan_first" THEN "planning" ELSE "executing"
  /\ sse' = "run" /\ poll' = "run"
  /\ UNCHANGED <<timer, permVars, decVars, verdict, abortVars, textVars, endVars>>

SessionFails ==
  /\ main = "start"
  /\ Leave("failed", "none")
  /\ UNCHANGED <<sse, poll, timer, permVars, decVars, verdict, abortVars, status,
                 textVars>>

prompt_async ==
  /\ main = "prompt"
  /\ main' = "wait"
  /\ UNCHANGED <<sse, poll, timer, permVars, decVars, verdict, abortVars, status,
                 textVars, endVars>>

\* Variant: the tasks are left running when the prompt cannot be sent.
PromptFails_NoCancel ==
  /\ main = "prompt"
  /\ Leave("failed", "none")
  /\ UNCHANGED <<sse, poll, timer, permVars, decVars, verdict, abortVars, status,
                 textVars>>

\* except Exception: both tasks are cancelled and awaited.
PromptFails ==
  /\ main = "prompt"
  /\ Leave("failed", "none")
  /\ sse' = Stopped(sse) /\ poll' = Stopped(poll)
  /\ UNCHANGED <<timer, permVars, decVars, verdict, abortVars, status, textVars>>

\* asyncio.wait(FIRST_COMPLETED) returns; the pending task is cancelled.
FirstCompleted ==
  /\ main = "wait"
  /\ sse # "run" \/ poll # "run"
  /\ main' = "reap"
  /\ sse' = Cancel(sse) /\ poll' = Cancel(poll)
  /\ UNCHANGED <<timer, permVars, decVars, verdict, abortVars, status, textVars,
                 endVars>>

TaskCancelled ==
  /\ main = "reap"
  /\ sse' = IF sse = "cancelling" THEN "cancelled" ELSE sse
  /\ poll' = IF poll = "cancelling" THEN "cancelled" ELSE poll
  /\ main' = IF Mode = "plan_first" /\ ~abort THEN "plan" ELSE "after"
  /\ UNCHANGED <<timer, permVars, decVars, verdict, abortVars, status, textVars,
                 endVars>>

(***************************************************************************)
(* main: _handle_plan_approval                                             *)
(***************************************************************************)
_handle_plan_approval ==
  /\ main = "plan"
  /\ insert_decision(Plan)
  /\ main' = "plan_asked"
  /\ UNCHANGED <<sse, poll, timer, permVars, verdict, abortVars, status, textVars,
                 endVars>>

PlanAwait ==
  /\ main = "plan_asked"
  /\ status' = "awaiting_human"
  /\ main' = "plan_wait"
  /\ UNCHANGED <<sse, poll, timer, permVars, decVars, verdict, abortVars, textVars,
                 endVars>>

PlanAnswered ==
  /\ main = "plan_wait" /\ dec[Plan] = "resolved"
  /\ verdict' = choice[Plan]
  /\ main' = "plan_decided"
  /\ UNCHANGED <<sse, poll, timer, permVars, decVars, abortVars, status, textVars,
                 endVars>>

PlanTimeout ==
  /\ main = "plan_wait"
  /\ Lapse(Plan)
  /\ main' = "plan_expire"
  /\ UNCHANGED <<sse, poll, timer, permVars, verdict, abortVars, status, textVars,
                 endVars>>

PlanExpire ==
  /\ main = "plan_expire"
  /\ expire_decision(Plan)
  /\ verdict' = _resolve_hitl_timeout_policy
  /\ main' = "plan_decided"
  /\ UNCHANGED <<sse, poll, timer, permVars, abortVars, status, textVars, endVars>>

\* Variant: anything but abort starts the execution.
Approved_NotAbort == verdict # "abort"

Approved == verdict = "approve"

PlanApproved ==
  /\ main = "plan_decided" /\ Approved
  /\ status' = "executing"
  /\ buffer' = "empty" /\ planText' = "none"
  /\ sse' = "run"
  /\ main' = "exec_prompt"
  /\ UNCHANGED <<poll, timer, permVars, decVars, verdict, abortVars, sessionError,
                 endVars>>

PlanRejected ==
  /\ main = "plan_decided" /\ ~Approved
  /\ Signal("plan_rejected")
  /\ Leave("aborted", "plan_rejected")
  /\ UNCHANGED <<sse, poll, timer, permVars, decVars, verdict, status, textVars>>

StartWork ==
  /\ main = "exec_prompt"
  /\ main' = "exec"
  /\ UNCHANGED <<sse, poll, timer, permVars, decVars, verdict, abortVars, status,
                 textVars, endVars>>

StartWorkFails ==
  /\ main = "exec_prompt"
  /\ Leave("failed", "none")
  /\ sse' = Stopped(sse)
  /\ UNCHANGED <<poll, timer, permVars, decVars, verdict, abortVars, status, textVars>>

\* await sse_task: in this phase nothing polls the session.
ExecDone ==
  /\ main = "exec" /\ sse = "done"
  /\ main' = "after"
  /\ UNCHANGED <<sse, poll, timer, permVars, decVars, verdict, abortVars, status,
                 textVars, endVars>>

(***************************************************************************)
(* main: artifacts, the final abort check, and the finally block of run()  *)
(***************************************************************************)
AfterSession ==
  /\ main = "after"
  /\ main' = IF abort THEN "final" ELSE "collect"
  /\ UNCHANGED <<sse, poll, timer, permVars, decVars, verdict, abortVars, status,
                 textVars, endVars>>

_collect_artifacts ==
  /\ main = "collect"
  /\ main' = "final"
  /\ UNCHANGED <<sse, poll, timer, permVars, decVars, verdict, abortVars, status,
                 textVars, endVars>>

FinalCheck ==
  /\ main = "final"
  /\ IF abort THEN Leave("aborted", reason) ELSE Leave("completed", "none")
  /\ UNCHANGED <<sse, poll, timer, permVars, decVars, verdict, abortVars, status,
                 textVars>>

\* delete_session and aclose.
Close ==
  /\ main = "close"
  /\ main' = "ended"
  /\ UNCHANGED <<sse, poll, timer, permVars, decVars, verdict, abortVars, status,
                 textVars, endVars>>

(***************************************************************************)
(* asyncio.timeout cancels main.  In the waits of the first phase neither  *)
(* except clause sees a CancelledError; in "exec" the cancellation reaches *)
(* sse through the await.                                                  *)
(***************************************************************************)
run_timeout ==
  /\ timer = "armed"
  /\ main \in {"start", "prompt", "wait", "exec_prompt", "exec", "collect"} \cup Planning
  /\ timer' = "fired"
  /\ Leave("timed_out", "none")
  /\ sse' = IF main = "exec" THEN Stopped(sse) ELSE sse
  /\ UNCHANGED <<poll, permVars, decVars, verdict, abortVars, status, textVars>>

\* except (asyncio.CancelledError, Exception): pass, around the await of the
\* task that was just cancelled, also swallows the cancellation of main.
TimeoutSwallowed ==
  /\ timer = "armed" /\ main = "reap"
  /\ "cancelling" \in {sse, poll}
  /\ timer' = "fired"
  /\ UNCHANGED <<main, sse, poll, permVars, decVars, verdict, abortVars, status,
                 textVars, endVars>>

(***************************************************************************)
(* sse: _consume_sse                                                       *)
(***************************************************************************)
Streaming == sse = "run" /\ ClientOpen /\ ~abort

\* The handler of a permission is a task of its own.  _pending_perm_ids is local
\* to one call of _consume_sse: an id listed again in the execution phase gets a
\* second handler with a decision of its own, another member of Perms.
PermissionAsked(p) ==
  /\ Streaming
  /\ hand[p] = "none"
  /\ hand' = [hand EXCEPT ![p] = "begin"]
  /\ UNCHANGED <<main, sse, poll, timer, answer, sent, countVars, decVars, verdict,
                 abortVars, status, textVars, endVars>>

AssistantDelta ==
  /\ Streaming
  /\ buffer' = "text"
  /\ UNCHANGED <<main, sse, poll, timer, permVars, decVars, verdict, abortVars, status,
                 planText, sessionError, endVars>>

\* The loop ends; in plan_first mode the text becomes the plan.
SseEnds ==
  /\ sse' = "done"
  /\ planText' = IF Mode = "plan_first" /\ buffer = "text" THEN "text" ELSE planText
  /\ UNCHANGED <<main, poll, timer, permVars, decVars, verdict, abortVars, status,
                 buffer, endVars>>

SessionIdle == Streaming /\ SseEnds /\ UNCHANGED sessionError

\* The RuntimeError is caught by the handler of broken streams below it.
SessionError == Streaming /\ SseEnds /\ sessionError' = TRUE

\* The stream breaks: a warning, and the loop ends as if the session had.
SseBroken == sse = "run" /\ SseEnds /\ UNCHANGED sessionError

\* Variant: the abort flag is not looked at.
SseAbort_Ignored == FALSE

\* Any event, a heartbeat too, makes the loop look at _abort_event.
SseAbort == sse = "run" /\ ClientOpen /\ abort /\ SseEnds /\ UNCHANGED sessionError

(***************************************************************************)
(* poll: _poll_session_idle.  Once the client is closed every request      *)
(* raises, which the loop ignores.                                         *)
(***************************************************************************)
_poll_session_idle ==
  /\ poll = "run"
  /\ abort \/ ClientOpen
  /\ poll' = "done"
  /\ UNCHANGED <<main, sse, timer, permVars, decVars, verdict, abortVars, status,
                 textVars, endVars>>

(***************************************************************************)
(* _handle_permission                                                      *)
(***************************************************************************)
\* Variant: the choice itself is sent, not opencode's word for it.
respond_permission_Choice(p, a) == sent' = [sent EXCEPT ![p] = choice[p]]

\* respond_permission: a failure is logged and ignored.
respond_permission(p, a) ==
  \/ ClientOpen /\ sent' = [sent EXCEPT ![p] = a]
  \/ UNCHANGED sent

\* Variant: every request is approved.
_match_auto_approve_All(p) == TRUE

_match_auto_approve(p) == p \in AutoApprove

_auto_approve_permission(p) ==
  /\ hand[p] = "begin" /\ _match_auto_approve(p)
  /\ rejects' = 0
  /\ respond_permission(p, "once")
  /\ hand' = [hand EXCEPT ![p] = "done"]
  /\ UNCHANGED <<main, sse, poll, timer, answer, reached, decVars, verdict, abortVars, status,
                 textVars, endVars>>

_handle_permission(p) ==
  /\ hand[p] = "begin" /\ ~_match_auto_approve(p)
  /\ insert_decision(p)
  /\ hand' = [hand EXCEPT ![p] = "asked"]
  /\ UNCHANGED <<main, sse, poll, timer, answer, sent, countVars, verdict, abortVars,
                 status, textVars, endVars>>

AwaitHuman(p) ==
  /\ hand[p] = "asked"
  /\ status' = "awaiting_human"
  /\ hand' = [hand EXCEPT ![p] = "wait"]
  /\ UNCHANGED <<main, sse, poll, timer, answer, sent, countVars, decVars, verdict,
                 abortVars, textVars, endVars>>

AtThreshold(n) == n >= _REJECT_THRESHOLD

\* _wait_for_decision finds the answer.
Answered(p) ==
  /\ hand[p] = "wait" /\ dec[p] = "resolved"
  /\ CASE choice[p] = "approve" ->
            /\ answer' = [answer EXCEPT ![p] = "once"]
            /\ rejects' = 0
            /\ hand' = [hand EXCEPT ![p] = "respond"]
            /\ UNCHANGED <<reached, abortVars>>
       [] choice[p] = "abort" ->
            /\ Signal("permission_rejected")
            /\ hand' = [hand EXCEPT ![p] = "respond"]
            /\ UNCHANGED <<answer, countVars>>
       [] OTHER ->
            /\ rejects' = rejects + 1
            /\ reached' = (reached \/ rejects + 1 >= _REJECT_THRESHOLD)
            /\ hand' = [hand EXCEPT ![p] = IF AtThreshold(rejects + 1) THEN "threshold"
                                           ELSE "respond"]
            /\ UNCHANGED <<answer, abortVars>>
  /\ UNCHANGED <<main, sse, poll, timer, sent, decVars, verdict, status, textVars,
                 endVars>>

\* Variant: the counter is looked at again after the event was written.
RejectThreshold_Recheck(p) ==
  /\ hand[p] = "threshold"
  /\ IF AtThreshold(rejects) THEN Signal("reject_threshold_exceeded")
     ELSE UNCHANGED abortVars
  /\ hand' = [hand EXCEPT ![p] = "respond"]
  /\ UNCHANGED <<main, sse, poll, timer, answer, sent, countVars, decVars, verdict,
                 status, textVars, endVars>>

\* mode_escalation_suggested is written, then the run is aborted.
RejectThreshold(p) ==
  /\ hand[p] = "threshold"
  /\ Signal("reject_threshold_exceeded")
  /\ hand' = [hand EXCEPT ![p] = "respond"]
  /\ UNCHANGED <<main, sse, poll, timer, answer, sent, countVars, decVars, verdict,
                 status, textVars, endVars>>

_wait_for_decision(p) ==
  /\ hand[p] = "wait"
  /\ Lapse(p)
  /\ hand' = [hand EXCEPT ![p] = "expire"]
  /\ UNCHANGED <<main, sse, poll, timer, answer, sent, countVars, verdict, abortVars,
                 status, textVars, endVars>>

Expire(p) ==
  /\ hand[p] = "expire"
  /\ expire_decision(p)
  /\ hand' = [hand EXCEPT ![p] = "default"]
  /\ UNCHANGED <<main, sse, poll, timer, answer, sent, countVars, verdict, abortVars,
                 status, textVars, endVars>>

Default(p) ==
  /\ hand[p] = "default"
  /\ IF _resolve_hitl_timeout_policy = "abort"
     THEN Signal("hitl_timeout") /\ UNCHANGED answer
     ELSE answer' = [answer EXCEPT ![p] = "once"] /\ UNCHANGED abortVars
  /\ hand' = [hand EXCEPT ![p] = "respond"]
  /\ UNCHANGED <<main, sse, poll, timer, sent, countVars, decVars, verdict, status,
                 textVars, endVars>>

Respond(p) ==
  /\ hand[p] = "respond"
  /\ respond_permission(p, answer[p])
  /\ hand' = [hand EXCEPT ![p] = "restore"]
  /\ UNCHANGED <<main, sse, poll, timer, answer, countVars, decVars, verdict, abortVars,
                 status, textVars, endVars>>

\* The status is written even when the run is over.
Restore(p) ==
  /\ hand[p] = "restore"
  /\ status' = IF abort THEN status
               ELSE IF Mode = "plan_first" THEN "planning" ELSE "executing"
  /\ hand' = [hand EXCEPT ![p] = "done"]
  /\ UNCHANGED <<main, sse, poll, timer, answer, sent, countVars, decVars, verdict,
                 abortVars, textVars, endVars>>

(***************************************************************************)
(* POST /tasks/{id}/decisions: resolve_decision updates a pending row only *)
(* and does not look at the options of the request.                        *)
(***************************************************************************)
submit_decision(d, c) ==
  /\ dec[d] = "pending"
  /\ dec' = [dec EXCEPT ![d] = "resolved"]
  /\ choice' = [choice EXCEPT ![d] = c]
  /\ UNCHANGED <<main, sse, poll, timer, permVars, lapsed, verdict, abortVars, status,
                 textVars, endVars>>

(***************************************************************************)
(* Specification                                                           *)
(***************************************************************************)
PlanStep ==
  \/ _handle_plan_approval \/ PlanAwait \/ PlanAnswered \/ PlanTimeout \/ PlanExpire
  \/ PlanApproved \/ PlanRejected \/ StartWork \/ StartWorkFails \/ ExecDone

MainStep ==
  \/ _run_inner \/ SessionFails \/ prompt_async \/ PromptFails
  \/ FirstCompleted \/ TaskCancelled \/ PlanStep
  \/ AfterSession \/ _collect_artifacts \/ FinalCheck \/ Close

HandlerStep(p) ==
  \/ _auto_approve_permission(p) \/ _handle_permission(p) \/ AwaitHuman(p)
  \/ Answered(p) \/ RejectThreshold(p) \/ _wait_for_decision(p) \/ Expire(p)
  \/ Default(p) \/ Respond(p) \/ Restore(p)

SseStep ==
  \/ \E p \in Perms : PermissionAsked(p)
  \/ AssistantDelta \/ SessionIdle \/ SessionError \/ SseBroken \/ SseAbort

Next ==
  \/ MainStep
  \/ run_timeout \/ TimeoutSwallowed
  \/ SseStep \/ _poll_session_idle
  \/ \E p \in Perms : HandlerStep(p)
  \/ \E d \in Decisions, c \in DecisionChoice : submit_decision(d, c)

Spec == Init /\ [][Next]_vars

\* The event loop runs every ready coroutine, a decision timeout elapses,
\* opencode sends heartbeats and answers or refuses the requests main waits for
\* (prompt_async, get_diff, get_messages: the client sets no read timeout).
\* Neither the session's idleness nor the human nor the task timeout is fair.
FairSpec ==
  /\ Spec
  /\ WF_vars(MainStep)
  /\ WF_vars(SseAbort)
  /\ WF_vars(abort /\ _poll_session_idle)
  /\ \A p \in Perms : WF_vars(HandlerStep(p))

(***************************************************************************)
(* Properties                                                              *)
(***************************************************************************)
\* Every variable has its type; opencode is only ever told "once" or "reject",
\* the words its permission endpoint knows (respond_permission).
TypeOK ==
  /\ main \in MainStates
  /\ sse \in TaskStates /\ poll \in TaskStates
  /\ timer \in {"armed", "fired"}
  /\ hand \in [Perms -> HandStates]
  /\ answer \in [Perms -> {"once", "reject"}]
  /\ sent \in [Perms -> {"none", "once", "reject"}]
  /\ dec \in [Decisions -> {"none", "pending", "resolved", "timed_out"}]
  /\ choice \in [Decisions -> DecisionChoice \cup {"none"}]
  /\ verdict \in DecisionChoice \cup {"none"}
  /\ lapsed \subseteq Decisions
  /\ abort \in BOOLEAN
  /\ reason \in Reasons /\ first \in Reasons /\ finalReason \in Reasons
  /\ rejects \in Nat /\ reached \in BOOLEAN
  /\ status \in {"starting_opencode", "planning", "executing", "awaiting_human"}
  /\ buffer \in {"empty", "text"} /\ planText \in {"none", "text"}
  /\ sessionError \in BOOLEAN
  /\ outcome \in {"none", "completed", "aborted", "failed", "timed_out"}

\* The decision was approved, or nobody answered it in time and the policy is to
\* go on.  A decision that was rejected in time is not allowed under any policy.
Allowed(d) ==
  \/ dec[d] = "resolved" /\ choice[d] = "approve"
  \/ d \in lapsed /\ OnTimeout = "continue"

\* opencode is told "once" only for a permission that a pattern of the request
\* approves, that a human approved, or that timed out under a policy to go on;
\* whatever other handlers, timeouts and late answers do (_handle_permission).
HitlGate ==
  \A p \in Perms : sent[p] = "once" => p \in AutoApprove \/ Allowed(p)

\* In plan_first mode the executing agent is started only when the plan was
\* approved, or timed out under a policy to go on (_handle_plan_approval).
PlanGate == main \in {"exec_prompt", "exec"} => Allowed(Plan)

\* A run that ends by itself leaves neither the SSE nor the polling task
\* behind, on the failure paths too (_run_inner, _handle_plan_approval).
NoLeakedTasks ==
  outcome \in {"completed", "aborted", "failed"} => "run" \notin {sse, poll}

\* Once the rejects in a row have reached the threshold the run is aborted, or
\* the handler that counted the last of them is about to abort it: an approval
\* that resets the counter while that handler writes its event does not undo it
\* (_handle_permission, _auto_approve_permission, _signal_abort).
RejectLoopBroken ==
  reached => abort \/ \E p \in Perms : hand[p] = "threshold"

\* What must have happened for each reason of an abort.
Cause(r) ==
  \/ /\ r = "plan_rejected"
     /\ \/ dec[Plan] = "resolved" /\ choice[Plan] # "approve"
        \/ Plan \in lapsed /\ OnTimeout = "abort"
  \/ /\ r = "permission_rejected"
     /\ \E p \in Perms : dec[p] = "resolved" /\ choice[p] = "abort"
  \/ /\ r = "reject_threshold_exceeded"
     /\ reached
     /\ \E p \in Perms : dec[p] = "resolved" /\ choice[p] \in {"reject", "revise"}
  \/ /\ r = "hitl_timeout"
     /\ OnTimeout = "abort" /\ lapsed \cap Perms # {}

\* An aborted run reports a cause that really was there: a plan that was not
\* approved, or a permission that a human, the reject threshold or a timeout
\* turned into an abort.  When several did, it reports the first, unless the
\* plan was turned down as well (_signal_abort, _handle_plan_approval).
AbortHasCause ==
  outcome = "aborted" =>
    Cause(finalReason) /\ finalReason \in {first, "plan_rejected"}

\* Once _abort_event is set the run ends, without help from the task timeout,
\* wherever main is waiting: on the two tasks, on the plan, on the execution.
AbortEndsRun == abort ~> outcome # "none"

(***************************************************************************)
(* The inductive invariant behind HitlGate, PlanGate, NoLeakedTasks,       *)
(* RejectLoopBroken and AbortHasCause                                      *)
(***************************************************************************)
BeforePlan == {"start", "prompt", "wait", "reap", "plan"}
Settled == {"reap", "after", "collect", "final"} \cup Planning
Over == {"close", "ended"}

\* A decision row is inserted once, by its own asker, and has a choice exactly
\* when it is resolved.
RowsOfAskers ==
  /\ \A p \in Perms : hand[p] \in {"none", "begin"} => dec[p] = "none"
  /\ main \in BeforePlan => dec[Plan] = "none"
  /\ main = "plan_decided" => dec[Plan] \in {"resolved", "timed_out"}
  /\ main \in {"plan_asked", "plan_wait", "plan_expire"} => dec[Plan] # "none"
  /\ \A d \in Decisions : dec[d] = "resolved" => choice[d] \in DecisionChoice
  /\ \A p \in Perms : hand[p] \in {"expire", "default"} => p \in lapsed
  /\ main = "plan_expire" => Plan \in lapsed
  /\ main = "plan_decided" =>
        \/ dec[Plan] = "resolved" /\ verdict = choice[Plan]
        \/ Plan \in lapsed /\ verdict = _resolve_hitl_timeout_policy

\* What a handler or main is about to act on is allowed already.
Permitted ==
  /\ \A p \in Perms : answer[p] = "once" => Allowed(p)
  /\ verdict = "approve" => Allowed(Plan)
  /\ main \in {"exec_prompt", "exec"} => verdict = "approve"

\* Where main has gone on, its tasks have been stopped.
TasksStopped ==
  /\ main = "start" => sse = "off" /\ poll = "off"
  /\ main \in Settled => "run" \notin {sse, poll}
  /\ main \in {"exec_prompt", "exec"} => poll # "run"
  /\ outcome # "none" => main \in Over

\* The recorded reason has its cause, and a handler about to abort has one.
ReasonHasCause ==
  /\ reason = first
  /\ abort => Cause(reason)
  /\ outcome = "aborted" => abort
  /\ \A p \in Perms : hand[p] = "threshold" =>
        reached /\ dec[p] = "resolved" /\ choice[p] \in {"reject", "revise"}

IInv ==
  /\ TypeOK /\ RowsOfAskers /\ Permitted /\ TasksStopped /\ ReasonHasCause
  /\ HitlGate /\ PlanGate /\ NoLeakedTasks /\ RejectLoopBroken /\ AbortHasCause

(***************************************************************************)
(* Statements of the repository the code does not meet                     *)
(***************************************************************************)
\* "检查是否有异常（session.error 由 _consume_sse 抛出）": a session error reaches
\* _run_inner, which raises it; the run does not complete.
SessionErrorFailsRun == sessionError => outcome # "completed"

\* "首次决定终态原因": the run reports the first reason signalled, whatever was
\* decided later.
FirstReasonReported == outcome = "aborted" => finalReason = first

\* "超过 resource_limits.timeout_sec 未完成" ends in timed_out: a run whose timer has
\* fired is not executing its plan.
TimeoutEndsRun == timer = "fired" => main # "exec"

\* "中止信号：外部 abort 或超时时设置，SSE 消费循环检测后退出": after the run has
\* ended, by a timeout too, the background tasks stop.
TasksStopAfterEnd == main = "ended" ~> "run" \notin {sse, poll}

\* "Worker 将选择通过 opencode 权限回调接口回传": what opencode is told is what the
\* accepted answer says.
AnswerIsForwarded ==
  \A p \in Perms : (dec[p] = "resolved" /\ sent[p] # "none") =>
                   (sent[p] = "once" <=> choice[p] = "approve")

\* "防止 pending 决策永久悬挂": no decision stays pending for ever.
DecisionSettles == \A d \in Decisions : dec[d] = "pending" ~> dec[d] # "pending"

\* "payload.plan_text 为计划全文": when the plan is presented, text the assistant
\* sent is in it.
PlanHasText == main = "plan" /\ buffer = "text" => planText = "text"

\* "abort: 立即中止整个任务，状态变为 aborted": a run with an accepted abort does not
\* complete after it.
HumanAbortAborts ==
  [][(\E p \in Perms : dec[p] = "resolved" /\ choice[p] = "abort")
        => outcome' = outcome \/ outcome' # "completed"]_vars

=============================================================================
