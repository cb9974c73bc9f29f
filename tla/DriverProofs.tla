---------------------------- MODULE DriverProofs ----------------------------
(***************************************************************************)
(* Theorems about the driver, for every set of permissions, mode, timeout  *)
(* policy and reject threshold.  The invariant IInv of Driver is shown     *)
(* inductive part by part; the parts use each other only as stated.        *)
(***************************************************************************)
EXTENDS Driver, TLAPS

\* Every step keeps the types.
LEMMA TypeStep ==
  ASSUME TypeOK, [Next]_vars
  PROVE  TypeOK'
<1> USE DriverAssumption DEF vars, endVars, textVars, permVars, countVars,
      decVars, abortVars, TypeOK, MainStates, Planning, HandStates, TaskStates,
      Decisions, DecisionChoice, Reasons
<1>1. CASE _run_inner \/ SessionFails \/ prompt_async \/ PromptFails
           \/ FirstCompleted \/ TaskCancelled
  BY <1>1 DEF _run_inner, SessionFails, prompt_async, PromptFails,
     FirstCompleted, TaskCancelled, Leave, Stopped, Cancel
<1>2. CASE _handle_plan_approval \/ PlanAwait \/ PlanAnswered \/ PlanTimeout
           \/ PlanExpire
  BY <1>2 DEF _handle_plan_approval, PlanAwait, PlanAnswered, PlanTimeout,
     PlanExpire, insert_decision, expire_decision, Lapse,
     _resolve_hitl_timeout_policy
<1>3. CASE PlanApproved \/ PlanRejected \/ StartWork \/ StartWorkFails
           \/ ExecDone
  <2>1. CASE PlanRejected
    BY <2>1 DEF PlanRejected, Approved, Signal, _signal_abort, Leave
  <2>2. CASE PlanApproved \/ StartWork \/ StartWorkFails \/ ExecDone
    BY <2>2 DEF PlanApproved, Approved, StartWork, StartWorkFails, ExecDone, Leave, Stopped
  <2> QED  BY <1>3, <2>1, <2>2
<1>4. CASE AfterSession \/ _collect_artifacts \/ FinalCheck \/ Close
  BY <1>4 DEF AfterSession, _collect_artifacts, FinalCheck, Close, Leave
<1>5. CASE run_timeout \/ TimeoutSwallowed
  BY <1>5 DEF run_timeout, TimeoutSwallowed, Leave, Stopped
<1>6. CASE AssistantDelta \/ SessionIdle \/ SessionError \/ SseBroken
           \/ SseAbort \/ _poll_session_idle
  <2>1. CASE AssistantDelta \/ _poll_session_idle
    BY <2>1 DEF AssistantDelta, _poll_session_idle
  <2>2. CASE SessionIdle \/ SseBroken \/ SseAbort
    BY <2>2 DEF SessionIdle, SseBroken, SseAbort, SseEnds
  <2>3. CASE SessionError
    BY <2>3 DEF SessionError, SseEnds
  <2> QED  BY <1>6, <2>1, <2>2, <2>3
<1>7. ASSUME NEW p \in Perms, PermissionAsked(p)
      PROVE  TypeOK'
  BY <1>7 DEF PermissionAsked
<1>8. ASSUME NEW p \in Perms, _auto_approve_permission(p)
           \/ _handle_permission(p) \/ AwaitHuman(p)
      PROVE  TypeOK'
  BY <1>8 DEF _auto_approve_permission, _handle_permission, AwaitHuman,
     respond_permission, _match_auto_approve, insert_decision
<1>9. ASSUME NEW p \in Perms, Answered(p)
      PROVE  TypeOK'
  <2>1. CASE choice[p] = "approve"
    BY <1>9, <2>1 DEF Answered
  <2>2. CASE choice[p] = "abort"
    BY <1>9, <2>2 DEF Answered, Signal, _signal_abort
  <2>3. CASE choice[p] \notin {"approve", "abort"}
    <3>1. /\ rejects' = rejects + 1 /\ reached' \in BOOLEAN
          /\ hand' \in [Perms -> HandStates]
          /\ UNCHANGED <<answer, abortVars>>
      BY <1>9, <2>3 DEF Answered
    <3>2. UNCHANGED <<main, sse, poll, timer, sent, decVars, verdict, status, textVars,
                      endVars>>
      BY <1>9 DEF Answered
    <3> QED  BY <3>1, <3>2
  <2> QED  BY <2>1, <2>2, <2>3
<1>10. ASSUME NEW p \in Perms, RejectThreshold(p) \/ _wait_for_decision(p)
           \/ Expire(p) \/ Default(p)
      PROVE  TypeOK'
  <2>1. CASE RejectThreshold(p)
    BY <2>1 DEF RejectThreshold, Signal, _signal_abort
  <2>2. CASE _wait_for_decision(p) \/ Expire(p)
    BY <2>2 DEF _wait_for_decision, Expire, expire_decision, Lapse
  <2>3. CASE Default(p)
    <3>1. CASE OnTimeout = "abort"
      BY <2>3, <3>1 DEF Default, Signal, _signal_abort, _resolve_hitl_timeout_policy
    <3>2. CASE OnTimeout # "abort"
      BY <2>3, <3>2 DEF Default, _resolve_hitl_timeout_policy
    <3> QED  BY <3>1, <3>2
  <2> QED  BY <1>10, <2>1, <2>2, <2>3
<1>11. ASSUME NEW p \in Perms, Respond(p) \/ Restore(p)
      PROVE  TypeOK'
  BY <1>11 DEF Respond, Restore, respond_permission
<1>12. ASSUME NEW d \in Decisions, NEW c \in DecisionChoice, submit_decision(d, c)
      PROVE  TypeOK'
  BY <1>12 DEF submit_decision
<1>13. CASE UNCHANGED vars
  BY <1>13
<1>14. QED
  BY <1>1, <1>2, <1>3, <1>4, <1>5, <1>6, <1>7, <1>8, <1>9, <1>10,
     <1>11, <1>12, <1>13
     DEF Next, MainStep, PlanStep, SseStep, HandlerStep

\* A decision row belongs to its asker, and a resolved one has a choice.
LEMMA RowsStep ==
  ASSUME TypeOK, RowsOfAskers, [Next]_vars
  PROVE  RowsOfAskers'
<1> USE DriverAssumption DEF vars, endVars, textVars, permVars, countVars,
      decVars, abortVars, TypeOK, RowsOfAskers, BeforePlan, Planning, Decisions,
      DecisionChoice
<1>1. CASE _run_inner \/ SessionFails \/ prompt_async \/ PromptFails
           \/ FirstCompleted \/ TaskCancelled
  BY <1>1 DEF _run_inner, SessionFails, prompt_async, PromptFails,
     FirstCompleted, TaskCancelled, Leave, Stopped, Cancel
<1>2. CASE _handle_plan_approval \/ PlanAwait \/ PlanAnswered \/ PlanTimeout
           \/ PlanExpire
  BY <1>2 DEF _handle_plan_approval, PlanAwait, PlanAnswered, PlanTimeout,
     PlanExpire, insert_decision, expire_decision, Lapse,
     _resolve_hitl_timeout_policy
<1>3. CASE PlanApproved \/ PlanRejected \/ StartWork \/ StartWorkFails
           \/ ExecDone
  BY <1>3 DEF PlanApproved, PlanRejected, StartWork, StartWorkFails, ExecDone,
     Approved, Signal, _signal_abort, Leave, Stopped
<1>4. CASE AfterSession \/ _collect_artifacts \/ FinalCheck \/ Close
  BY <1>4 DEF AfterSession, _collect_artifacts, FinalCheck, Close, Leave
<1>5. CASE run_timeout \/ TimeoutSwallowed
  BY <1>5 DEF run_timeout, TimeoutSwallowed, Leave, Stopped
<1>6. CASE AssistantDelta \/ SessionIdle \/ SessionError \/ SseBroken
           \/ SseAbort \/ _poll_session_idle
  BY <1>6 DEF AssistantDelta, SessionIdle, SessionError, SseBroken, SseAbort,
     _poll_session_idle, SseEnds
<1>7. ASSUME NEW p \in Perms, PermissionAsked(p)
      PROVE  RowsOfAskers'
  BY <1>7 DEF PermissionAsked
<1>8. ASSUME NEW p \in Perms, _auto_approve_permission(p)
           \/ _handle_permission(p) \/ AwaitHuman(p)
      PROVE  RowsOfAskers'
  BY <1>8 DEF _auto_approve_permission, _handle_permission, AwaitHuman,
     respond_permission, _match_auto_approve, insert_decision
<1>9. ASSUME NEW p \in Perms, Answered(p)
      PROVE  RowsOfAskers'
  BY <1>9 DEF Answered, Signal, _signal_abort, AtThreshold
<1>10. ASSUME NEW p \in Perms, RejectThreshold(p) \/ _wait_for_decision(p)
           \/ Expire(p) \/ Default(p)
      PROVE  RowsOfAskers'
  BY <1>10 DEF RejectThreshold, _wait_for_decision, Expire, Default,
     Signal, _signal_abort, expire_decision, Lapse, _resolve_hitl_timeout_policy
<1>11. ASSUME NEW p \in Perms, Respond(p) \/ Restore(p)
      PROVE  RowsOfAskers'
  BY <1>11 DEF Respond, Restore, respond_permission
<1>12. ASSUME NEW d \in Decisions, NEW c \in DecisionChoice, submit_decision(d, c)
      PROVE  RowsOfAskers'
  BY <1>12 DEF submit_decision
<1>13. CASE UNCHANGED vars
  BY <1>13
<1>14. QED
  BY <1>1, <1>2, <1>3, <1>4, <1>5, <1>6, <1>7, <1>8, <1>9, <1>10,
     <1>11, <1>12, <1>13
     DEF Next, MainStep, PlanStep, SseStep, HandlerStep

\* What a handler or main acts on was allowed, and an approval stands.
LEMMA PermittedStep ==
  ASSUME TypeOK, RowsOfAskers, Permitted, HitlGate, [Next]_vars
  PROVE  Permitted' /\ HitlGate'
<1> USE DriverAssumption DEF vars, endVars, textVars, permVars, countVars,
      decVars, abortVars, TypeOK, RowsOfAskers, BeforePlan, Planning, Decisions,
      DecisionChoice, Permitted, HitlGate, Allowed
<1>1. CASE _run_inner \/ SessionFails \/ prompt_async \/ PromptFails
           \/ FirstCompleted \/ TaskCancelled
  BY <1>1 DEF _run_inner, SessionFails, prompt_async, PromptFails,
     FirstCompleted, TaskCancelled, Leave, Stopped, Cancel
<1>2. CASE _handle_plan_approval \/ PlanAwait \/ PlanAnswered \/ PlanTimeout
           \/ PlanExpire
  BY <1>2 DEF _handle_plan_approval, PlanAwait, PlanAnswered, PlanTimeout,
     PlanExpire, insert_decision, expire_decision, Lapse,
     _resolve_hitl_timeout_policy
<1>3. CASE PlanApproved \/ PlanRejected \/ StartWork \/ StartWorkFails
           \/ ExecDone
  BY <1>3 DEF PlanApproved, PlanRejected, StartWork, StartWorkFails, ExecDone,
     Approved, Signal, _signal_abort, Leave, Stopped
<1>4. CASE AfterSession \/ _collect_artifacts \/ FinalCheck \/ Close
  BY <1>4 DEF AfterSession, _collect_artifacts, FinalCheck, Close, Leave
<1>5. CASE run_timeout \/ TimeoutSwallowed
  BY <1>5 DEF run_timeout, TimeoutSwallowed, Leave, Stopped
<1>6. CASE AssistantDelta \/ SessionIdle \/ SessionError \/ SseBroken
           \/ SseAbort \/ _poll_session_idle
  BY <1>6 DEF AssistantDelta, SessionIdle, SessionError, SseBroken, SseAbort,
     _poll_session_idle, SseEnds
<1>7. ASSUME NEW p \in Perms, PermissionAsked(p)
      PROVE  Permitted' /\ HitlGate'
  BY <1>7 DEF PermissionAsked
<1>8. ASSUME NEW p \in Perms, _auto_approve_permission(p)
           \/ _handle_permission(p) \/ AwaitHuman(p)
      PROVE  Permitted' /\ HitlGate'
  BY <1>8 DEF _auto_approve_permission, _handle_permission, AwaitHuman,
     respond_permission, _match_auto_approve, insert_decision
<1>9. ASSUME NEW p \in Perms, Answered(p)
      PROVE  Permitted' /\ HitlGate'
  BY <1>9 DEF Answered, Signal, _signal_abort, AtThreshold
<1>10. ASSUME NEW p \in Perms, RejectThreshold(p) \/ _wait_for_decision(p)
           \/ Expire(p) \/ Default(p)
      PROVE  Permitted' /\ HitlGate'
  BY <1>10 DEF RejectThreshold, _wait_for_decision, Expire, Default,
     Signal, _signal_abort, expire_decision, Lapse, _resolve_hitl_timeout_policy
<1>11. ASSUME NEW p \in Perms, Respond(p) \/ Restore(p)
      PROVE  Permitted' /\ HitlGate'
  BY <1>11 DEF Respond, Restore, respond_permission
<1>12. ASSUME NEW d \in Decisions, NEW c \in DecisionChoice, submit_decision(d, c)
      PROVE  Permitted' /\ HitlGate'
  BY <1>12 DEF submit_decision
<1>13. CASE UNCHANGED vars
  BY <1>13
<1>14. QED
  BY <1>1, <1>2, <1>3, <1>4, <1>5, <1>6, <1>7, <1>8, <1>9, <1>10,
     <1>11, <1>12, <1>13
     DEF Next, MainStep, PlanStep, SseStep, HandlerStep

\* The background tasks are stopped wherever main goes on without them.
LEMMA TasksStep ==
  ASSUME TypeOK, TasksStopped, NoLeakedTasks, [Next]_vars
  PROVE  TasksStopped' /\ NoLeakedTasks'
<1> USE DriverAssumption DEF vars, endVars, textVars, permVars, countVars,
      decVars, abortVars, TypeOK, TasksStopped, NoLeakedTasks, Settled, Over, Planning,
      TaskStates
<1>1. CASE _run_inner \/ SessionFails \/ prompt_async \/ PromptFails
           \/ FirstCompleted \/ TaskCancelled
  BY <1>1 DEF _run_inner, SessionFails, prompt_async, PromptFails,
     FirstCompleted, TaskCancelled, Leave, Stopped, Cancel
<1>2. CASE _handle_plan_approval \/ PlanAwait \/ PlanAnswered \/ PlanTimeout
           \/ PlanExpire
  BY <1>2 DEF _handle_plan_approval, PlanAwait, PlanAnswered, PlanTimeout,
     PlanExpire, insert_decision, expire_decision, Lapse,
     _resolve_hitl_timeout_policy
<1>3. CASE PlanApproved \/ PlanRejected \/ StartWork \/ StartWorkFails
           \/ ExecDone
  BY <1>3 DEF PlanApproved, PlanRejected, StartWork, StartWorkFails, ExecDone,
     Approved, Signal, _signal_abort, Leave, Stopped
<1>4. CASE AfterSession \/ _collect_artifacts \/ FinalCheck \/ Close
  BY <1>4 DEF AfterSession, _collect_artifacts, FinalCheck, Close, Leave
<1>5. CASE run_timeout \/ TimeoutSwallowed
  BY <1>5 DEF run_timeout, TimeoutSwallowed, Leave, Stopped
<1>6. CASE AssistantDelta \/ SessionIdle \/ SessionError \/ SseBroken
           \/ SseAbort \/ _poll_session_idle
  <2>1. CASE AssistantDelta \/ _poll_session_idle
    BY <2>1 DEF AssistantDelta, _poll_session_idle
  <2>2. CASE SessionIdle \/ SseBroken \/ SseAbort
    BY <2>2 DEF SessionIdle, SseBroken, SseAbort, SseEnds, Streaming
  <2>3. CASE SessionError
    BY <2>3 DEF SessionError, SseEnds, Streaming
  <2> QED  BY <1>6, <2>1, <2>2, <2>3
<1>7. ASSUME NEW p \in Perms, PermissionAsked(p)
      PROVE  TasksStopped' /\ NoLeakedTasks'
  BY <1>7 DEF PermissionAsked
<1>8. ASSUME NEW p \in Perms, _auto_approve_permission(p)
           \/ _handle_permission(p) \/ AwaitHuman(p)
      PROVE  TasksStopped' /\ NoLeakedTasks'
  BY <1>8 DEF _auto_approve_permission, _handle_permission, AwaitHuman,
     respond_permission, _match_auto_approve, insert_decision
<1>9. ASSUME NEW p \in Perms, Answered(p)
      PROVE  TasksStopped' /\ NoLeakedTasks'
  BY <1>9 DEF Answered, Signal, _signal_abort, AtThreshold
<1>10. ASSUME NEW p \in Perms, RejectThreshold(p) \/ _wait_for_decision(p)
           \/ Expire(p) \/ Default(p)
      PROVE  TasksStopped' /\ NoLeakedTasks'
  BY <1>10 DEF RejectThreshold, _wait_for_decision, Expire, Default,
     Signal, _signal_abort, expire_decision, Lapse, _resolve_hitl_timeout_policy
<1>11. ASSUME NEW p \in Perms, Respond(p) \/ Restore(p)
      PROVE  TasksStopped' /\ NoLeakedTasks'
  BY <1>11 DEF Respond, Restore, respond_permission
<1>12. ASSUME NEW d \in Decisions, NEW c \in DecisionChoice, submit_decision(d, c)
      PROVE  TasksStopped' /\ NoLeakedTasks'
  BY <1>12 DEF submit_decision
<1>13. CASE UNCHANGED vars
  BY <1>13
<1>14. QED
  BY <1>1, <1>2, <1>3, <1>4, <1>5, <1>6, <1>7, <1>8, <1>9, <1>10,
     <1>11, <1>12, <1>13
     DEF Next, MainStep, PlanStep, SseStep, HandlerStep

\* A handler that is not at the threshold moves on, and counts nothing.
LEMMA OtherHandlerMoves ==
  ASSUME TypeOK, RejectLoopBroken, NEW p \in Perms, NEW s, hand[p] # "threshold",
         hand' = [hand EXCEPT ![p] = s], UNCHANGED reached, abort => abort'
  PROVE  RejectLoopBroken'
<1> USE DEF TypeOK, RejectLoopBroken
<1>1. CASE abort \/ ~reached
  BY <1>1
<1>2. ASSUME NEW q \in Perms, hand[q] = "threshold"
      PROVE  RejectLoopBroken'
  <2>1. q # p /\ hand'[q] = "threshold"
    BY <1>2
  <2> QED  BY <2>1
<1> QED  BY <1>1, <1>2

\* Reaching the threshold leads to an abort.
LEMMA RejectStep ==
  ASSUME TypeOK, RejectLoopBroken, [Next]_vars
  PROVE  RejectLoopBroken'
<1> USE DriverAssumption DEF vars, endVars, textVars, permVars, countVars,
      decVars, abortVars, TypeOK, RejectLoopBroken, Decisions
<1>1. CASE _run_inner \/ SessionFails \/ prompt_async \/ PromptFails
           \/ FirstCompleted \/ TaskCancelled
  BY <1>1 DEF _run_inner, SessionFails, prompt_async, PromptFails,
     FirstCompleted, TaskCancelled, Leave, Stopped, Cancel
<1>2. CASE _handle_plan_approval \/ PlanAwait \/ PlanAnswered \/ PlanTimeout
           \/ PlanExpire
  BY <1>2 DEF _handle_plan_approval, PlanAwait, PlanAnswered, PlanTimeout,
     PlanExpire, insert_decision, expire_decision, Lapse,
     _resolve_hitl_timeout_policy
<1>3. CASE PlanApproved \/ PlanRejected \/ StartWork \/ StartWorkFails
           \/ ExecDone
  BY <1>3 DEF PlanApproved, PlanRejected, StartWork, StartWorkFails, ExecDone,
     Approved, Signal, _signal_abort, Leave, Stopped
<1>4. CASE AfterSession \/ _collect_artifacts \/ FinalCheck \/ Close
  BY <1>4 DEF AfterSession, _collect_artifacts, FinalCheck, Close, Leave
<1>5. CASE run_timeout \/ TimeoutSwallowed
  BY <1>5 DEF run_timeout, TimeoutSwallowed, Leave, Stopped
<1>6. CASE AssistantDelta \/ SessionIdle \/ SessionError \/ SseBroken
           \/ SseAbort \/ _poll_session_idle
  BY <1>6 DEF AssistantDelta, SessionIdle, SessionError, SseBroken, SseAbort,
     _poll_session_idle, SseEnds
<1>7. ASSUME NEW p \in Perms, PermissionAsked(p)
      PROVE  RejectLoopBroken'
  BY <1>7 DEF PermissionAsked
<1>8. ASSUME NEW p \in Perms, _auto_approve_permission(p)
           \/ _handle_permission(p) \/ AwaitHuman(p)
      PROVE  RejectLoopBroken'
  <2>1. hand[p] # "threshold" /\ UNCHANGED <<reached, abort>>
    BY <1>8 DEF _auto_approve_permission, _handle_permission, AwaitHuman
  <2>2. \E s \in HandStates : hand' = [hand EXCEPT ![p] = s]
    BY <1>8 DEF _auto_approve_permission, _handle_permission, AwaitHuman, HandStates
  <2> QED  BY <2>1, <2>2, OtherHandlerMoves
<1>9. ASSUME NEW p \in Perms, Answered(p)
      PROVE  RejectLoopBroken'
  <2>1. CASE choice[p] = "approve"
    <3>1. hand[p] # "threshold" /\ hand' = [hand EXCEPT ![p] = "respond"]
          /\ UNCHANGED <<reached, abort>>
      BY <1>9, <2>1 DEF Answered
    <3> QED  BY <3>1, OtherHandlerMoves
  <2>2. CASE choice[p] = "abort"
    <3>1. abort'
      BY <1>9, <2>2 DEF Answered, Signal, _signal_abort
    <3> QED  BY <3>1
  <2>3. CASE choice[p] \notin {"approve", "abort"}
    <3>1. /\ hand[p] = "wait" /\ UNCHANGED abort
          /\ reached' = (reached \/ rejects + 1 >= _REJECT_THRESHOLD)
          /\ hand' = [hand EXCEPT ![p] = IF AtThreshold(rejects + 1) THEN "threshold"
                                         ELSE "respond"]
      BY <1>9, <2>3 DEF Answered
    <3>2. CASE rejects + 1 >= _REJECT_THRESHOLD
      <4>1. hand'[p] = "threshold"
        BY <3>1, <3>2 DEF AtThreshold
      <4> QED  BY <4>1
    <3>3. CASE ~(rejects + 1 >= _REJECT_THRESHOLD)
      <4>1. UNCHANGED reached /\ hand' = [hand EXCEPT ![p] = "respond"]
        BY <3>1, <3>3 DEF AtThreshold
      <4> QED  BY <3>1, <4>1, OtherHandlerMoves
    <3> QED  BY <3>2, <3>3
  <2> QED  BY <2>1, <2>2, <2>3
<1>10. ASSUME NEW p \in Perms, RejectThreshold(p) \/ _wait_for_decision(p)
           \/ Expire(p) \/ Default(p)
      PROVE  RejectLoopBroken'
  <2>1. CASE RejectThreshold(p)
    BY <2>1 DEF RejectThreshold, Signal, _signal_abort
  <2>2. CASE _wait_for_decision(p) \/ Expire(p) \/ Default(p)
    <3>1. hand[p] # "threshold" /\ UNCHANGED reached /\ (abort => abort')
      BY <2>2 DEF _wait_for_decision, Expire, Default, Signal, _signal_abort
    <3>2. \E s \in HandStates : hand' = [hand EXCEPT ![p] = s]
      BY <2>2 DEF _wait_for_decision, Expire, Default, HandStates
    <3> QED  BY <3>1, <3>2, OtherHandlerMoves
  <2> QED  BY <1>10, <2>1, <2>2
<1>11. ASSUME NEW p \in Perms, Respond(p) \/ Restore(p)
      PROVE  RejectLoopBroken'
  <2>1. hand[p] # "threshold" /\ UNCHANGED <<reached, abort>>
    BY <1>11 DEF Respond, Restore
  <2>2. \E s \in HandStates : hand' = [hand EXCEPT ![p] = s]
    BY <1>11 DEF Respond, Restore, HandStates
  <2> QED  BY <2>1, <2>2, OtherHandlerMoves
<1>12. ASSUME NEW d \in Decisions, NEW c \in DecisionChoice, submit_decision(d, c)
      PROVE  RejectLoopBroken'
  BY <1>12 DEF submit_decision
<1>13. CASE UNCHANGED vars
  BY <1>13
<1>14. QED
  BY <1>1, <1>2, <1>3, <1>4, <1>5, <1>6, <1>7, <1>8, <1>9, <1>10,
     <1>11, <1>12, <1>13
     DEF Next, MainStep, PlanStep, SseStep, HandlerStep

\* The reason of an abort keeps its cause.
LEMMA CauseStep ==
  ASSUME TypeOK, RowsOfAskers, TasksStopped, ReasonHasCause, AbortHasCause, [Next]_vars
  PROVE  ReasonHasCause' /\ AbortHasCause'
<1> USE DriverAssumption DEF vars, endVars, textVars, permVars, countVars,
      decVars, abortVars, TypeOK, RowsOfAskers, TasksStopped, ReasonHasCause,
      AbortHasCause, Cause, BeforePlan, Over, Settled, Planning, Decisions,
      DecisionChoice
<1>1. CASE _run_inner \/ SessionFails \/ prompt_async \/ PromptFails
           \/ FirstCompleted \/ TaskCancelled
  BY <1>1 DEF _run_inner, SessionFails, prompt_async, PromptFails,
     FirstCompleted, TaskCancelled, Leave, Stopped, Cancel
<1>2. CASE _handle_plan_approval \/ PlanAwait \/ PlanAnswered \/ PlanTimeout
           \/ PlanExpire
  BY <1>2 DEF _handle_plan_approval, PlanAwait, PlanAnswered, PlanTimeout,
     PlanExpire, insert_decision, expire_decision, Lapse,
     _resolve_hitl_timeout_policy
<1>3. CASE PlanApproved \/ PlanRejected \/ StartWork \/ StartWorkFails
           \/ ExecDone
  <2>1. CASE PlanRejected
    <3>1. Cause("plan_rejected")
      BY <2>1 DEF PlanRejected, Approved, _resolve_hitl_timeout_policy
    <3>2. UNCHANGED <<permVars, decVars, verdict>>
      BY <2>1 DEF PlanRejected
    <3> QED
      BY <2>1, <3>1, <3>2 DEF PlanRejected, Signal, _signal_abort, Leave
  <2>2. CASE PlanApproved \/ StartWork \/ StartWorkFails \/ ExecDone
    BY <2>2 DEF PlanApproved, StartWork, StartWorkFails, ExecDone, Leave, Stopped
  <2> QED  BY <1>3, <2>1, <2>2
<1>4. CASE AfterSession \/ _collect_artifacts \/ FinalCheck \/ Close
  BY <1>4 DEF AfterSession, _collect_artifacts, FinalCheck, Close, Leave
<1>5. CASE run_timeout \/ TimeoutSwallowed
  BY <1>5 DEF run_timeout, TimeoutSwallowed, Leave, Stopped
<1>6. CASE AssistantDelta \/ SessionIdle \/ SessionError \/ SseBroken
           \/ SseAbort \/ _poll_session_idle
  BY <1>6 DEF AssistantDelta, SessionIdle, SessionError, SseBroken, SseAbort,
     _poll_session_idle, SseEnds
<1>7. ASSUME NEW p \in Perms, PermissionAsked(p)
      PROVE  ReasonHasCause' /\ AbortHasCause'
  BY <1>7 DEF PermissionAsked
<1>8. ASSUME NEW p \in Perms, _auto_approve_permission(p)
           \/ _handle_permission(p) \/ AwaitHuman(p)
      PROVE  ReasonHasCause' /\ AbortHasCause'
  BY <1>8 DEF _auto_approve_permission, _handle_permission, AwaitHuman,
     respond_permission, _match_auto_approve, insert_decision
<1>9. ASSUME NEW p \in Perms, Answered(p)
      PROVE  ReasonHasCause' /\ AbortHasCause'
  <2>1. CASE choice[p] = "approve"
    BY <1>9, <2>1 DEF Answered
  <2>2. CASE choice[p] = "abort"
    <3>1. Signal("permission_rejected") /\ Cause("permission_rejected")
      BY <1>9, <2>2 DEF Answered
    <3>2. /\ hand' = [hand EXCEPT ![p] = "respond"]
          /\ UNCHANGED <<countVars, decVars, endVars>>
      BY <1>9, <2>2 DEF Answered
    <3> QED  BY <3>1, <3>2 DEF Signal, _signal_abort
  <2>3. CASE choice[p] \notin {"approve", "abort"}
    <3>1. /\ reached => reached'
          /\ AtThreshold(rejects + 1) => reached'
          /\ dec[p] = "resolved" /\ choice[p] \in {"reject", "revise"}
      BY <1>9, <2>3 DEF Answered, AtThreshold
    <3>2. /\ hand' = [hand EXCEPT ![p] = IF AtThreshold(rejects + 1) THEN "threshold"
                                         ELSE "respond"]
          /\ UNCHANGED <<abortVars, decVars, endVars>>
      BY <1>9, <2>3 DEF Answered
    <3> QED  BY <3>1, <3>2
  <2> QED  BY <2>1, <2>2, <2>3
<1>10. ASSUME NEW p \in Perms, RejectThreshold(p) \/ _wait_for_decision(p)
           \/ Expire(p) \/ Default(p)
      PROVE  ReasonHasCause' /\ AbortHasCause'
  <2>1. CASE RejectThreshold(p)
    <3>1. Signal("reject_threshold_exceeded") /\ Cause("reject_threshold_exceeded")
      BY <2>1 DEF RejectThreshold
    <3>2. /\ hand' = [hand EXCEPT ![p] = "respond"]
          /\ UNCHANGED <<countVars, decVars, endVars>>
      BY <2>1 DEF RejectThreshold
    <3> QED  BY <3>1, <3>2 DEF Signal, _signal_abort
  <2>2. CASE _wait_for_decision(p) \/ Expire(p)
    BY <2>2 DEF _wait_for_decision, Expire, expire_decision, Lapse
  <2>3. CASE Default(p)
    <3>1. /\ hand' = [hand EXCEPT ![p] = "respond"]
          /\ UNCHANGED <<countVars, decVars, endVars>>
      BY <2>3 DEF Default
    <3>2. CASE OnTimeout = "abort"
      <4>1. Signal("hitl_timeout") /\ Cause("hitl_timeout")
        BY <2>3, <3>2 DEF Default, _resolve_hitl_timeout_policy
      <4> QED  BY <3>1, <4>1 DEF Signal, _signal_abort
    <3>3. CASE OnTimeout # "abort"
      BY <2>3, <3>1, <3>3 DEF Default, _resolve_hitl_timeout_policy
    <3> QED  BY <3>2, <3>3
  <2> QED  BY <1>10, <2>1, <2>2, <2>3
<1>11. ASSUME NEW p \in Perms, Respond(p) \/ Restore(p)
      PROVE  ReasonHasCause' /\ AbortHasCause'
  BY <1>11 DEF Respond, Restore, respond_permission
<1>12. ASSUME NEW d \in Decisions, NEW c \in DecisionChoice, submit_decision(d, c)
      PROVE  ReasonHasCause' /\ AbortHasCause'
  BY <1>12 DEF submit_decision
<1>13. CASE UNCHANGED vars
  BY <1>13
<1>14. QED
  BY <1>1, <1>2, <1>3, <1>4, <1>5, <1>6, <1>7, <1>8, <1>9, <1>10,
     <1>11, <1>12, <1>13
     DEF Next, MainStep, PlanStep, SseStep, HandlerStep

\* The invariant holds initially.
LEMMA InitIInv == Init => IInv
<1> SUFFICES ASSUME Init
             PROVE  IInv
  OBVIOUS
<1> USE DriverAssumption DEF Init
<1>1. TypeOK
  BY DEF TypeOK, MainStates, Planning, HandStates, TaskStates, Decisions,
     DecisionChoice, Reasons
<1>2. RowsOfAskers
  BY DEF RowsOfAskers, BeforePlan, Planning, Decisions
<1>3. Permitted /\ HitlGate /\ PlanGate
  BY DEF Permitted, HitlGate, PlanGate, Allowed
<1>4. TasksStopped /\ NoLeakedTasks
  BY DEF TasksStopped, NoLeakedTasks, Settled, Over, Planning
<1>5. RejectLoopBroken
  BY DEF RejectLoopBroken
<1>6. ReasonHasCause /\ AbortHasCause
  BY DEF ReasonHasCause, AbortHasCause
<1> QED
  BY <1>1, <1>2, <1>3, <1>4, <1>5, <1>6 DEF IInv

\* The invariant IInv holds in every state of the driver.
THEOREM Invariance == Spec => []IInv
<1>1. IInv /\ [Next]_vars => IInv'
  <2> SUFFICES ASSUME IInv, [Next]_vars
               PROVE  IInv'
    OBVIOUS
  <2>1. TypeOK'
    BY TypeStep DEF IInv
  <2>2. RowsOfAskers'
    BY RowsStep DEF IInv
  <2>3. Permitted' /\ HitlGate'
    BY PermittedStep DEF IInv
  <2>4. PlanGate'
    BY <2>3 DEF Permitted, PlanGate, Allowed
  <2>5. TasksStopped' /\ NoLeakedTasks'
    BY TasksStep DEF IInv
  <2>6. RejectLoopBroken'
    BY RejectStep DEF IInv
  <2>7. ReasonHasCause' /\ AbortHasCause'
    BY CauseStep DEF IInv
  <2> QED
    BY <2>1, <2>2, <2>3, <2>4, <2>5, <2>6, <2>7 DEF IInv
<1> QED
  BY InitIInv, <1>1, PTL DEF Spec

\* The driver's state always has its types.
THEOREM TypeCorrect == Spec => []TypeOK
<1>1. IInv => TypeOK
  BY DEF IInv
<1> QED
  BY Invariance, <1>1, PTL

\* No permission is granted unless the request's own patterns, a human, or a
\* policy to continue after a timeout allow it.
THEOREM HumanInTheLoop == Spec => []HitlGate
<1>1. IInv => HitlGate
  BY DEF IInv
<1> QED
  BY Invariance, <1>1, PTL

\* No plan is executed that was neither approved nor left without an answer
\* until its deadline under a policy to continue.
THEOREM PlanIsGated == Spec => []PlanGate
<1>1. IInv => PlanGate
  BY DEF IInv
<1> QED
  BY Invariance, <1>1, PTL

\* A run that completes, aborts or fails has stopped its background tasks.
THEOREM TasksDoNotLeak == Spec => []NoLeakedTasks
<1>1. IInv => NoLeakedTasks
  BY DEF IInv
<1> QED
  BY Invariance, <1>1, PTL

\* Once the rejects in a row reach the threshold the run is aborted or about to
\* be, whatever approvals come after them.
THEOREM RejectLoopEnds == Spec => []RejectLoopBroken
<1>1. IInv => RejectLoopBroken
  BY DEF IInv
<1> QED
  BY Invariance, <1>1, PTL

\* An aborted run reports a reason that its decisions bear out: the first one
\* signalled, or that its plan was turned down.
THEOREM AbortsAreJustified == Spec => []AbortHasCause
<1>1. IInv => AbortHasCause
  BY DEF IInv
<1> QED
  BY Invariance, <1>1, PTL
=============================================================================
