---------------------------- MODULE Interceptors ----------------------------
(***************************************************************************)
(* adapters/opencode/interceptors/runner.py, InterceptorRunner, and its    *)
(* use by the driver: on_event from several coroutines, on_terminal, flush *)
(* and registration in the finally block of OpenCodeDriver.run.            *)
(*                                                                         *)
(* Main is the coroutine of run(); Others are the SSE consumer and the     *)
(* detached _handle_permission tasks, which may outlive it.  A hook runs  *)
(* from the gather that starts it to its return or exception; what it      *)
(* accumulates is the number of events it was given.                       *)
(***************************************************************************)
EXTENDS Integers, Sequences, FiniteSets

CONSTANTS
  Names,        \* names of the interceptors
  Order,        \* _interceptors: the names in registration order
  Main, Others, \* coroutines that dispatch
  ErrorBudget,  \* error_budget
  MaxEvents     \* bound: events dispatched

Dispatchers == Others \cup {Main}

ASSUME RunnerAssumption ==
  /\ Order \in Seq(Names)
  /\ \A i, j \in DOMAIN Order : Order[i] = Order[j] => i = j
  /\ Names = {Order[i] : i \in DOMAIN Order}
  /\ Main \notin Others
  /\ IsFiniteSet(Others)
  /\ ErrorBudget \in Nat \ {0} /\ MaxEvents \in Nat

VARIABLES
  phase,       \* run(): run, terminal, collect, flush, register, ended
  running,     \* running[d]: interceptors whose hook d has started and awaits
  errors,      \* _error_counts
  disabled,    \* _disabled
  seen,        \* on_event calls each interceptor has finished
  notified,    \* interceptors whose on_terminal has ended
  todo,        \* interceptors that collect_artifacts has still to flush
  flushed,     \* interceptors whose flush has ended
  arts,        \* artifacts returned by flush
  rows,        \* those registered
  refused,     \* those whose own registration was rejected or failed
  events

vars == <<phase, running, errors, disabled, seen, notified, todo, flushed, arts, rows,
          refused, events>>
rowVars == <<rows, refused>>
flushVars == <<todo, flushed, arts, rows, refused>>

Init ==
  /\ phase = "run"
  /\ running = [d \in Dispatchers |-> {}]
  /\ errors = [n \in Names |-> 0]
  /\ disabled = {}
  /\ seen = [n \in Names |-> 0]
  /\ notified = {}
  /\ todo = <<>> /\ flushed = {} /\ arts = {} /\ rows = {} /\ refused = {}
  /\ events = 0

_active == Names \ disabled

\* Variant: > instead of >=.
_record_error_Gt(n) ==
  /\ errors' = [errors EXCEPT ![n] = @ + 1]
  /\ disabled' = IF errors[n] + 1 > ErrorBudget THEN disabled \cup {n} ELSE disabled

_record_error(n) ==
  /\ errors' = [errors EXCEPT ![n] = @ + 1]
  /\ disabled' = IF errors[n] + 1 >= ErrorBudget THEN disabled \cup {n} ELSE disabled

(***************************************************************************)
(* dispatch_event: the active interceptors are read once and their hooks   *)
(* run concurrently; the dispatcher goes on when all have ended.           *)
(***************************************************************************)
dispatch_event(d) ==
  /\ running[d] = {} /\ events < MaxEvents
  /\ d = Main => phase = "run"
  /\ running' = [running EXCEPT ![d] = _active]
  /\ events' = events + 1
  /\ UNCHANGED <<phase, errors, disabled, seen, notified, flushVars>>

\* A hook ends; an exception of it goes no further than _safe_call.
_safe_call(d, n) ==
  /\ n \in running[d]
  /\ running' = [running EXCEPT ![d] = @ \ {n}]
  /\ \/ UNCHANGED <<errors, disabled>>
     \/ _record_error(n)
  /\ IF d = Main /\ phase = "terminal"
     THEN notified' = notified \cup {n} /\ UNCHANGED seen
     ELSE seen' = [seen EXCEPT ![n] = @ + 1] /\ UNCHANGED notified
  /\ UNCHANGED <<phase, flushVars, events>>

\* _run_inner cancels the SSE consumer, the task timeout cancels main inside
\* _run_inner: CancelledError is not an Exception, so the hooks the dispatcher
\* awaited are cancelled and no error is counted.
CancelDispatch(d) ==
  /\ d \in Others \/ phase = "run"
  /\ running[d] # {}
  /\ running' = [running EXCEPT ![d] = {}]
  /\ UNCHANGED <<phase, errors, disabled, seen, notified, flushVars, events>>

(***************************************************************************)
(* _dispatch_terminal_and_flush                                            *)
(***************************************************************************)
dispatch_terminal ==
  /\ phase = "run" /\ running[Main] = {}
  /\ phase' = "terminal"
  /\ running' = [running EXCEPT ![Main] = _active]
  /\ UNCHANGED <<errors, disabled, seen, notified, flushVars, events>>

\* Variant: the hooks are started and not awaited.
TerminalDone_NoWait ==
  /\ phase = "terminal"
  /\ phase' = "collect" /\ todo' = Order
  /\ UNCHANGED <<running, errors, disabled, seen, notified, flushed, arts, rowVars,
                 events>>

TerminalDone ==
  /\ phase = "terminal" /\ running[Main] = {}
  /\ phase' = "collect" /\ todo' = Order
  /\ UNCHANGED <<running, errors, disabled, seen, notified, flushed, arts, rowVars,
                 events>>

\* One after the other, in registration order; a disabled one is skipped.
collect_artifacts ==
  /\ phase = "collect" /\ todo # <<>>
  /\ IF Head(todo) \in disabled
     THEN todo' = Tail(todo) /\ UNCHANGED phase
     ELSE phase' = "flush" /\ UNCHANGED todo
  /\ UNCHANGED <<running, errors, disabled, seen, notified, flushed, arts, rowVars,
                 events>>

\* Variant: an exception of flush is not caught here but around
\* collect_artifacts, which then returns nothing to register.
_safe_call_with_return_Raises ==
  /\ phase = "flush"
  /\ \/ /\ arts' \in {arts, arts \cup {Head(todo)}}
        /\ phase' = "collect"
        /\ UNCHANGED <<errors, disabled>>
     \/ /\ _record_error(Head(todo))
        /\ phase' = "ended"
        /\ UNCHANGED arts
  /\ flushed' = flushed \cup {Head(todo)} /\ todo' = Tail(todo)
  /\ UNCHANGED <<running, seen, notified, rowVars, events>>

\* flush returns an artifact or None, or raises.
_safe_call_with_return ==
  /\ phase = "flush"
  /\ \/ arts' \in {arts, arts \cup {Head(todo)}} /\ UNCHANGED <<errors, disabled>>
     \/ _record_error(Head(todo)) /\ UNCHANGED arts
  /\ flushed' = flushed \cup {Head(todo)} /\ todo' = Tail(todo)
  /\ phase' = "collect"
  /\ UNCHANGED <<running, seen, notified, rowVars, events>>

Collected ==
  /\ phase = "collect" /\ todo = <<>>
  /\ phase' = "register"
  /\ UNCHANGED <<running, errors, disabled, seen, notified, flushVars, events>>

\* Inserted; or rejected (outside the directory, no such file, unknown type), or
\* an exception that concerns this artifact alone.
_register_interceptor_artifact(n) ==
  /\ phase = "register" /\ n \in arts \ (rows \cup refused)
  /\ \/ rows' = rows \cup {n} /\ UNCHANGED refused
     \/ refused' = refused \cup {n} /\ UNCHANGED rows
  /\ UNCHANGED <<phase, running, errors, disabled, seen, notified, todo, flushed, arts,
                 events>>

Registered ==
  /\ phase = "register" /\ arts \subseteq rows \cup refused
  /\ phase' = "ended"
  /\ UNCHANGED <<running, errors, disabled, seen, notified, flushVars, events>>

MainStep ==
  \/ dispatch_terminal \/ TerminalDone \/ collect_artifacts \/ _safe_call_with_return
  \/ Collected \/ Registered \/ \E n \in Names : _register_interceptor_artifact(n)

Next ==
  \/ \E d \in Dispatchers : dispatch_event(d) \/ CancelDispatch(d)
  \/ \E d \in Dispatchers, n \in Names : _safe_call(d, n)
  \/ MainStep

Spec == Init /\ [][Next]_vars

(***************************************************************************)
(* Properties                                                              *)
(***************************************************************************)
\* Every variable has its type; interceptors that reached the budget, and no
\* others, are disabled (_record_error).
TypeOK ==
  /\ phase \in {"run", "terminal", "collect", "flush", "register", "ended"}
  /\ running \in [Dispatchers -> SUBSET Names]
  /\ errors \in [Names -> Nat] /\ seen \in [Names -> Nat]
  /\ disabled = {n \in Names : errors[n] >= ErrorBudget}
  /\ notified \subseteq Names /\ flushed \subseteq Names
  /\ todo \in Seq(Names) /\ (phase = "flush" => todo # <<>>)
  /\ arts \subseteq Names /\ rows \subseteq Names /\ refused \subseteq Names
  /\ events \in 0..MaxEvents

\* An interceptor that keeps raising is stopped: past the budget only the calls
\* that were under way when it was disabled can still fail, at most one for each
\* dispatcher but the one whose error disabled it, and a flush under way.
ErrorsBounded ==
  \A n \in Names : errors[n] <= ErrorBudget + Cardinality(Others)

\* flush runs once on_terminal of the interceptor has ended, also when
\* interceptors are disabled between the two (lifecycle of EventInterceptor).
FlushAfterTerminal == flushed \subseteq notified

\* An interceptor that raises, in flush or before, costs the run its own artifact
\* and no other: when run() has ended every interceptor still enabled has been
\* flushed, and every artifact a flush returned is registered or was refused by
\* itself (collect_artifacts, _dispatch_terminal_and_flush).
OthersKept ==
  phase = "ended" => _active \subseteq flushed /\ arts = rows \cup refused

(***************************************************************************)
(* Statements of the repository the code does not meet                     *)
(***************************************************************************)
\* "同一拦截器实例的 on_event 调用是串行的": on_event of one interceptor is never
\* under way twice.
SerialOnEvent ==
  \A n \in Names : Cardinality({d \in Dispatchers : n \in running[d]}) <= 1

\* "累积式：保存到子类实例字段；终态时由 flush 统一落盘": an event given to an
\* interceptor is in what flush writes.
FlushSeesEveryEvent ==
  [][\A n \in Names : n \in flushed => seen'[n] = seen[n]]_vars
=============================================================================
