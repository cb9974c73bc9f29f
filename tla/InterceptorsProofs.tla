------------------------- MODULE InterceptorsProofs -------------------------
(***************************************************************************)
(* Theorems about the interceptor runner, for every list of interceptors,  *)
(* every set of dispatching coroutines and every error budget.             *)
(***************************************************************************)
EXTENDS Interceptors, FiniteSetTheorems, TLAPS

\* Once main is past the terminal dispatch it awaits no hook of a gather.
MainIsFree == phase \notin {"run", "terminal"} => running[Main] = {}

\* on_terminal was started for every interceptor that flush may still reach, and
\* has ended once the gather has: a disabled interceptor stays disabled.
ToldOfTheEnd ==
  /\ phase = "terminal" => _active \subseteq notified \cup running[Main]
  /\ phase \notin {"run", "terminal"} => _active \subseteq notified
  /\ phase = "flush" => Head(todo) \in notified

\* The coroutines awaiting a call of n that may still raise.
Calls(n) ==
  {d \in Dispatchers : n \in running[d] \/ (d = Main /\ phase = "flush" /\ Head(todo) = n)}

\* Past the budget no call is started, so the errors to come are those of the
\* calls under way.
ErrorsToCome ==
  \A n \in Names : errors[n] >= ErrorBudget =>
    errors[n] + Cardinality(Calls(n)) <= ErrorBudget + Cardinality(Others)

\* The interceptors collect_artifacts has still to come to.
Elems(s) == {s[i] : i \in 1..Len(s)}
Waiting == Elems(todo)

\* An enabled interceptor is waiting for its flush or has been flushed, and
\* nothing but what flush returned is registered or refused.
NoneDropped ==
  /\ phase \in {"collect", "flush"} => _active \subseteq flushed \cup Waiting
  /\ phase \in {"register", "ended"} => _active \subseteq flushed
  /\ phase = "ended" => arts \subseteq rows \cup refused
  /\ rows \cup refused \subseteq arts

IInv ==
  /\ TypeOK /\ MainIsFree /\ ToldOfTheEnd /\ FlushAfterTerminal /\ ErrorsToCome
  /\ NoneDropped

-----------------------------------------------------------------------------
\* An error is counted for n alone, and whoever reaches the budget is disabled.
LEMMA RecordError ==
  ASSUME TypeOK, NEW n \in Names, _record_error(n)
  PROVE  /\ errors' \in [Names -> Nat]
         /\ errors'[n] = errors[n] + 1
         /\ \A m \in Names \ {n} : errors'[m] = errors[m]
         /\ disabled' = {m \in Names : errors'[m] >= ErrorBudget}
         /\ disabled \subseteq disabled'
<1> USE RunnerAssumption DEF TypeOK, _record_error
<1>1. /\ errors' \in [Names -> Nat]
      /\ errors'[n] = errors[n] + 1
      /\ \A m \in Names \ {n} : errors'[m] = errors[m]
  <2>1. errors \in [Names -> Nat] /\ errors' = [errors EXCEPT ![n] = @ + 1]
    OBVIOUS
  <2>2. errors[n] + 1 \in Nat
    BY ONLY <2>1, n \in Names
  <2> QED  BY ONLY <2>1, <2>2, n \in Names
<1>2. ASSUME NEW m
      PROVE  m \in disabled' <=> m \in Names /\ errors'[m] >= ErrorBudget
  <2>1. CASE m = n
    BY <1>1, <2>1
  <2>2. CASE m # n
    BY <1>1, <2>2
  <2> QED  BY <2>1, <2>2
<1>3. disabled' = {m \in Names : errors'[m] >= ErrorBudget}
  BY <1>2
<1> QED  BY <1>1, <1>3

\* Every step keeps the types, and _disabled is the interceptors at the budget.
LEMMA TypeStep ==
  ASSUME TypeOK, [Next]_vars
  PROVE  TypeOK'
<1> USE RunnerAssumption DEF vars, flushVars, rowVars, TypeOK, Dispatchers
<1>1. ASSUME NEW d \in Dispatchers, dispatch_event(d) \/ CancelDispatch(d)
      PROVE  TypeOK'
  <2>1. CASE dispatch_event(d)
    <3>1. /\ running' = [running EXCEPT ![d] = _active] /\ events < MaxEvents
          /\ events' = events + 1
          /\ UNCHANGED <<phase, errors, disabled, seen, notified, flushVars>>
      BY <2>1 DEF dispatch_event
    <3>2. running' \in [Dispatchers -> SUBSET Names]
      BY <3>1 DEF _active
    <3>3. events' \in 0..MaxEvents
      BY <3>1
    <3> QED  BY <3>1, <3>2, <3>3
  <2>2. CASE CancelDispatch(d)
    BY <2>2 DEF CancelDispatch
  <2> QED  BY <1>1, <2>1, <2>2
<1>2. ASSUME NEW d \in Dispatchers, NEW n \in Names, _safe_call(d, n)
      PROVE  TypeOK'
  <2>1. /\ errors' \in [Names -> Nat]
        /\ disabled' = {m \in Names : errors'[m] >= ErrorBudget}
    <3>1. CASE _record_error(n)
      BY <3>1, RecordError
    <3>2. CASE UNCHANGED <<errors, disabled>>
      BY <3>2
    <3> QED  BY <1>2, <3>1, <3>2 DEF _safe_call
  <2>2. running' \in [Dispatchers -> SUBSET Names]
    BY <1>2 DEF _safe_call
  <2>3. seen' \in [Names -> Nat] /\ notified' \subseteq Names
    <3>1. seen' = [seen EXCEPT ![n] = @ + 1] \/ seen' = seen
      BY <1>2 DEF _safe_call
    <3>2. notified' = notified \cup {n} \/ notified' = notified
      BY <1>2 DEF _safe_call
    <3>3. seen \in [Names -> Nat] /\ notified \subseteq Names
      OBVIOUS
    <3>4. seen' \in [Names -> Nat]
      BY ONLY <3>1, <3>3, n \in Names
    <3> QED  BY ONLY <3>2, <3>3, <3>4, n \in Names
  <2>4. UNCHANGED <<phase, flushVars, events>>
    BY <1>2 DEF _safe_call
  <2> QED  BY <2>1, <2>2, <2>3, <2>4
<1>3. CASE dispatch_terminal
  BY <1>3 DEF dispatch_terminal, _active
<1>4. CASE TerminalDone \/ Collected \/ Registered
  BY <1>4 DEF TerminalDone, Collected, Registered
<1>5. CASE collect_artifacts
  <2>1. todo # <<>> => Tail(todo) \in Seq(Names)
    OBVIOUS
  <2>2. CASE Head(todo) \in disabled
    BY <1>5, <2>1, <2>2 DEF collect_artifacts
  <2>3. CASE Head(todo) \notin disabled
    BY <1>5, <2>3 DEF collect_artifacts
  <2> QED  BY <2>2, <2>3
<1>6. CASE _safe_call_with_return
  <2>1. Tail(todo) \in Seq(Names) /\ Head(todo) \in Names
    BY <1>6 DEF _safe_call_with_return
  <2>2. /\ errors' \in [Names -> Nat]
        /\ disabled' = {m \in Names : errors'[m] >= ErrorBudget}
        /\ arts' \subseteq Names
    <3>1. CASE _record_error(Head(todo)) /\ UNCHANGED arts
      BY <2>1, <3>1, RecordError
    <3>2. CASE arts' \in {arts, arts \cup {Head(todo)}} /\ UNCHANGED <<errors, disabled>>
      BY <2>1, <3>2
    <3> QED  BY <1>6, <3>1, <3>2 DEF _safe_call_with_return
  <2> QED  BY <1>6, <2>1, <2>2 DEF _safe_call_with_return
<1>7. ASSUME NEW n \in Names, _register_interceptor_artifact(n)
      PROVE  TypeOK'
  BY <1>7 DEF _register_interceptor_artifact
<1>8. CASE UNCHANGED vars
  BY <1>8
<1> QED  BY <1>1, <1>2, <1>3, <1>4, <1>5, <1>6, <1>7, <1>8 DEF Next, MainStep

\* Main starts no gather after dispatch_terminal and leaves that one when it has
\* ended.
LEMMA MainIsFreeStep ==
  ASSUME TypeOK, MainIsFree, [Next]_vars
  PROVE  MainIsFree'
<1> USE RunnerAssumption DEF vars, flushVars, rowVars, TypeOK, Dispatchers, MainIsFree
<1>1. ASSUME NEW d \in Dispatchers, dispatch_event(d) \/ CancelDispatch(d)
      PROVE  MainIsFree'
  BY <1>1 DEF dispatch_event, CancelDispatch
<1>2. ASSUME NEW d \in Dispatchers, NEW n \in Names, _safe_call(d, n)
      PROVE  MainIsFree'
  BY <1>2 DEF _safe_call
<1>3. CASE MainStep
  BY <1>3 DEF MainStep, dispatch_terminal, TerminalDone, collect_artifacts,
     _safe_call_with_return, Collected, Registered, _register_interceptor_artifact
<1>4. CASE UNCHANGED vars
  BY <1>4
<1> QED  BY <1>1, <1>2, <1>3, <1>4 DEF Next

\* on_terminal of an interceptor has ended before its flush.
LEMMA FlushStep ==
  ASSUME TypeOK, TypeOK', MainIsFree, ToldOfTheEnd, FlushAfterTerminal, [Next]_vars
  PROVE  ToldOfTheEnd' /\ FlushAfterTerminal'
<1> USE RunnerAssumption DEF vars, flushVars, rowVars, TypeOK, Dispatchers, MainIsFree,
      ToldOfTheEnd, FlushAfterTerminal, _active
<1>1. ASSUME NEW d \in Dispatchers, dispatch_event(d)
      PROVE  ToldOfTheEnd' /\ FlushAfterTerminal'
  BY <1>1 DEF dispatch_event
<1>2. ASSUME NEW d \in Dispatchers, CancelDispatch(d)
      PROVE  ToldOfTheEnd' /\ FlushAfterTerminal'
  BY <1>2 DEF CancelDispatch
<1>3. ASSUME NEW d \in Dispatchers, NEW n \in Names, _safe_call(d, n)
      PROVE  ToldOfTheEnd' /\ FlushAfterTerminal'
  <2>1. disabled \subseteq disabled'
    BY <1>3, RecordError DEF _safe_call
  <2>2. /\ UNCHANGED <<phase, flushed, todo>>
        /\ running' = [running EXCEPT ![d] = @ \ {n}]
        /\ IF d = Main /\ phase = "terminal" THEN notified' = notified \cup {n}
           ELSE notified' = notified
    BY <1>3 DEF _safe_call
  <2>3. phase = "terminal" => Names \ disabled' \subseteq notified' \cup running'[Main]
    BY <2>1, <2>2
  <2>4. phase \notin {"run", "terminal"} => Names \ disabled' \subseteq notified'
    BY <2>1, <2>2
  <2>5. phase = "flush" => Head(todo) \in notified'
    BY <2>2
  <2>6. flushed' \subseteq notified'
    <3>1. notified \subseteq notified' /\ flushed' = flushed
      BY ONLY <2>2
    <3>2. flushed \subseteq notified
      OBVIOUS
    <3> QED  BY ONLY <3>1, <3>2
  <2> HIDE DEF TypeOK
  <2> QED  BY <2>2, <2>3, <2>4, <2>5, <2>6
<1>4. CASE dispatch_terminal
  BY <1>4 DEF dispatch_terminal
<1>5. CASE TerminalDone
  BY <1>5 DEF TerminalDone
<1>6. CASE collect_artifacts
  <2>1. Head(todo) \in Names
    BY <1>6 DEF collect_artifacts
  <2> QED  BY <1>6, <2>1 DEF collect_artifacts
<1>7. CASE _safe_call_with_return
  <2>1. disabled \subseteq disabled'
    <3>1. Head(todo) \in Names
      BY <1>7 DEF _safe_call_with_return
    <3> QED  BY <1>7, <3>1, RecordError DEF _safe_call_with_return
  <2> QED  BY <1>7, <2>1 DEF _safe_call_with_return
<1>8. CASE Collected \/ Registered \/ \E n \in Names : _register_interceptor_artifact(n)
  BY <1>8 DEF Collected, Registered, _register_interceptor_artifact
<1>9. CASE UNCHANGED vars
  BY <1>9
<1> QED
  BY <1>1, <1>2, <1>3, <1>4, <1>5, <1>6, <1>7, <1>8, <1>9 DEF Next, MainStep

\* The coroutines are finitely many, one more than Others.
LEMMA DispatcherCount ==
  /\ IsFiniteSet(Dispatchers)
  /\ Cardinality(Others) \in Nat
  /\ Cardinality(Dispatchers) = Cardinality(Others) + 1
BY RunnerAssumption, FS_AddElement, FS_CardinalityType DEF Dispatchers

\* Calls that end without an error, or without having begun, leave no more calls
\* than there were.
LEMMA FewerCalls ==
  ASSUME NEW n, Calls(n)' \subseteq Calls(n)
  PROVE  /\ Cardinality(Calls(n)') \in Nat /\ Cardinality(Calls(n)) \in Nat
         /\ Cardinality(Calls(n)') <= Cardinality(Calls(n))
<1>1. IsFiniteSet(Calls(n)) /\ IsFiniteSet(Calls(n)')
  BY DispatcherCount, FS_Subset DEF Calls, Dispatchers
<1> QED  BY <1>1, FS_Subset, FS_CardinalityType

\* A call of d that raises is one error more and one call under way less.
LEMMA CallRaises ==
  ASSUME NEW n \in Names, NEW d \in Dispatchers, TypeOK, ErrorsToCome,
         errors'[n] = errors[n] + 1,
         d \in Calls(n), Calls(n)' \subseteq Calls(n) \ {d},
         errors'[n] >= ErrorBudget
  PROVE  errors'[n] + Cardinality(Calls(n)') <= ErrorBudget + Cardinality(Others)
<1>1. IsFiniteSet(Calls(n)) /\ Cardinality(Calls(n)) <= Cardinality(Dispatchers)
  BY DispatcherCount, FS_Subset DEF Calls
<1>2. /\ IsFiniteSet(Calls(n) \ {d})
      /\ Cardinality(Calls(n) \ {d}) = Cardinality(Calls(n)) - 1
  BY <1>1, FS_RemoveElement
<1>3. Cardinality(Calls(n)') <= Cardinality(Calls(n)) - 1
  BY <1>2, FS_Subset
<1>4. Cardinality(Calls(n)') \in Nat /\ Cardinality(Calls(n)) \in Nat
  BY <1>1, <1>2, FS_Subset, FS_CardinalityType
<1>5. errors[n] \in Nat
  BY DEF TypeOK
<1>n. ErrorBudget \in Nat /\ Cardinality(Others) \in Nat
  BY RunnerAssumption, FS_CardinalityType
<1>6. CASE errors[n] >= ErrorBudget
  <2>1. errors[n] + Cardinality(Calls(n)) <= ErrorBudget + Cardinality(Others)
    BY <1>6 DEF ErrorsToCome
  <2> QED  BY ONLY <1>3, <1>4, <1>5, <1>n, <2>1, errors'[n] = errors[n] + 1
<1>7. CASE errors[n] + 1 = ErrorBudget
  <2>1. Cardinality(Calls(n)) <= Cardinality(Others) + 1
    BY <1>1, DispatcherCount
  <2> QED  BY ONLY <1>3, <1>4, <1>5, <1>7, <1>n, <2>1, errors'[n] = errors[n] + 1
<1> QED  BY <1>5, <1>6, <1>7, RunnerAssumption

\* The errors still to come past the budget only become fewer.
LEMMA ErrorsStep ==
  ASSUME TypeOK, TypeOK', MainIsFree, ErrorsToCome, [Next]_vars
  PROVE  ErrorsToCome'
<1> USE RunnerAssumption
<1> SUFFICES ASSUME NEW n \in Names, errors'[n] >= ErrorBudget
             PROVE  errors'[n] + Cardinality(Calls(n)') <= ErrorBudget + Cardinality(Others)
  BY DEF ErrorsToCome
<1>a. ASSUME errors'[n] = errors[n], Calls(n)' \subseteq Calls(n)
      PROVE  errors'[n] + Cardinality(Calls(n)') <= ErrorBudget + Cardinality(Others)
  <2>1. errors[n] + Cardinality(Calls(n)) <= ErrorBudget + Cardinality(Others)
    BY <1>a DEF ErrorsToCome
  <2>2. errors[n] \in Nat
    BY DEF TypeOK
  <2>3. /\ Cardinality(Calls(n)') <= Cardinality(Calls(n))
        /\ Cardinality(Calls(n)') \in Nat /\ Cardinality(Calls(n)) \in Nat
    BY <1>a, FewerCalls
  <2>4. ErrorBudget \in Nat /\ Cardinality(Others) \in Nat
    BY DispatcherCount
  <2> QED  BY ONLY <2>1, <2>2, <2>3, <2>4, errors'[n] = errors[n]
<1>b. errors'[n] = errors[n] => n \in disabled
  BY DEF TypeOK
<1> DEFINE Goal == errors'[n] + Cardinality(Calls(n)') <= ErrorBudget + Cardinality(Others)
<1>1. ASSUME NEW d \in Dispatchers, dispatch_event(d) \/ CancelDispatch(d)
      PROVE  Goal
  <2>1. errors'[n] = errors[n]
    BY <1>1 DEF dispatch_event, CancelDispatch
  <2>2. Calls(n)' \subseteq Calls(n)
    <3>1. CASE dispatch_event(d)
      BY <1>b, <2>1, <3>1 DEF dispatch_event, Calls, TypeOK, _active, flushVars
    <3>2. CASE CancelDispatch(d)
      BY <3>2 DEF CancelDispatch, Calls, TypeOK, flushVars
    <3> QED  BY <1>1, <3>1, <3>2
  <2> QED  BY <1>a, <2>1, <2>2
<1>2. ASSUME NEW d \in Dispatchers, NEW m \in Names, _safe_call(d, m)
      PROVE  Goal
  <2>1. Calls(n)' \subseteq Calls(n)
    BY <1>2 DEF _safe_call, Calls, TypeOK, flushVars
  <2>2. CASE errors'[n] = errors[n]
    BY <1>a, <2>1, <2>2
  <2>3. CASE m = n /\ _record_error(n)
    <3>1. d = Main => phase # "flush"
      BY <1>2 DEF _safe_call, MainIsFree
    <3>2. d \in Calls(n) /\ Calls(n)' \subseteq Calls(n) \ {d}
      BY <1>2, <2>3, <3>1 DEF _safe_call, Calls, TypeOK, flushVars
    <3>3. errors'[n] = errors[n] + 1
      BY <2>3, RecordError
    <3> QED  BY <3>2, <3>3, CallRaises
  <2>4. CASE m # n /\ _record_error(m)
    BY <2>2, <2>4, RecordError
  <2> QED  BY <1>2, <2>2, <2>3, <2>4 DEF _safe_call
<1>3. CASE dispatch_terminal
  <2>1. errors'[n] = errors[n]
    BY <1>3 DEF dispatch_terminal
  <2>2. Calls(n)' \subseteq Calls(n)
    BY <1>b, <1>3, <2>1 DEF dispatch_terminal, Calls, TypeOK, _active, flushVars
  <2> QED  BY <1>a, <2>1, <2>2
<1>4. CASE collect_artifacts
  <2>1. errors'[n] = errors[n]
    BY <1>4 DEF collect_artifacts
  <2>2. Calls(n)' \subseteq Calls(n)
    BY <1>b, <1>4, <2>1 DEF collect_artifacts, Calls
  <2> QED  BY <1>a, <2>1, <2>2
<1>5. CASE _safe_call_with_return
  <2>1. Head(todo) \in Names
    BY <1>5 DEF _safe_call_with_return, TypeOK
  <2>2. Calls(n)' \subseteq Calls(n)
    BY <1>5 DEF _safe_call_with_return, Calls
  <2>3. CASE errors'[n] = errors[n]
    BY <1>a, <2>2, <2>3
  <2>4. CASE Head(todo) = n /\ _record_error(n)
    <3>1. Main \in Calls(n) /\ Calls(n)' \subseteq Calls(n) \ {Main}
      BY <1>5, <2>4 DEF _safe_call_with_return, Calls, Dispatchers, MainIsFree
    <3>2. errors'[n] = errors[n] + 1
      BY <2>4, RecordError
    <3> QED  BY <3>1, <3>2, CallRaises DEF Dispatchers
  <2>5. CASE Head(todo) # n /\ _record_error(Head(todo))
    BY <2>1, <2>3, <2>5, RecordError
  <2> QED  BY <1>5, <2>3, <2>4, <2>5 DEF _safe_call_with_return
<1>6. CASE TerminalDone \/ Collected \/ Registered
           \/ \E m \in Names : _register_interceptor_artifact(m)
  <2>1. errors'[n] = errors[n] /\ Calls(n)' \subseteq Calls(n)
    BY <1>6 DEF TerminalDone, Collected, Registered,
       _register_interceptor_artifact, Calls, flushVars
  <2> QED  BY <1>a, <2>1
<1>7. CASE UNCHANGED vars
  <2>1. errors'[n] = errors[n] /\ Calls(n)' \subseteq Calls(n)
    BY <1>7 DEF vars, Calls
  <2> QED  BY <1>a, <2>1
<1> QED
  BY <1>1, <1>2, <1>3, <1>4, <1>5, <1>6, <1>7 DEF Next, MainStep

\* The first element of a list and those of its tail are all there are.
LEMMA HeadAndTail ==
  ASSUME NEW S, NEW s \in Seq(S), s # <<>>
  PROVE  Elems(s) \subseteq {Head(s)} \cup Elems(Tail(s))
<1> SUFFICES ASSUME NEW i \in 1..Len(s), s[i] # Head(s)
             PROVE  \E j \in 1..Len(Tail(s)) : s[i] = Tail(s)[j]
  BY DEF Elems
<1>1. i # 1
  OBVIOUS
<1>2. i - 1 \in 1..Len(Tail(s)) /\ Tail(s)[i - 1] = s[i]
  BY <1>1
<1> QED  BY <1>2

\* No enabled interceptor and no artifact drops out on the way to the end.
LEMMA KeptStep ==
  ASSUME TypeOK, NoneDropped, [Next]_vars
  PROVE  NoneDropped'
<1> USE RunnerAssumption DEF vars, flushVars, rowVars, NoneDropped, _active
<1>1. ASSUME NEW d \in Dispatchers, dispatch_event(d) \/ CancelDispatch(d)
      PROVE  NoneDropped'
  BY <1>1 DEF dispatch_event, CancelDispatch, Waiting
<1>2. ASSUME NEW d \in Dispatchers, NEW n \in Names, _safe_call(d, n)
      PROVE  NoneDropped'
  <2>1. disabled \subseteq disabled'
    BY <1>2, RecordError DEF _safe_call
  <2> QED  BY <1>2, <2>1 DEF _safe_call, Waiting
<1>3. CASE dispatch_terminal
  BY <1>3 DEF dispatch_terminal, Waiting
<1>4. CASE TerminalDone
  <2>1. DOMAIN Order = 1..Len(Order) /\ todo' = Order /\ phase' = "collect"
    BY <1>4 DEF TerminalDone
  <2>2. Names \subseteq Waiting'
    BY <2>1 DEF Waiting, Elems
  <2> QED  BY <1>4, <2>1, <2>2 DEF TerminalDone
<1>5. CASE collect_artifacts
  <2>1. todo \in Seq(Names) /\ todo # <<>>
    BY <1>5 DEF collect_artifacts, TypeOK
  <2>2. Waiting \subseteq {Head(todo)} \cup Elems(Tail(todo))
    BY <2>1, HeadAndTail DEF Waiting
  <2>3. CASE Head(todo) \in disabled
    <3>1. Waiting' = Elems(Tail(todo)) /\ phase' = "collect"
      BY <1>5, <2>3 DEF collect_artifacts, Waiting
    <3> QED  BY <1>5, <2>2, <2>3, <3>1 DEF collect_artifacts
  <2>4. CASE Head(todo) \notin disabled
    BY <1>5, <2>4 DEF collect_artifacts, Waiting
  <2> QED  BY <2>3, <2>4
<1>6. CASE _safe_call_with_return
  <2>1. todo \in Seq(Names) /\ todo # <<>> /\ Head(todo) \in Names
    BY <1>6 DEF _safe_call_with_return, TypeOK
  <2>2. Waiting \subseteq {Head(todo)} \cup Elems(Tail(todo))
    BY <2>1, HeadAndTail DEF Waiting
  <2>3. disabled \subseteq disabled' /\ arts \subseteq arts'
    BY <1>6, <2>1, RecordError DEF _safe_call_with_return
  <2>4. Waiting' = Elems(Tail(todo)) /\ flushed' = flushed \cup {Head(todo)}
    BY <1>6 DEF _safe_call_with_return, Waiting
  <2> QED  BY <1>6, <2>2, <2>3, <2>4 DEF _safe_call_with_return
<1>7. CASE Collected
  <2>1. Waiting = {}
    BY <1>7 DEF Collected, Waiting, Elems
  <2> QED  BY <1>7, <2>1 DEF Collected
<1>8. CASE Registered \/ \E n \in Names : _register_interceptor_artifact(n)
  BY <1>8 DEF Registered, _register_interceptor_artifact, Waiting
<1>9. CASE UNCHANGED vars
  BY <1>9 DEF Waiting
<1> QED
  BY <1>1, <1>2, <1>3, <1>4, <1>5, <1>6, <1>7, <1>8, <1>9 DEF Next, MainStep

-----------------------------------------------------------------------------
\* IInv is an invariant of the runner and of the finally block of run().
THEOREM Invariance == Spec => []IInv
<1>1. Init => IInv
  <2> SUFFICES ASSUME Init
               PROVE  IInv
    OBVIOUS
  <2>1. TypeOK
    BY RunnerAssumption DEF Init, TypeOK
  <2>2. MainIsFree /\ ToldOfTheEnd /\ FlushAfterTerminal
    BY DEF Init, MainIsFree, ToldOfTheEnd, FlushAfterTerminal
  <2>3. ErrorsToCome
    BY RunnerAssumption DEF Init, ErrorsToCome
  <2>4. NoneDropped
    BY DEF Init, NoneDropped
  <2> QED  BY <2>1, <2>2, <2>3, <2>4 DEF IInv
<1>2. IInv /\ [Next]_vars => IInv'
  <2> SUFFICES ASSUME IInv, [Next]_vars
               PROVE  IInv'
    OBVIOUS
  <2>1. TypeOK'
    BY TypeStep DEF IInv
  <2> QED  BY <2>1, MainIsFreeStep, FlushStep, ErrorsStep, KeptStep DEF IInv
<1> QED  BY <1>1, <1>2, PTL DEF Spec

\* Types, and an interceptor is disabled exactly when its errors have reached
\* the budget (_record_error).
THEOREM TypeCorrect == Spec => []TypeOK
<1>1. IInv => TypeOK
  BY DEF IInv
<1> QED  BY <1>1, Invariance, PTL

\* However many coroutines dispatch, an interceptor that keeps raising fails at
\* most once more for each of them past the budget.
THEOREM ErrorsAreBounded == Spec => []ErrorsBounded
<1>1. IInv => ErrorsBounded
  <2> SUFFICES ASSUME IInv, NEW n \in Names
               PROVE  errors[n] <= ErrorBudget + Cardinality(Others)
    BY DEF ErrorsBounded
  <2>1. errors[n] \in Nat
    BY DEF IInv, TypeOK
  <2>2. Cardinality(Calls(n)) \in Nat
    BY DispatcherCount, FS_Subset, FS_CardinalityType DEF Calls
  <2>3. errors[n] >= ErrorBudget =>
          errors[n] + Cardinality(Calls(n)) <= ErrorBudget + Cardinality(Others)
    BY DEF IInv, ErrorsToCome
  <2> QED  BY <2>1, <2>2, <2>3, DispatcherCount, RunnerAssumption
<1> QED  BY <1>1, Invariance, PTL

\* When run() has ended every interceptor still enabled has been flushed and every
\* artifact returned is registered or was refused by itself, whatever raised.
THEOREM ArtifactsAreKept == Spec => []OthersKept
<1>1. IInv => OthersKept
  BY DEF IInv, NoneDropped, OthersKept
<1> QED  BY <1>1, Invariance, PTL

\* flush never runs before on_terminal of the same interceptor has ended.
THEOREM FlushIsLast == Spec => []FlushAfterTerminal
<1>1. IInv => FlushAfterTerminal
  BY DEF IInv
<1> QED  BY <1>1, Invariance, PTL
=============================================================================
