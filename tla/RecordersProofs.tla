--------------------------- MODULE RecordersProofs ---------------------------
(***************************************************************************)
(* Proofs about the built-in interceptors, for any uses, any limits and    *)
(* any number of events.                                                   *)
(***************************************************************************)
EXTENDS Recorders, FiniteSetTheorems, WellFoundedInduction, TLAPS

(***************************************************************************)
(* The pending tables                                                      *)
(***************************************************************************)
LEMMA LeastElement ==
  ASSUME NEW I \in SUBSET Nat, I # {}
  PROVE  Min(I) \in I
<1>1. PICK x \in I : \A y \in I : ~(<<y, x>> \in OpToRel(<, Nat))
  BY NatLessThanWellFounded, WFMin
<1>2. OpToRel(<, Nat) = {ss \in Nat \X Nat : ss[1] < ss[2]}
  BY DEF OpToRel
<1>3. \A y \in I : ~(y < x)
  BY <1>1, <1>2
<1>4. \A y \in I : x <= y
  BY <1>3
<1> QED BY <1>4 DEF Min

LEMMA ConcatFacts ==
  ASSUME NEW S, NEW a \in Seq(S), NEW b \in Seq(S)
  PROVE  /\ a \o b \in Seq(S) /\ Len(a \o b) = Len(a) + Len(b)
         /\ \A i \in 1..Len(a) : (a \o b)[i] = a[i]
         /\ \A i \in 1..Len(b) : (a \o b)[Len(a) + i] = b[i]
OBVIOUS

\* dict.pop: only the entry of u goes.
LEMMA PopFacts ==
  ASSUME NEW S, NEW s \in Seq(S), NEW u
  PROVE  /\ RemoveFirst(s, u) \in Seq(S)
         /\ \A v : v # u /\ Contains(s, v) => Contains(RemoveFirst(s, u), v)
         /\ \A v : Contains(RemoveFirst(s, u), v) => Contains(s, v)
<1>1. CASE ~Contains(s, u)
  BY <1>1 DEF RemoveFirst, Contains
<1>2. CASE Contains(s, u)
  <2> DEFINE I == {j \in 1..Len(s) : s[j] = u}
             i == Min(I)
             t == RemoveAt(s, i)
  <2>1. RemoveFirst(s, u) = t
    BY <1>2 DEF RemoveFirst, SelectInSeq, Contains
  <2>2. i \in 1..Len(s) /\ s[i] = u
    <3>1. I # {} /\ I \in SUBSET Nat
      BY <1>2 DEF Contains
    <3>2. i \in I
      BY <3>1, LeastElement
    <3> QED BY <3>2
  <2> HIDE DEF i
  <2>3. /\ t \in Seq(S) /\ Len(t) = Len(s) - 1 /\ Len(s) \in Nat
        /\ \A j \in 1..(Len(s) - 1) : t[j] = IF j < i THEN s[j] ELSE s[j + 1]
    <3> DEFINE a == SubSeq(s, 1, i - 1)
               b == SubSeq(s, i + 1, Len(s))
    <3>1. /\ Len(s) \in Nat /\ a \in Seq(S) /\ Len(a) = i - 1
          /\ \A j \in 1..(i - 1) : a[j] = s[j]
      BY <2>2
    <3>2. /\ b \in Seq(S) /\ Len(b) = Len(s) - i
          /\ \A j \in 1..(Len(s) - i) : b[j] = s[i + j]
      BY <2>2
    <3>3. t = a \o b
      BY DEF RemoveAt
    <3> HIDE DEF a, b, t
    <3>4. t \in Seq(S) /\ Len(t) = Len(a) + Len(b)
      BY <3>1, <3>2, <3>3, ConcatFacts
    <3>5. Len(t) = Len(s) - 1
      BY <3>1, <3>2, <3>4, <2>2
    <3>6. ASSUME NEW j \in 1..(Len(s) - 1) PROVE t[j] = IF j < i THEN s[j] ELSE s[j + 1]
      <4>1. CASE j < i
        BY <3>1, <3>2, <3>3, <4>1, <2>2
      <4>2. CASE ~(j < i)
        <5>1. j - (i - 1) \in 1..(Len(s) - i) /\ i + (j - (i - 1)) = j + 1
          BY <3>1, <4>2, <2>2
        <5>2. t[j] = b[j - (i - 1)]
          <6>1. Len(a) = i - 1 /\ Len(b) = Len(s) - i
            BY <3>1, <3>2
          <6>2. Len(a) + (j - (i - 1)) = j /\ j - (i - 1) \in 1..Len(b)
            BY <5>1, <6>1, <2>2
          <6>3. \A k \in 1..Len(b) : t[Len(a) + k] = b[k]
            BY <3>1, <3>2, <3>3, ConcatFacts
          <6> QED BY ONLY <6>2, <6>3
        <5> QED BY <3>2, <4>2, <5>1, <5>2
      <4> QED BY <4>1, <4>2
    <3> QED BY <3>1, <3>4, <3>5, <3>6
  <2> HIDE DEF t
  <2>4. ASSUME NEW v, v # u, Contains(s, v) PROVE Contains(t, v)
    <3>1. PICK j \in 1..Len(s) : s[j] = v
      BY <2>4 DEF Contains
    <3>2. CASE j < i
      BY <2>2, <2>3, <3>1, <3>2 DEF Contains
    <3>3. CASE j > i
      <4>1. j - 1 \in 1..(Len(s) - 1) /\ ~(j - 1 < i) /\ (j - 1) + 1 = j
        BY <2>2, <2>3, <3>3
      <4> QED BY <2>3, <3>1, <4>1 DEF Contains
    <3> QED BY <2>2, <2>3, <2>4, <3>1, <3>2, <3>3
  <2>5. \A v : Contains(t, v) => Contains(s, v)
    BY <2>2, <2>3 DEF Contains
  <2> QED BY <2>1, <2>3, <2>4, <2>5
<1> QED BY <1>1, <1>2

\* _stash_pending enters u; nothing else goes unless the table was full.
LEMMA StashFacts ==
  ASSUME NEW s \in Seq(Uses), NEW u \in Uses
  PROVE  /\ _stash_pending(s, u) \in Seq(Uses)
         /\ \A v : Contains(_stash_pending(s, u), v) => v = u \/ Contains(s, v)
         /\ ~(Len(s) >= MaxPending) =>
              \A v : v = u \/ Contains(s, v) => Contains(_stash_pending(s, u), v)
<1> DEFINE t == Oldest(s)
<1>m. MaxPending \in Nat \ {0}
  BY RecordersAssumption
<1>1. t \in Seq(Uses) /\ \A v : Contains(t, v) => Contains(s, v)
  <2>1. CASE Len(s) >= MaxPending
    <3>1. s # <<>> /\ t = Tail(s)
      BY <1>m, <2>1 DEF Oldest
    <3>2. /\ Tail(s) \in Seq(Uses) /\ Len(Tail(s)) = Len(s) - 1 /\ Len(s) \in Nat
          /\ \A i \in 1..Len(Tail(s)) : Tail(s)[i] = s[i + 1]
      BY <3>1
    <3> QED BY <3>1, <3>2 DEF Contains
  <2>2. CASE ~(Len(s) >= MaxPending)
    BY <2>2 DEF Oldest
  <2> QED BY <2>1, <2>2
<1>2. ~(Len(s) >= MaxPending) => t = s
  BY DEF Oldest
<1> HIDE DEF t
<1>3. /\ Append(t, u) \in Seq(Uses) /\ Len(Append(t, u)) = Len(t) + 1 /\ Len(t) \in Nat
      /\ \A i \in 1..Len(t) : Append(t, u)[i] = t[i]
      /\ Append(t, u)[Len(t) + 1] = u
  BY <1>1
<1>4. \A v : Contains(Append(t, u), v) <=> v = u \/ Contains(t, v)
  BY <1>3 DEF Contains
<1>5. _stash_pending(s, u) = IF Contains(t, u) THEN t ELSE Append(t, u)
  BY DEF _stash_pending, t
<1> QED BY <1>1, <1>2, <1>3, <1>4, <1>5

(***************************************************************************)
(* The inductive invariants                                                *)
(***************************************************************************)
Event == [kind : {"delta", "message", "started", "finished"}, use : Uses \cup {"none"}]
Start(u) == [kind |-> "started", use |-> u]
Finish(u) == [kind |-> "finished", use |-> u]
Started(u) == \E i \in 1..Len(heard) : heard[i] = Start(u)
Complete(u) ==
  \E i, j \in 1..Len(heard) : i < j /\ heard[i] = Start(u) /\ heard[j] = Finish(u)

\* A pending or processed call was reported, and what was reported is pending or
\* processed unless the table overflowed.
CallsFit(u) ==
  /\ Contains(pending, u) => Started(u)
  /\ u \in processed => Complete(u)
  /\ call_count[u] = IF u \in processed /\ u \in McpTools THEN 1 ELSE 0
  /\ ~evicted /\ Started(u) => u \in processed \/ Contains(pending, u)
  /\ ~evicted /\ Complete(u) => u \in processed

McpInv ==
  /\ heard \in Seq(Event) /\ pending \in Seq(Uses) /\ processed \in SUBSET Uses
  /\ evicted \in BOOLEAN /\ call_count \in [Uses -> Nat]
  /\ \A u \in Uses : CallsFit(u)

\* A recorded directory is a whole copy, its source is remembered and it is never
\* written again; the index is written once, at the end.
Copy == [source : {RunDir[u] : u \in Uses}, dest : Nat \X Nat]
BacktestInv ==
  /\ records \in Seq(Copy) /\ now \in Nat /\ auto \in Nat
  /\ \A i \in 1..Len(records) :
       /\ records[i].source \in copied
       /\ records[i].dest \in DOMAIN dirs
       /\ dirs[records[i].dest] = records[i].source
  /\ \A i, j \in 1..Len(records) :
       i # j => records[i].dest # records[j].dest /\ records[i].source # records[j].source
  /\ index = <<>> \/ (phase = "flushed" /\ index = records)

(***************************************************************************)
(* McpFieldRecorder                                                        *)
(***************************************************************************)
\* What hearing one more event adds.
LEMMA HeardOne ==
  ASSUME heard \in Seq(Event), NEW e \in Event, heard' = Append(heard, e)
  PROVE  /\ heard' \in Seq(Event)
         /\ \A u : Started(u)' <=> Started(u) \/ e = Start(u)
         /\ \A u : Complete(u)' <=> Complete(u) \/ (Started(u) /\ e = Finish(u))
<1>1. /\ heard' \in Seq(Event) /\ Len(heard') = Len(heard) + 1 /\ Len(heard) \in Nat
      /\ \A i \in 1..Len(heard) : heard'[i] = heard[i]
      /\ heard'[Len(heard) + 1] = e
  OBVIOUS
<1>2. \A u : Started(u)' <=> Started(u) \/ e = Start(u)
  BY <1>1 DEF Started, Start
<1>3. ASSUME NEW u PROVE Complete(u)' <=> Complete(u) \/ (Started(u) /\ e = Finish(u))
  <2>1. Complete(u) => Complete(u)'
    BY <1>1 DEF Complete, Start, Finish
  <2>2. Started(u) /\ e = Finish(u) => Complete(u)'
    BY <1>1 DEF Complete, Started, Start, Finish
  <2>3. ASSUME Complete(u)' PROVE Complete(u) \/ (Started(u) /\ e = Finish(u))
    <3>1. PICK i \in 1..Len(heard'), j \in 1..Len(heard') :
            i < j /\ heard'[i] = Start(u) /\ heard'[j] = Finish(u)
      BY <2>3 DEF Complete, Start, Finish
    <3>2. i \in 1..Len(heard) /\ heard[i] = Start(u)
      BY <1>1, <3>1
    <3>3. CASE j \in 1..Len(heard)
      BY <1>1, <3>1, <3>2, <3>3 DEF Complete
    <3>4. CASE j = Len(heard) + 1
      BY <1>1, <3>1, <3>2, <3>4 DEF Started
    <3> QED BY <1>1, <3>3, <3>4
  <2> QED BY <2>1, <2>2, <2>3
<1> QED BY <1>1, <1>2, <1>3

LEMMA McpStep == ASSUME McpInv, [Next]_vars PROVE McpInv'
<1>t. /\ heard \in Seq(Event) /\ pending \in Seq(Uses) /\ processed \in SUBSET Uses
      /\ evicted \in BOOLEAN /\ call_count \in [Uses -> Nat]
      /\ \A u \in Uses : CallsFit(u)
  BY DEF McpInv
\* An event that is not about a tool call.
<1>q. ASSUME NEW k \in {"delta", "message"}, heard' = Append(heard, [kind |-> k, use |-> "none"]),
             UNCHANGED mcpVars
      PROVE  McpInv'
  <2>1. [kind |-> k, use |-> "none"] \in Event
    BY DEF Event
  <2>2. \A u : [kind |-> k, use |-> "none"] # Start(u) /\ [kind |-> k, use |-> "none"] # Finish(u)
    BY DEF Start, Finish
  <2>3. /\ heard' \in Seq(Event)
        /\ \A u : (Started(u)' <=> Started(u)) /\ (Complete(u)' <=> Complete(u))
    BY <2>1, <2>2, <1>q, <1>t, HeardOne
  <2>4. UNCHANGED <<pending, processed, call_count, evicted>>
    BY <1>q DEF mcpVars
  <2>5. ASSUME NEW u \in Uses PROVE CallsFit(u)'
    BY <2>3, <2>4, <1>t DEF CallsFit
  <2> QED BY <2>3, <2>4, <2>5, <1>t DEF McpInv
<1>1. CASE assistant_delta
  BY <1>1, <1>q DEF assistant_delta, Hear
<1>2. CASE other_message
  BY <1>2, <1>q DEF other_message, Hear
<1>3. ASSUME NEW u \in Uses, tool_call_started(u) PROVE McpInv'
  <2>1. /\ heard' = Append(heard, Start(u)) /\ pending' = _stash_pending(pending, u)
        /\ evicted' = (evicted \/ Len(pending) >= MaxPending)
        /\ UNCHANGED <<processed, call_count>>
    BY <1>3 DEF tool_call_started, Hear, Mcp_started, Start
  <2>2. Start(u) \in Event /\ \A v : Start(u) # Finish(v) /\ (Start(u) = Start(v) <=> u = v)
    BY DEF Event, Start, Finish
  <2>3. /\ heard' \in Seq(Event)
        /\ \A v : (Started(v)' <=> Started(v) \/ u = v) /\ (Complete(v)' <=> Complete(v))
    BY <2>1, <2>2, <1>t, HeardOne
  <2>4. /\ pending' \in Seq(Uses)
        /\ \A v : Contains(pending', v) => v = u \/ Contains(pending, v)
        /\ ~evicted' => \A v : v = u \/ Contains(pending, v) => Contains(pending', v)
    BY <2>1, <1>t, StashFacts
  <2>5. evicted => evicted'
    BY <2>1
  <2>6. evicted' \in BOOLEAN
    BY <2>1, <1>t
  <2>7. ASSUME NEW v \in Uses PROVE CallsFit(v)'
    BY <2>1, <2>3, <2>4, <2>5, <1>t DEF CallsFit
  <2> QED BY <2>1, <2>3, <2>4, <2>6, <2>7, <1>t DEF McpInv
<1>4. ASSUME NEW u \in Uses, tool_call_finished(u) PROVE McpInv'
  <2> DEFINE first == u \notin processed /\ Contains(pending, u)
  <2>1. /\ heard' = Append(heard, Finish(u)) /\ UNCHANGED evicted
        /\ pending' = (IF first THEN RemoveFirst(pending, u) ELSE pending)
        /\ processed' = (IF first THEN processed \cup {u} ELSE processed)
        /\ call_count' = [call_count EXCEPT ![u] = @ + (IF first /\ u \in McpTools THEN 1 ELSE 0)]
    BY <1>4 DEF tool_call_finished, Hear, _aggregate_finished, Finish
  <2>2. Finish(u) \in Event /\ \A v : Finish(u) # Start(v) /\ (Finish(u) = Finish(v) <=> u = v)
    BY DEF Event, Start, Finish
  <2>3. /\ heard' \in Seq(Event)
        /\ \A v : /\ Started(v)' <=> Started(v)
                  /\ Complete(v)' <=> Complete(v) \/ (Started(v) /\ u = v)
    BY <2>1, <2>2, <1>t, HeardOne
  <2>4. /\ pending' \in Seq(Uses)
        /\ \A v : Contains(pending', v) => Contains(pending, v)
        /\ \A v : v # u /\ Contains(pending, v) => Contains(pending', v)
    BY <2>1, <1>t, PopFacts
  <2>5. ~first => pending' = pending
    BY <2>1
  <2>6. /\ call_count' \in [Uses -> Nat]
        /\ \A v \in Uses : v # u => call_count'[v] = call_count[v]
        /\ call_count'[u] = call_count[u] + (IF first /\ u \in McpTools THEN 1 ELSE 0)
    BY <2>1, <1>t
  <2>7. ASSUME NEW v \in Uses, v # u PROVE CallsFit(v)'
    BY <2>1, <2>3, <2>4, <2>6, <2>7, <1>t DEF CallsFit
  <2>8. CallsFit(u)'
    <3>1. CASE first
      <4>1. u \in processed' /\ Complete(u)'
        BY <2>1, <2>3, <3>1, <1>t DEF CallsFit
      <4>2. call_count'[u] = IF u \in McpTools THEN 1 ELSE 0
        BY <2>6, <3>1, <1>t DEF CallsFit
      <4>3. Contains(pending', u) => Started(u)'
        BY <2>3, <2>4, <1>t DEF CallsFit
      <4> QED BY <4>1, <4>2, <4>3 DEF CallsFit
    <3>2. CASE ~first
      <4>1. UNCHANGED <<pending, processed, evicted>> /\ call_count'[u] = call_count[u]
        BY <2>1, <2>6, <3>2, <1>t
      <4>2. u \in processed' => Complete(u)'
        BY <2>3, <4>1, <1>t DEF CallsFit
      <4>3. ~evicted' /\ Started(u)' => u \in processed'
        BY <2>3, <3>2, <4>1, <1>t DEF CallsFit
      <4>4. ~evicted' /\ Complete(u)' => u \in processed'
        BY <2>3, <3>2, <4>1, <1>t DEF CallsFit
      <4>5. Contains(pending', u) => Started(u)'
        BY <2>3, <4>1, <1>t DEF CallsFit
      <4>6. call_count'[u] = IF u \in processed' /\ u \in McpTools THEN 1 ELSE 0
        BY <4>1, <1>t DEF CallsFit
      <4> QED BY <4>2, <4>3, <4>4, <4>5, <4>6 DEF CallsFit
    <3> QED BY <3>1, <3>2
  <2>9. processed' \in SUBSET Uses
    BY <2>1, <1>t
  <2> QED BY <2>1, <2>3, <2>4, <2>6, <2>7, <2>8, <2>9, <1>t DEF McpInv
<1>5. ASSUME UNCHANGED heard, UNCHANGED mcpVars PROVE McpInv'
  BY <1>5 DEF McpInv, CallsFit, Started, Complete, mcpVars
<1>6. CASE on_terminal
  BY <1>6, <1>5 DEF on_terminal
<1>7. CASE flush
  BY <1>7, <1>5 DEF flush
<1>8. CASE UNCHANGED vars
  BY <1>8, <1>5 DEF vars
<1> QED BY <1>1, <1>2, <1>3, <1>4, <1>6, <1>7, <1>8 DEF Next

(***************************************************************************)
(* BacktestInterceptor                                                     *)
(***************************************************************************)
LEMMA BacktestStep == ASSUME BacktestInv, [Next]_vars PROVE BacktestInv'
<1>t. records \in Seq(Copy) /\ Len(records) \in Nat /\ now \in Nat /\ auto \in Nat
  BY DEF BacktestInv
<1>u. ASSUME UNCHANGED <<copied, records, auto, now, dirs, index>>,
             phase = "flushed" => phase' = "flushed"
      PROVE  BacktestInv'
  BY <1>u DEF BacktestInv
<1>1. CASE assistant_delta \/ other_message
  BY <1>1, <1>u DEF assistant_delta, other_message, Hear, backtestVars
<1>2. ASSUME NEW u \in Uses, tool_call_started(u) PROVE BacktestInv'
  BY <1>2, <1>u DEF tool_call_started, Hear, Backtest_started
<1>3. CASE on_terminal
  BY <1>3, <1>u DEF on_terminal, backtestVars
<1>4. CASE flush
  <2>1. /\ UNCHANGED <<copied, records, auto, now, dirs>> /\ phase' = "flushed"
        /\ index' \in {records, <<>>}
    BY <1>4 DEF flush, WriteIndex
  <2> QED BY <2>1 DEF BacktestInv
\* A new directory: no recorded one is touched.
<1>p. ASSUME NEW dest \in Nat \X Nat, dest \notin DOMAIN dirs, NEW v, dirs' = Put(dirs, dest, v)
      PROVE  /\ \A i \in 1..Len(records) :
                  /\ records[i].dest \in DOMAIN dirs' /\ records[i].dest # dest
                  /\ dirs'[records[i].dest] = records[i].source
             /\ dest \in DOMAIN dirs' /\ dirs'[dest] = v
  BY <1>p DEF BacktestInv, Put
<1>5. ASSUME NEW u \in Uses, tool_call_finished(u) PROVE BacktestInv'
  <2>1. phase # "flushed" /\ UNCHANGED <<phase, index>>
    BY <1>5 DEF tool_call_finished, Hear, _handle_finished
  <2>i. index' = <<>>
    BY <2>1 DEF BacktestInv
  <2>2. CASE UNCHANGED <<copied, records, auto, now, dirs>>
    BY <2>1, <2>2, <1>u
  <2>3. ASSUME NEW time \in {now, now + 1}, NEW labelled \in BOOLEAN,
               RunDir[u] \notin copied, CopyRun(RunDir[u], time, labelled)
        PROVE  BacktestInv'
    <3> DEFINE source == RunDir[u]
               dest == <<time, _resolve_label(labelled)>>
    <3>1. dest \in Nat \X Nat /\ now' \in Nat /\ auto' \in Nat
      BY <2>3, <1>t DEF CopyRun, _resolve_label
    <3>2. CASE UNCHANGED <<dirs, copied, records>>
      BY <2>i, <3>1, <3>2 DEF BacktestInv
    <3>3. CASE dest \notin DOMAIN dirs /\ dirs' = Put(dirs, dest, "partial")
               /\ UNCHANGED <<copied, records>>
      <4> HIDE DEF dest
      <4> QED BY <2>i, <3>1, <3>3, <1>p DEF BacktestInv
    <3>4. CASE /\ dest \notin DOMAIN dirs /\ dirs' = Put(dirs, dest, source)
               /\ copied' = copied \cup {source}
               /\ records' = Append(records, [source |-> source, dest |-> dest])
      <4> DEFINE rec == [source |-> source, dest |-> dest]
      <4>1. rec \in Copy /\ rec.source = source /\ rec.dest = dest
        BY <3>1 DEF Copy
      <4> HIDE DEF dest, source, rec
      <4>2. records' = Append(records, rec)
        BY <3>4 DEF rec
      <4>3. /\ records' \in Seq(Copy) /\ Len(records') = Len(records) + 1
            /\ \A i \in 1..Len(records) : records'[i] = records[i]
            /\ records'[Len(records) + 1] = rec
        BY <4>1, <4>2, <1>t
      <4>4. /\ \A i \in 1..Len(records) :
                 /\ records[i].dest \in DOMAIN dirs' /\ records[i].dest # dest
                 /\ dirs'[records[i].dest] = records[i].source
            /\ dest \in DOMAIN dirs' /\ dirs'[dest] = source
        BY <3>1, <3>4, <1>p
      <4>5. \A i \in 1..Len(records) : records[i].source \in copied /\ records[i].source # source
        BY <2>3 DEF BacktestInv, source
      <4>6. \A i \in 1..Len(records') :
              /\ records'[i].source \in copied'
              /\ records'[i].dest \in DOMAIN dirs'
              /\ dirs'[records'[i].dest] = records'[i].source
        BY <3>4, <4>1, <4>3, <4>4, <4>5, <1>t
      <4>7. \A i, j \in 1..Len(records') :
              i # j => /\ records'[i].dest # records'[j].dest
                       /\ records'[i].source # records'[j].source
        <5> SUFFICES ASSUME NEW i \in 1..Len(records'), NEW j \in 1..Len(records'), i # j
                     PROVE  /\ records'[i].dest # records'[j].dest
                            /\ records'[i].source # records'[j].source
          OBVIOUS
        <5>1. i \in 1..Len(records) \/ i = Len(records) + 1
          BY <4>3, <1>t
        <5>2. j \in 1..Len(records) \/ j = Len(records) + 1
          BY <4>3, <1>t
        <5>3. CASE i \in 1..Len(records) /\ j \in 1..Len(records)
          BY <4>3, <5>3 DEF BacktestInv
        <5>4. CASE i \in 1..Len(records) /\ j = Len(records) + 1
          BY <4>1, <4>3, <4>4, <4>5, <5>4
        <5>5. CASE i = Len(records) + 1 /\ j \in 1..Len(records)
          BY <4>1, <4>3, <4>4, <4>5, <5>5
        <5> QED BY <5>1, <5>2, <5>3, <5>4, <5>5
      <4> QED BY <2>i, <3>1, <4>3, <4>6, <4>7 DEF BacktestInv
    <3> QED BY <2>3, <3>2, <3>3, <3>4 DEF CopyRun, Copyable
  <2> QED BY <1>5, <2>2, <2>3 DEF tool_call_finished, _handle_finished
<1>6. CASE UNCHANGED vars
  BY <1>6, <1>u DEF vars, backtestVars
<1> QED BY <1>1, <1>2, <1>3, <1>4, <1>5, <1>6 DEF Next

(***************************************************************************)
(* The theorems about the tables                                           *)
(***************************************************************************)
LEMMA TablesInit == Init => McpInv /\ BacktestInv
<1> SUFFICES ASSUME Init PROVE McpInv /\ BacktestInv
  OBVIOUS
<1>1. McpInv
  <2>1. ASSUME NEW u \in Uses PROVE CallsFit(u)
    BY DEF Init, CallsFit, Started, Complete, Contains
  <2>2. call_count \in [Uses -> Nat]
    BY DEF Init
  <2>3. heard \in Seq(Event) /\ pending \in Seq(Uses) /\ processed \in SUBSET Uses
    BY DEF Init
  <2>4. evicted \in BOOLEAN
    BY DEF Init
  <2> QED BY <2>1, <2>2, <2>3, <2>4 DEF McpInv
<1>2. BacktestInv
  BY DEF Init, BacktestInv
<1> QED BY <1>1, <1>2

\* The inductive invariants of McpFieldRecorder and BacktestInterceptor.
THEOREM TablesInvariance == Spec => [](McpInv /\ BacktestInv)
<1>1. McpInv /\ BacktestInv /\ [Next]_vars => (McpInv /\ BacktestInv)'
  BY McpStep, BacktestStep
<1> QED BY TablesInit, <1>1, PTL DEF Spec

\* McpFieldRecorder counts a finished call of an MCP tool exactly once, however
\* often and in whatever order its start and its end are reported, unless
\* _stash_pending dropped an entry at the limit.
THEOREM CallsAreCountedOnce == Spec => []CountedOnce
<1>1. McpInv => CountedOnce
  <2> SUFFICES ASSUME McpInv, NEW u \in McpTools
               PROVE  /\ call_count[u] <= (IF Complete(u) THEN 1 ELSE 0)
                      /\ ~evicted /\ Complete(u) => call_count[u] = 1
    <3>1. DOMAIN heard = 1..Len(heard)
      BY DEF McpInv
    <3> QED BY <3>1 DEF CountedOnce, Complete, Start, Finish
  <2>1. CallsFit(u)
    BY RecordersAssumption DEF McpInv
  <2> QED BY <2>1 DEF CallsFit
<1> QED BY TablesInvariance, <1>1, PTL

\* Every directory that index.json names is a whole copy of one source and of no
\* other, however copies fail and labels and seconds coincide.
THEOREM BacktestsAreWhole == Spec => []BacktestsWhole
<1>1. BacktestInv => BacktestsWhole
  <2> SUFFICES ASSUME BacktestInv PROVE BacktestsWhole
    OBVIOUS
  <2>1. DOMAIN records = 1..Len(records) /\ Len(records) \in Nat
    BY DEF BacktestInv
  <2>2. IsPrefix(index, records)
    <3>1. CASE index = <<>>
      BY <3>1, <2>1 DEF IsPrefix
    <3>2. CASE index = records
      BY <3>2, <2>1 DEF IsPrefix
    <3> QED BY <3>1, <3>2 DEF BacktestInv
  <2> QED BY <2>1, <2>2 DEF BacktestInv, BacktestsWhole
<1> QED BY TablesInvariance, <1>1, PTL

(***************************************************************************)
(* ConversationsWriter: the inductive invariant                            *)
(***************************************************************************)
Entry == [first : Nat, last : Nat] \cup [dropped : Int]

\* The places where messages begin, in order, and the messages they delimit.
Starts == [k \in 1..Cardinality(Begins) |-> Nth(Begins, k)]
Increasing(b) == \A i, j \in 1..Len(b) : i < j => b[i] < b[j]
Enumerates(b, B) == b \in Seq(Nat) /\ Increasing(b) /\ B = {b[i] : i \in 1..Len(b)}
Part(b, n, k) == Message(b[k], IF k = Len(b) THEN n ELSE b[k + 1] - 1)
Parts(b, n, e) == [k \in 1..e |-> Part(b, n, k)]
Ended == Parts(Starts, Len(heard), Len(Starts) - (IF buffer = <<>> THEN 0 ELSE 1))

\* s is t, or its first message, a sentinel and its last messages.
Shortened(s, t) ==
  IF Len(t) <= MaxMessages THEN s = t
  ELSE /\ Len(s) = MaxMessages
       /\ s[1] = t[1] /\ "dropped" \in DOMAIN s[2]
       /\ \A k \in 3..MaxMessages : s[k] = t[Len(t) - MaxMessages + k]

\* The buffer is the message the conversation ends with, when that is text that
\* was not cut by on_terminal or flush.
BufferFits ==
  LET n == Len(heard) IN
  /\ buffer \in Seq(Nat)
  /\ buffer = <<>> => n = 0 \/ heard[n].kind # "delta" \/ Contains(cuts, n)
  /\ buffer # <<>> =>
       /\ n >= 1 /\ heard[n].kind = "delta" /\ ~Contains(cuts, n)
       /\ buffer[Len(buffer)] = n
       /\ Len(Starts) >= 1 /\ buffer[1] = Starts[Len(Starts)]
       /\ \A k \in 1..Len(cuts) : cuts[k] < buffer[1]

CutsFit ==
  /\ cuts \in Seq(Nat) /\ \A k \in 1..Len(cuts) : cuts[k] <= Len(heard)
  /\ Len(cuts) = CASE phase = "run" -> 0 [] phase = "terminal" -> 1 [] OTHER -> 2

FileFits == file = <<>> \/ (phase = "flushed" /\ file = messages)

ConvInv ==
  /\ messages \in Seq(Entry) /\ Enumerates(Starts, Begins)
  /\ BufferFits /\ CutsFit /\ FileFits /\ Shortened(messages, Ended)

(***************************************************************************)
(* Shortening and the enumeration of the messages                          *)
(***************************************************************************)
LEMMA AppendFacts ==
  ASSUME NEW S, NEW s \in Seq(S), NEW m \in S
  PROVE  /\ Append(s, m) \in Seq(S) /\ Len(Append(s, m)) = Len(s) + 1 /\ Len(s) \in Nat
         /\ \A i \in 1..Len(s) : Append(s, m)[i] = s[i]
         /\ Append(s, m)[Len(s) + 1] = m
OBVIOUS

\* _append_message keeps what was shortened before in step with the whole list.
LEMMA AppendShortened ==
  ASSUME MaxMessages >= 3, NEW s \in Seq(Entry), NEW t \in Seq(Entry), NEW m \in Entry,
         Shortened(s, t)
  PROVE  /\ _append_message(s, m) \in Seq(Entry)
         /\ Shortened(_append_message(s, m), Append(t, m))
<1> DEFINE M == MaxMessages
           s1 == Append(s, m)
           t1 == Append(t, m)
<1>m. M \in Nat /\ M >= 3
  BY RecordersAssumption
<1>s. /\ s1 \in Seq(Entry) /\ Len(s1) = Len(s) + 1 /\ Len(s) \in Nat
      /\ \A i \in 1..Len(s) : s1[i] = s[i]
      /\ s1[Len(s) + 1] = m
  BY AppendFacts
<1>t. /\ t1 \in Seq(Entry) /\ Len(t1) = Len(t) + 1 /\ Len(t) \in Nat
      /\ \A i \in 1..Len(t) : t1[i] = t[i]
      /\ t1[Len(t) + 1] = m
  BY AppendFacts
<1>e. _append_message(s, m) = Truncate(s1)
  BY DEF _append_message
<1>1. CASE Len(t) < M
  <2>1. s = t
    BY <1>1, <1>m, <1>t DEF Shortened
  <2>2. Len(s1) <= M /\ s1 = t1
    BY <2>1, <1>1, <1>m, <1>s, <1>t
  <2>3. Truncate(s1) = s1
    BY <2>2 DEF Truncate
  <2> HIDE DEF s1, t1
  <2> QED BY <2>2, <2>3, <1>e, <1>s DEF Shortened, t1
<1>2. CASE Len(t) >= M
  <2> DEFINE tail == SubSeq(s1, 4, M + 1)
             two == <<s1[1], Sentinel(Len(s1) - 1 - Len(tail))>>
             r == two \o tail
  <2>1. /\ Len(s) = M /\ s[1] = t[1]
        /\ \A k \in 3..M : s[k] = t[Len(t) - M + k]
    <3>1. CASE Len(t) = M
      <4>1. s = t
        BY <3>1, <1>m DEF Shortened
      <4>2. \A k \in 3..M : Len(t) - M + k = k
        BY <3>1, <1>m
      <4> QED BY <3>1, <4>1, <4>2
    <3>2. CASE Len(t) > M
      BY <3>2, <1>m, <1>t DEF Shortened
    <3> QED BY <3>1, <3>2, <1>2, <1>m, <1>t
  <2>2. Len(s1) = M + 1
    BY <2>1, <1>s
  <2> HIDE DEF s1, t1, M
  <2>3. /\ tail \in Seq(Entry) /\ Len(tail) = M - 2
        /\ \A k \in 1..(M - 2) : tail[k] = s1[k + 3]
    BY <2>2, <1>m, <1>s
  <2>4. LastOf(s1, M - 2) = tail
    <3>1. M - 2 > 0 /\ M - 2 < Len(s1) /\ Len(s1) - (M - 2) + 1 = 4
      BY <2>2, <1>m
    <3> QED BY <2>2, <3>1 DEF LastOf
  <2>5. Truncate(s1) = r
    <3>1. ~(Len(s1) <= M)
      BY <2>2, <1>m
    <3> QED BY <2>4, <3>1 DEF Truncate, M
  <2> HIDE DEF tail
  <2>6. two \in Seq(Entry) /\ Len(two) = 2 /\ two[1] = s1[1] /\ "dropped" \in DOMAIN two[2]
    <3>1. s1[1] \in Entry
      BY <2>2, <1>m, <1>s
    <3>2. Sentinel(Len(s1) - 1 - Len(tail)) \in Entry
      BY <2>2, <2>3, <1>m DEF Sentinel, Entry
    <3>3. "dropped" \in DOMAIN Sentinel(Len(s1) - 1 - Len(tail))
      BY DEF Sentinel
    <3> QED BY <3>1, <3>2, <3>3
  <2> HIDE DEF two
  <2>7. /\ r \in Seq(Entry) /\ Len(r) = M
        /\ r[1] = two[1] /\ r[2] = two[2]
        /\ \A k \in 1..(M - 2) : r[2 + k] = tail[k]
    <3>1. /\ r \in Seq(Entry) /\ Len(r) = Len(two) + Len(tail)
          /\ \A i \in 1..Len(two) : r[i] = two[i]
          /\ \A i \in 1..Len(tail) : r[Len(two) + i] = tail[i]
      <4>1. two \in Seq(Entry) /\ tail \in Seq(Entry)
        BY <2>3, <2>6
      <4> QED BY ONLY <4>1, ConcatFacts
    <3> HIDE DEF r
    <3> QED BY <2>3, <2>6, <3>1, <1>m
  <2> HIDE DEF r
  <2>8. ASSUME NEW k \in 3..M PROVE r[k] = t1[Len(t1) - M + k]
    <3>1. k - 2 \in 1..(M - 2) /\ 2 + (k - 2) = k /\ (k - 2) + 3 = k + 1
      BY <1>m
    <3>2. r[k] = s1[k + 1]
      BY <2>3, <2>7, <3>1
    <3>3. CASE k = M
      <4>1. s1[k + 1] = m
        BY <2>1, <3>3, <1>s
      <4>2. Len(t1) - M + k = Len(t) + 1
        BY <3>3, <1>m, <1>t
      <4> QED BY <3>2, <4>1, <4>2, <1>t
    <3>4. CASE k < M
      <4>1. k + 1 \in 3..M /\ k + 1 \in 1..Len(s)
        BY <2>1, <3>4, <1>m
      <4>2. s1[k + 1] = t[Len(t) - M + (k + 1)]
        BY <2>1, <4>1, <1>s
      <4>3. Len(t) - M + (k + 1) \in 1..Len(t) /\ Len(t1) - M + k = Len(t) - M + (k + 1)
        BY <1>2, <3>4, <1>m, <1>t
      <4> QED BY <3>2, <4>2, <4>3, <1>t
    <3> QED BY <3>3, <3>4, <1>m
  <2>9. s1[1] = t1[1]
    <3>1. 1 \in 1..Len(s) /\ 1 \in 1..Len(t)
      BY <2>1, <1>2, <1>m, <1>t
    <3> QED BY <2>1, <3>1, <1>s, <1>t
  <2>10. ~(Len(t1) <= M)
    BY <1>2, <1>m, <1>t
  <2>11. Shortened(r, t1)
    BY <2>6, <2>7, <2>8, <2>9, <2>10 DEF Shortened, M
  <2> QED BY <2>5, <2>7, <2>11, <1>e DEF t1
<1> QED BY <1>1, <1>2, <1>m, <1>t

\* The sequence that lists a set of numbers upwards is the one Nth gives.
LEMMA Sorted ==
  ASSUME NEW B, NEW b, Enumerates(b, B)
  PROVE  [k \in 1..Cardinality(B) |-> Nth(B, k)] = b
<1>0. b \in Seq(Nat) /\ Len(b) \in Nat /\ Increasing(b) /\ B = {b[i] : i \in 1..Len(b)}
  BY DEF Enumerates
<1>n. \A i \in 1..Len(b) : b[i] \in Nat
  BY <1>0
<1>1. ASSUME NEW k \in 0..Len(b)
      PROVE  /\ IsFiniteSet({b[i] : i \in 1..k})
             /\ Cardinality({b[i] : i \in 1..k}) = k
  <2> DEFINE T == {b[i] : i \in 1..k}
             f == [i \in 1..k |-> b[i]]
  <2>1. f \in Surjection(1..k, T)
    BY DEF Surjection
  <2>2. f \in Injection(1..k, T)
    <3>1. ASSUME NEW i \in 1..k, NEW j \in 1..k, b[i] = b[j] PROVE i = j
      <4>1. i \in 1..Len(b) /\ j \in 1..Len(b)
        BY <1>0
      <4> QED BY <3>1, <4>1, <1>0, <1>n DEF Increasing
    <3> QED BY <3>1 DEF Injection, IsInjective
  <2>3. IsFiniteSet(1..k) /\ Cardinality(1..k) = k
    <3>1. 1 \in Int /\ k \in Int /\ k \in Nat
      BY <1>0
    <3>2. IsFiniteSet(1..k) /\ Cardinality(1..k) = IF 1 > k THEN 0 ELSE k - 1 + 1
      BY <3>1, FS_Interval
    <3> QED BY <3>1, <3>2
  <2>4. IsFiniteSet(T) /\ Cardinality(T) = Cardinality(1..k)
    <3> HIDE DEF f, T
    <3> QED BY <2>1, <2>2, <2>3, FS_Surjection
  <2> QED BY <2>3, <2>4
<1>2. Cardinality(B) = Len(b)
  BY <1>0, <1>1
<1>3. ASSUME NEW k \in 1..Len(b) PROVE Cardinality({j \in B : j <= b[k]}) = k
  <2>1. {j \in B : j <= b[k]} = {b[i] : i \in 1..k}
    <3>1. ASSUME NEW i \in 1..Len(b) PROVE b[i] <= b[k] <=> i <= k
      <4>1. CASE i < k
        BY <4>1, <1>0, <1>n DEF Increasing
      <4>2. CASE i = k
        BY <4>2, <1>n
      <4>3. CASE i > k
        BY <4>3, <1>0, <1>n DEF Increasing
      <4> QED BY <4>1, <4>2, <4>3
    <3>2. \A i \in 1..k : i \in 1..Len(b) /\ i <= k
      BY <1>0
    <3>3. \A i \in 1..Len(b) : i <= k => i \in 1..k
      BY <1>0
    <3> QED BY <3>1, <3>2, <3>3, <1>0
  <2>2. k \in 0..Len(b)
    BY <1>0
  <2> QED BY <2>1, <2>2, <1>1
<1>4. ASSUME NEW k \in 1..Len(b) PROVE Nth(B, k) = b[k]
  <2>1. b[k] \in B /\ Cardinality({j \in B : j <= b[k]}) = k
    BY <1>0, <1>3
  <2>2. \A i \in B : Cardinality({j \in B : j <= i}) = k => i = b[k]
    <3> SUFFICES ASSUME NEW i \in B, Cardinality({j \in B : j <= i}) = k PROVE i = b[k]
      OBVIOUS
    <3>1. PICK h \in 1..Len(b) : i = b[h]
      BY <1>0
    <3>2. h = k
      BY <3>1, <1>3
    <3> QED BY <3>1, <3>2
  <2> QED BY <2>1, <2>2 DEF Nth
<1> QED BY <1>0, <1>2, <1>4

(***************************************************************************)
(* ConversationsWriter: the steps                                          *)
(***************************************************************************)
\* Where the messages of a longer conversation begin.
LEMMA BeginsGrow ==
  ASSUME heard \in Seq(Event), NEW e \in Event, heard' = Append(heard, e), cuts' = cuts
  PROVE  Begins' = Begins \cup
           (IF e.kind # "delta" \/ Len(heard) = 0 \/ heard[Len(heard)].kind # "delta"
               \/ Contains(cuts, Len(heard))
            THEN {Len(heard) + 1} ELSE {})
<1>1. /\ heard' \in Seq(Event) /\ Len(heard') = Len(heard) + 1 /\ Len(heard) \in Nat
      /\ \A i \in 1..Len(heard) : heard'[i] = heard[i]
      /\ heard'[Len(heard) + 1] = e
  BY AppendFacts
<1>2. DOMAIN heard = 1..Len(heard) /\ DOMAIN heard' = 1..(Len(heard) + 1)
  BY <1>1
<1> DEFINE P(h, i) == h[i].kind # "delta" \/ i = 1 \/ h[i - 1].kind # "delta"
                      \/ Contains(cuts, i - 1)
<1>3. Begins = {i \in 1..Len(heard) : P(heard, i)}
  BY <1>2 DEF Begins
<1>4. Begins' = {i \in 1..(Len(heard) + 1) : P(heard', i)}
  BY <1>2 DEF Begins
<1>5. ASSUME NEW i \in 1..Len(heard) PROVE P(heard', i) <=> P(heard, i)
  <2>1. heard'[i] = heard[i] /\ (i # 1 => heard'[i - 1] = heard[i - 1])
    BY <1>1
  <2> QED BY <2>1
<1>6. P(heard', Len(heard) + 1)
        <=> e.kind # "delta" \/ Len(heard) = 0 \/ heard[Len(heard)].kind # "delta"
            \/ Contains(cuts, Len(heard))
  <2>1. (Len(heard) + 1) - 1 = Len(heard) /\ (Len(heard) + 1 = 1 <=> Len(heard) = 0)
    BY <1>1
  <2>2. Len(heard) # 0 => heard'[Len(heard)] = heard[Len(heard)]
    BY <1>1
  <2> QED BY <1>1, <2>1, <2>2
<1>7. 1..(Len(heard) + 1) = (1..Len(heard)) \cup {Len(heard) + 1}
  BY <1>1
<1>8. Len(heard) + 1 \notin 1..Len(heard)
  BY <1>1
<1> HIDE DEF P
<1> QED BY <1>3, <1>4, <1>5, <1>6, <1>7, <1>8

LEMMA StartsGrow ==
  ASSUME heard \in Seq(Event), Enumerates(Starts, Begins),
         Begins' = Begins \cup {Len(heard) + 1}
  PROVE  Starts' = Append(Starts, Len(heard) + 1) /\ Enumerates(Starts, Begins)'
<1> DEFINE n == Len(heard)
           b == Append(Starts, n + 1)
<1>1. /\ Starts \in Seq(Nat) /\ n \in Nat /\ Increasing(Starts)
      /\ Begins = {Starts[i] : i \in 1..Len(Starts)}
  BY DEF Enumerates
<1>2. /\ b \in Seq(Nat) /\ Len(b) = Len(Starts) + 1 /\ Len(Starts) \in Nat
      /\ \A i \in 1..Len(Starts) : b[i] = Starts[i]
      /\ b[Len(Starts) + 1] = n + 1
  <2>1. n + 1 \in Nat
    BY <1>1
  <2> QED BY ONLY <1>1, <2>1, AppendFacts
<1>3. \A i \in 1..Len(Starts) : Starts[i] \in Nat /\ Starts[i] <= n
  <2>1. \A i \in Begins : i \in 1..n
    BY <1>1 DEF Begins
  <2> QED BY <1>1, <2>1
<1> HIDE DEF b
<1>4. Increasing(b)
  <2> SUFFICES ASSUME NEW i \in 1..Len(b), NEW j \in 1..Len(b), i < j PROVE b[i] < b[j]
    BY DEF Increasing
  <2>1. i \in 1..Len(Starts)
    BY <1>2
  <2>2. CASE j \in 1..Len(Starts)
    BY <1>1, <1>2, <2>1, <2>2 DEF Increasing
  <2>3. CASE j = Len(Starts) + 1
    <3>1. b[i] \in Nat /\ b[i] <= n /\ b[j] = n + 1
      BY <1>2, <1>3, <2>1, <2>3
    <3> HIDE DEF n
    <3> QED BY <1>1, <3>1
  <2>4. j \in 1..Len(Starts) \/ j = Len(Starts) + 1
    <3> HIDE DEF n
    <3> QED BY <1>2
  <2> QED BY <2>2, <2>3, <2>4
<1>5. Begins' = {b[i] : i \in 1..Len(b)}
  <2>1. 1..Len(b) = (1..Len(Starts)) \cup {Len(Starts) + 1}
    BY ONLY <1>2
  <2>2. ASSUME NEW x
        PROVE  x \in Begins' <=> \E i \in 1..Len(b) : x = b[i]
    <3>1. x \in Begins' <=> x \in Begins \/ x = n + 1
      OBVIOUS
    <3>2. x \in Begins <=> \E i \in 1..Len(Starts) : x = Starts[i]
      BY <1>1
    <3> HIDE DEF n
    <3> QED BY ONLY <1>2, <2>1, <3>1, <3>2
  <2> QED BY ONLY <2>2
<1>6. Enumerates(b, Begins')
  BY <1>2, <1>4, <1>5 DEF Enumerates
<1>7. Starts' = b
  <2>1. [k \in 1..Cardinality(Begins') |-> Nth(Begins', k)] = b
    BY <1>6, Sorted
  <2>2. Starts' = [k \in 1..Cardinality(Begins') |-> Nth(Begins', k)]
    BY ONLY DEF Starts
  <2> QED BY ONLY <2>1, <2>2, Zenon
<1>8. Enumerates(Starts', Begins')
  BY <1>6, <1>7
<1> QED BY <1>7, <1>8 DEF b

LEMMA PartsTyped ==
  ASSUME NEW b, NEW B, Enumerates(b, B), NEW n \in Nat, NEW e \in 0..Len(b)
  PROVE  /\ Parts(b, n, e) \in Seq(Entry) /\ Len(Parts(b, n, e)) = e
         /\ \A k \in 1..e : Parts(b, n, e)[k] = Part(b, n, k)
<1>1. b \in Seq(Nat) /\ Len(b) \in Nat /\ \A i \in 1..Len(b) : b[i] \in Nat
  BY DEF Enumerates
<1>2. ASSUME NEW k \in 1..e PROVE Part(b, n, k) \in Entry
  <2>1. k \in 1..Len(b)
    BY <1>1
  <2>2. k # Len(b) => k + 1 \in 1..Len(b) /\ b[k + 1] - 1 \in Nat
    <3>1. k # Len(b) => k + 1 \in 1..Len(b) /\ k < k + 1
      BY <1>1, <2>1
    <3>2. ASSUME k # Len(b) PROVE b[k + 1] - 1 \in Nat
      <4>1. k + 1 \in 1..Len(b) /\ k < k + 1
        BY <3>1, <3>2
      <4>2. b[k] < b[k + 1]
        BY <2>1, <4>1 DEF Enumerates, Increasing
      <4>3. b[k] \in Nat /\ b[k + 1] \in Nat
        BY <1>1, <2>1, <4>1
      <4> QED BY ONLY <4>2, <4>3
    <3> QED BY <3>1, <3>2
  <2> QED BY <1>1, <2>1, <2>2 DEF Part, Message, Entry
<1>3. e \in Nat
  BY <1>1
<1> QED BY <1>2, <1>3 DEF Parts

LEMMA SameSeq ==
  ASSUME NEW S, NEW s \in Seq(S), NEW t \in Seq(S), Len(s) = Len(t),
         \A i \in 1..Len(s) : s[i] = t[i]
  PROVE  s = t
OBVIOUS

\* A message more: the one before it ends where the new one begins.
LEMMA PartsGrow ==
  ASSUME NEW b, NEW B, Enumerates(b, B), NEW C, NEW n \in Nat,
         Enumerates(Append(b, n + 1), C)
  PROVE  /\ Parts(Append(b, n + 1), n + 1, Len(b)) = Parts(b, n, Len(b))
         /\ Parts(Append(b, n + 1), n + 1, Len(b) + 1)
              = Append(Parts(b, n, Len(b)), Message(n + 1, n + 1))
<1> DEFINE c == Append(b, n + 1)
<1>0. b \in Seq(Nat) /\ Len(b) \in Nat /\ n + 1 \in Nat
  BY DEF Enumerates
<1>1. /\ Len(c) = Len(b) + 1 /\ \A i \in 1..Len(b) : c[i] = b[i]
      /\ c[Len(b) + 1] = n + 1
  BY ONLY <1>0, AppendFacts
<1> HIDE DEF c
<1>c. Enumerates(c, C)
  BY DEF c
<1>2. ASSUME NEW k \in 1..Len(b) PROVE Part(c, n + 1, k) = Part(b, n, k)
  <2>1. k # Len(c) /\ c[k] = b[k]
    BY <1>0, <1>1
  <2>2. CASE k = Len(b)
    <3>1. c[k + 1] - 1 = n
      BY <1>1, <2>2
    <3> QED BY <2>1, <2>2, <3>1 DEF Part
  <2>3. CASE k # Len(b)
    <3>1. k + 1 \in 1..Len(b)
      BY <1>0, <2>3
    <3> QED BY <1>1, <2>1, <2>3, <3>1 DEF Part
  <2> QED BY <2>2, <2>3
<1>3. Part(c, n + 1, Len(b) + 1) = Message(n + 1, n + 1)
  BY <1>1 DEF Part
<1>4. Parts(c, n + 1, Len(b)) = Parts(b, n, Len(b))
  BY <1>2 DEF Parts
<1>5. /\ Parts(b, n, Len(b)) \in Seq(Entry) /\ Len(Parts(b, n, Len(b))) = Len(b)
      /\ \A k \in 1..Len(b) : Parts(b, n, Len(b))[k] = Part(b, n, k)
  <2>1. Len(b) \in 0..Len(b)
    BY <1>0
  <2> QED BY <2>1, PartsTyped
<1>6. /\ Parts(c, n + 1, Len(b) + 1) \in Seq(Entry)
      /\ Len(Parts(c, n + 1, Len(b) + 1)) = Len(b) + 1
      /\ \A k \in 1..(Len(b) + 1) : Parts(c, n + 1, Len(b) + 1)[k] = Part(c, n + 1, k)
  <2>1. Len(b) + 1 \in 0..Len(c)
    BY <1>0, <1>1
  <2> QED BY <1>0, <1>c, <2>1, PartsTyped
<1>7. Message(n + 1, n + 1) \in Entry
  BY <1>0 DEF Message, Entry
<1> DEFINE p == Parts(b, n, Len(b))
           q == Parts(c, n + 1, Len(b) + 1)
           m == Message(n + 1, n + 1)
<1> HIDE DEF p, q, m
<1>8. /\ Append(p, m) \in Seq(Entry) /\ Len(Append(p, m)) = Len(b) + 1
      /\ \A k \in 1..Len(b) : Append(p, m)[k] = p[k]
      /\ Append(p, m)[Len(b) + 1] = m
  <2>1. p \in Seq(Entry) /\ m \in Entry /\ Len(p) = Len(b)
    BY <1>5, <1>7 DEF p, m
  <2> QED BY <2>1, AppendFacts
<1>9. ASSUME NEW k \in 1..(Len(b) + 1) PROVE q[k] = Append(p, m)[k]
  <2>1. CASE k \in 1..Len(b)
    BY <1>2, <1>5, <1>6, <1>8, <2>1 DEF p, q
  <2>2. CASE k = Len(b) + 1
    BY <1>3, <1>6, <1>8, <2>2 DEF q, m
  <2>3. Len(b) \in Nat
    BY <1>0
  <2>4. k \in 1..Len(b) \/ k = Len(b) + 1
    BY ONLY <2>3, k \in 1..(Len(b) + 1)
  <2> QED BY <2>1, <2>2, <2>4
<1>10. q = Append(p, m)
  <2>1. q \in Seq(Entry) /\ Len(q) = Len(b) + 1
    BY <1>6 DEF q
  <2>2. Len(q) = Len(Append(p, m)) /\ \A k \in 1..Len(q) : q[k] = Append(p, m)[k]
    BY <2>1, <1>8, <1>9
  <2> QED BY ONLY <2>1, <2>2, <1>8, SameSeq
<1> QED BY <1>4, <1>10 DEF c, p, q, m

\* _flush_assistant_buffer adds the message the buffer holds.
LEMMA FlushFits ==
  ASSUME MaxMessages >= 3, heard \in Seq(Event), ConvInv
  PROVE  /\ _flush_assistant_buffer(messages) \in Seq(Entry)
         /\ Shortened(_flush_assistant_buffer(messages),
                      Parts(Starts, Len(heard), Len(Starts)))
<1> DEFINE n == Len(heard)
           L == Len(Starts)
<1>0. n \in Nat /\ Enumerates(Starts, Begins) /\ L \in Nat /\ messages \in Seq(Entry)
  BY DEF ConvInv, Enumerates
<1>1. CASE buffer = <<>>
  <2>1. Len(Starts) - 0 = Len(Starts)
    BY <1>0
  <2> QED BY <1>1, <2>1 DEF _flush_assistant_buffer, ConvInv, Ended
<1>2. CASE buffer # <<>>
  <2>1. L >= 1 /\ buffer[1] = Starts[L] /\ buffer[Len(buffer)] = n
    BY <1>2 DEF ConvInv, BufferFits
  <2> DEFINE p == Parts(Starts, n, L - 1)
             q == Parts(Starts, n, L)
             m == Message(Starts[L], n)
  <2>2. L - 1 \in 0..L /\ L \in 0..L /\ (L - 1) + 1 = L
    BY <1>0, <2>1
  <2>3. Shortened(messages, p)
    BY <1>2 DEF ConvInv, Ended
  <2>4. p \in Seq(Entry) /\ Len(p) = L - 1 /\ \A k \in 1..(L - 1) : p[k] = Part(Starts, n, k)
    BY <1>0, <2>2, PartsTyped
  <2>5. q \in Seq(Entry) /\ Len(q) = L /\ \A k \in 1..L : q[k] = Part(Starts, n, k)
    BY <1>0, <2>2, PartsTyped
  <2>6. m = Part(Starts, n, L)
    BY DEF Part
  <2> HIDE DEF p, q, m, L, n
  <2>7. m \in Entry
    BY <1>0, <2>1, <2>5, <2>6
  <2>8. /\ Append(p, m) \in Seq(Entry) /\ Len(Append(p, m)) = L
        /\ \A k \in 1..(L - 1) : Append(p, m)[k] = p[k]
        /\ Append(p, m)[L] = m
    <3>1. /\ Append(p, m) \in Seq(Entry) /\ Len(Append(p, m)) = Len(p) + 1
          /\ \A k \in 1..Len(p) : Append(p, m)[k] = p[k]
          /\ Append(p, m)[Len(p) + 1] = m
      BY <2>4, <2>7, AppendFacts
    <3> QED BY <2>2, <2>4, <3>1
  <2>9. ASSUME NEW k \in 1..L PROVE q[k] = Append(p, m)[k]
    <3>1. CASE k \in 1..(L - 1)
      BY <2>4, <2>5, <2>8, <3>1
    <3>2. CASE k = L
      BY <2>5, <2>6, <2>8, <3>2
    <3>3. L \in Nat
      BY <1>0
    <3>4. k \in 1..(L - 1) \/ k = L
      BY ONLY <3>3, k \in 1..L
    <3> QED BY <3>1, <3>2, <3>4
  <2>10. q = Append(p, m)
    BY <2>5, <2>8, <2>9, SameSeq
  <2>11. /\ _append_message(messages, m) \in Seq(Entry)
         /\ Shortened(_append_message(messages, m), Append(p, m))
    BY <1>0, <2>3, <2>4, <2>7, AppendShortened
  <2>12. _flush_assistant_buffer(messages) = _append_message(messages, m)
    BY <1>2, <2>1 DEF _flush_assistant_buffer, m
  <2> QED BY <2>10, <2>11, <2>12 DEF q, L, n
<1> QED BY <1>1, <1>2

\* Every event but text: it closes the buffer and is a message of its own.
LEMMA MessageStep ==
  ASSUME MaxMessages >= 3, heard \in Seq(Event), ConvInv, phase # "flushed",
         NEW e \in Event, e.kind # "delta", heard' = Append(heard, e),
         HearMessage(Len(heard) + 1), UNCHANGED <<phase, cuts, file>>
  PROVE  ConvInv'
<1> DEFINE n == Len(heard)
           m == Message(n + 1, n + 1)
           f == _flush_assistant_buffer(messages)
<1>0. n \in Nat /\ n + 1 \in Nat /\ m \in Entry
  BY DEF Message, Entry
<1>1. /\ Len(heard') = n + 1 /\ heard'[n + 1] = e
  BY AppendFacts
<1>2. buffer' = <<>> /\ messages' = _append_message(f, m)
  BY DEF HearMessage
<1>3. Begins' = Begins \cup {n + 1}
  BY BeginsGrow
<1>4. Starts' = Append(Starts, n + 1) /\ Enumerates(Starts, Begins)' /\ Enumerates(Starts, Begins)
  BY <1>3, StartsGrow DEF ConvInv
<1>5. Parts(Starts', n + 1, Len(Starts) + 1) = Append(Parts(Starts, n, Len(Starts)), m)
  <2>1. Enumerates(Append(Starts, n + 1), Begins')
    BY <1>4
  <2> HIDE DEF n
  <2> QED BY <1>0, <1>4, <2>1, PartsGrow
<1>6. Starts \in Seq(Nat) /\ Len(Starts) \in Nat /\ Len(Starts') = Len(Starts) + 1
  <2>1. Starts \in Seq(Nat)
    BY <1>4 DEF Enumerates
  <2> QED BY <1>0, <1>4, <2>1, AppendFacts
<1>7. Ended' = Append(Parts(Starts, n, Len(Starts)), m)
  <2>1. Len(Starts') - 0 = Len(Starts) + 1
    BY <1>6
  <2> QED BY <1>1, <1>2, <1>5, <2>1 DEF Ended
<1>8. f \in Seq(Entry) /\ Shortened(f, Parts(Starts, n, Len(Starts)))
  BY FlushFits
<1>9. Parts(Starts, n, Len(Starts)) \in Seq(Entry)
  <2>1. Len(Starts) \in 0..Len(Starts)
    BY <1>6
  <2> QED BY <1>0, <1>4, <2>1, PartsTyped
<1>10. messages' \in Seq(Entry) /\ Shortened(messages', Ended')
  <2> HIDE DEF f, m
  <2>1. /\ _append_message(f, m) \in Seq(Entry)
        /\ Shortened(_append_message(f, m), Append(Parts(Starts, n, Len(Starts)), m))
    BY <1>0, <1>8, <1>9, AppendShortened
  <2> QED BY <1>2, <1>7, <2>1
<1>11. BufferFits'
  BY <1>1, <1>2 DEF BufferFits
<1>12. CutsFit'
  <2>1. cuts \in Seq(Nat) /\ \A k \in 1..Len(cuts) : cuts[k] \in Nat /\ cuts[k] <= n
    BY DEF ConvInv, CutsFit
  <2>2. \A k \in 1..Len(cuts) : cuts[k] <= n + 1
    BY <1>0, <2>1
  <2> QED BY <1>1, <2>2 DEF ConvInv, CutsFit
<1>13. FileFits'
  BY DEF ConvInv, FileFits
<1> QED BY <1>4, <1>10, <1>11, <1>12, <1>13 DEF ConvInv

\* Text goes on, or begins, the message in the buffer.
LEMMA DeltaStep ==
  ASSUME heard \in Seq(Event), ConvInv, assistant_delta
  PROVE  ConvInv'
<1> DEFINE n == Len(heard)
           e == [kind |-> "delta", use |-> "none"]
<1>a. /\ heard' = Append(heard, e) /\ phase # "flushed"
      /\ buffer' = Append(buffer, n + 1)
      /\ UNCHANGED <<phase, cuts, file, messages>>
  BY DEF assistant_delta, Hear
<1>0. n \in Nat /\ n + 1 \in Nat /\ e \in Event /\ e.kind = "delta"
  BY DEF Event
<1> HIDE DEF e
<1>1. Len(heard') = n + 1 /\ heard'[n + 1] = e
  BY <1>a, <1>0, AppendFacts
<1>b. /\ buffer \in Seq(Nat) /\ buffer' \in Seq(Nat) /\ buffer' # <<>>
      /\ Len(buffer') = Len(buffer) + 1 /\ Len(buffer) \in Nat
      /\ buffer'[Len(buffer')] = n + 1
      /\ \A i \in 1..Len(buffer) : buffer'[i] = buffer[i]
  <2>1. buffer \in Seq(Nat)
    BY DEF ConvInv, BufferFits
  <2>2. /\ buffer' \in Seq(Nat) /\ Len(buffer') = Len(buffer) + 1 /\ Len(buffer) \in Nat
        /\ buffer'[Len(buffer) + 1] = n + 1
        /\ \A i \in 1..Len(buffer) : buffer'[i] = buffer[i]
    BY <2>1, <1>a, <1>0, AppendFacts
  <2>3. buffer' # <<>>
    BY <2>2
  <2> QED BY <2>1, <2>2, <2>3
<1>c. cuts \in Seq(Nat) /\ \A k \in 1..Len(cuts) : cuts[k] \in Nat /\ cuts[k] <= n
  BY DEF ConvInv, CutsFit
<1>d. \A k \in 1..Len(cuts) : cuts[k] < n + 1 /\ cuts[k] <= n + 1
  BY <1>0, <1>c
<1>e. CutsFit' /\ FileFits'
  <2>1. CutsFit'
    BY <1>a, <1>1, <1>d DEF ConvInv, CutsFit
  <2> QED BY <1>a, <2>1 DEF ConvInv, FileFits
<1>g. ~Contains(cuts, n + 1)
  BY <1>d DEF Contains
<1>h. Enumerates(Starts, Begins) /\ Starts \in Seq(Nat) /\ Len(Starts) \in Nat
  BY DEF ConvInv, Enumerates
<1>2. CASE buffer = <<>>
  <2>1. n = 0 \/ heard[n].kind # "delta" \/ Contains(cuts, n)
    BY <1>2 DEF ConvInv, BufferFits
  <2>2. Begins' = Begins \cup {n + 1}
    BY <2>1, <1>a, <1>0, BeginsGrow
  <2>3. Starts' = Append(Starts, n + 1) /\ Enumerates(Starts, Begins)'
    BY <2>2, <1>h, StartsGrow
  <2>4. Len(Starts') = Len(Starts) + 1 /\ Starts'[Len(Starts) + 1] = n + 1
    BY <2>3, <1>h, <1>0, AppendFacts
  <2>5. Parts(Starts', n + 1, Len(Starts)) = Parts(Starts, n, Len(Starts))
    <3>1. Enumerates(Append(Starts, n + 1), Begins')
      BY <2>3
    <3> HIDE DEF n
    <3> QED BY <1>0, <1>h, <2>3, <3>1, PartsGrow
  <2>6. Ended' = Ended
    <3>1. Len(Starts') - 1 = Len(Starts) /\ Len(Starts) - 0 = Len(Starts)
      BY <2>4, <1>h
    <3>2. Ended' = Parts(Starts', n + 1, Len(Starts') - 1)
      BY <1>1, <1>b DEF Ended
    <3>3. Ended = Parts(Starts, n, Len(Starts) - 0)
      BY <1>2 DEF Ended
    <3> QED BY <2>5, <3>1, <3>2, <3>3
  <2>7. BufferFits'
    <3>1. buffer'[1] = n + 1 /\ Len(Starts') >= 1 /\ Starts'[Len(Starts')] = n + 1
      BY <2>4, <1>2, <1>b, <1>h
    <3>2. n + 1 >= 1
      BY <1>0
    <3> QED BY <1>0, <1>1, <1>a, <1>b, <1>d, <1>g, <3>1, <3>2 DEF BufferFits
  <2> QED BY <2>3, <2>6, <2>7, <1>a, <1>e DEF ConvInv
<1>3. CASE buffer # <<>>
  <2>1. /\ n >= 1 /\ heard[n].kind = "delta" /\ ~Contains(cuts, n) /\ Len(Starts) >= 1
        /\ buffer[1] = Starts[Len(Starts)]
        /\ \A k \in 1..Len(cuts) : cuts[k] < buffer[1]
    BY <1>3 DEF ConvInv, BufferFits
  <2>2. Begins' = Begins
    <3>1. n # 0
      BY <2>1, <1>0
    <3> QED BY <2>1, <3>1, <1>a, <1>0, BeginsGrow
  <2>3. Starts' = Starts /\ Enumerates(Starts, Begins)'
    <3>1. Starts' = Starts
      BY <2>2 DEF Starts
    <3> QED BY <2>2, <3>1, <1>h
  <2>4. Ended' = Ended
    <3>1. Ended' = Parts(Starts, n + 1, Len(Starts) - 1)
      BY <2>3, <1>1, <1>b DEF Ended
    <3>2. Ended = Parts(Starts, n, Len(Starts) - 1)
      BY <1>3 DEF Ended
    <3>3. \A k \in 1..(Len(Starts) - 1) : k # Len(Starts)
      BY <1>h
    <3>4. \A k \in 1..(Len(Starts) - 1) : Part(Starts, n + 1, k) = Part(Starts, n, k)
      BY <3>3 DEF Part
    <3> QED BY <3>1, <3>2, <3>4 DEF Parts
  <2>5. BufferFits'
    <3>1. buffer'[1] = buffer[1]
      <4>1. 1 \in 1..Len(buffer)
        BY <1>3, <1>b
      <4> QED BY <4>1, <1>b
    <3>2. n + 1 >= 1
      BY <1>0
    <3> QED BY <1>0, <1>1, <1>a, <1>b, <1>g, <2>1, <2>3, <3>1, <3>2 DEF BufferFits
  <2> QED BY <2>3, <2>4, <2>5, <1>a, <1>e DEF ConvInv
<1> QED BY <1>2, <1>3

\* on_terminal and the beginning of flush cut the conversation.
LEMMA CutStep ==
  ASSUME MaxMessages >= 3, heard \in Seq(Event), ConvInv, on_terminal
  PROVE  ConvInv'
<1> DEFINE n == Len(heard)
<1>0. n \in Nat /\ DOMAIN heard = 1..n
  OBVIOUS
<1>1. /\ phase \in {"run", "terminal"} /\ heard' = heard /\ file' = file
      /\ messages' = _flush_assistant_buffer(messages) /\ buffer' = <<>>
      /\ cuts' = Append(cuts, n)
      /\ phase = "run" => phase' = "terminal"
      /\ phase = "terminal" => phase' \in {"empty", "slug"}
  BY DEF on_terminal
<1>2. cuts \in Seq(Nat) /\ \A k \in 1..Len(cuts) : cuts[k] <= n
  BY DEF ConvInv, CutsFit
<1>3. /\ cuts' \in Seq(Nat) /\ Len(cuts') = Len(cuts) + 1 /\ Len(cuts) \in Nat
      /\ \A k \in 1..Len(cuts) : cuts'[k] = cuts[k]
      /\ cuts'[Len(cuts) + 1] = n
  BY <1>0, <1>1, <1>2, AppendFacts
<1>4. \A i : Contains(cuts', i) <=> Contains(cuts, i) \/ i = n
  <2>1. \A k : k \in 1..Len(cuts') <=> k \in 1..Len(cuts) \/ k = Len(cuts) + 1
    BY ONLY <1>3
  <2> QED BY ONLY <1>3, <2>1 DEF Contains
<1>5. Begins' = Begins
  <2>1. \A i \in 1..n : i - 1 # n
    BY <1>0
  <2>2. \A i \in 1..n : Contains(cuts', i - 1) <=> Contains(cuts, i - 1)
    BY <1>4, <2>1
  <2> QED BY <1>0, <1>1, <2>2 DEF Begins
<1>6. Starts' = Starts /\ Enumerates(Starts, Begins)'
  <2>1. Starts' = Starts
    BY <1>5 DEF Starts
  <2> QED BY <1>5, <2>1 DEF ConvInv
<1>7. Ended' = Parts(Starts, n, Len(Starts))
  <2>1. Len(Starts) - 0 = Len(Starts)
    BY DEF ConvInv, Enumerates
  <2> QED BY <1>1, <1>6, <2>1 DEF Ended
<1>8. messages' \in Seq(Entry) /\ Shortened(messages', Ended')
  BY <1>1, <1>7, FlushFits
<1>9. BufferFits'
  BY <1>1, <1>4 DEF BufferFits
<1>10. CutsFit'
  <2>1. \A k \in 1..Len(cuts') : cuts'[k] <= Len(heard')
    BY <1>0, <1>1, <1>2, <1>3
  <2>2. Len(cuts) = (IF phase = "run" THEN 0 ELSE 1)
    BY <1>1 DEF ConvInv, CutsFit
  <2>3. /\ phase = "run" => Len(cuts') = 1 /\ phase' = "terminal"
        /\ phase = "terminal" => Len(cuts') = 2 /\ phase' \in {"empty", "slug"}
    BY <1>1, <1>3, <2>2
  <2> QED BY <1>1, <1>3, <2>1, <2>3 DEF CutsFit
<1>11. FileFits'
  BY <1>1 DEF ConvInv, FileFits
<1> QED BY <1>6, <1>8, <1>9, <1>10, <1>11 DEF ConvInv

LEMMA ConvStep ==
  ASSUME MaxMessages >= 3, McpInv, ConvInv, [Next]_vars
  PROVE  ConvInv'
<1>0. heard \in Seq(Event)
  BY DEF McpInv
<1>1. CASE assistant_delta
  BY <1>0, <1>1, DeltaStep
<1>2. CASE other_message
  <2> DEFINE e == [kind |-> "message", use |-> "none"]
  <2>1. e \in Event /\ e.kind # "delta"
    BY DEF Event
  <2>2. /\ heard' = Append(heard, e) /\ phase # "flushed" /\ HearMessage(Len(heard) + 1)
        /\ UNCHANGED <<phase, cuts, file>>
    BY <1>2 DEF other_message, Hear
  <2> HIDE DEF e
  <2> QED BY <1>0, <2>1, <2>2, MessageStep
<1>3. ASSUME NEW u \in Uses, tool_call_started(u) \/ tool_call_finished(u) PROVE ConvInv'
  <2>1. PICK k \in {"started", "finished"} :
          /\ heard' = Append(heard, [kind |-> k, use |-> u])
          /\ phase # "flushed" /\ HearMessage(Len(heard) + 1)
          /\ UNCHANGED <<phase, cuts, file>>
    BY <1>3 DEF tool_call_started, tool_call_finished, Hear
  <2> DEFINE e == [kind |-> k, use |-> u]
  <2>2. e \in Event /\ e.kind # "delta"
    BY DEF Event
  <2>3. heard' = Append(heard, e)
    BY <2>1
  <2> HIDE DEF e
  <2> QED BY <1>0, <2>1, <2>2, <2>3, MessageStep
<1>4. CASE on_terminal
  BY <1>0, <1>4, CutStep
<1>u. ASSUME UNCHANGED <<heard, cuts, messages, buffer>>, CutsFit', FileFits' PROVE ConvInv'
  <2>1. Begins' = Begins
    BY <1>u DEF Begins
  <2>2. Starts' = Starts
    BY <2>1 DEF Starts
  <2>3. Ended' = Ended
    BY <1>u, <2>2 DEF Ended
  <2>4. BufferFits'
    BY <1>u, <2>2 DEF ConvInv, BufferFits
  <2> QED BY <1>u, <2>1, <2>2, <2>3, <2>4 DEF ConvInv
<1>5. CASE flush
  <2>1. /\ UNCHANGED <<heard, cuts, messages, buffer>>
        /\ phase \in {"slug", "empty"} /\ phase' = "flushed" /\ file' \in {messages, <<>>}
    BY <1>5 DEF flush, WriteConversation
  <2>2. CutsFit'
    BY <2>1 DEF ConvInv, CutsFit
  <2>3. FileFits'
    BY <2>1 DEF FileFits
  <2> QED BY <2>1, <2>2, <2>3, <1>u
<1>6. CASE UNCHANGED vars
  <2>1. UNCHANGED <<heard, cuts, messages, buffer, phase, file>>
    BY <1>6 DEF vars, convVars
  <2>2. CutsFit' /\ FileFits'
    BY <2>1 DEF ConvInv, CutsFit, FileFits
  <2> QED BY <2>1, <2>2, <1>u
<1> QED BY <1>1, <1>2, <1>3, <1>4, <1>5, <1>6 DEF Next

LEMMA ConvInit == ASSUME Init PROVE ConvInv
<1>1. heard = <<>> /\ cuts = <<>> /\ buffer = <<>> /\ messages = <<>> /\ phase = "run" /\ file = <<>>
  BY DEF Init
<1>2. Begins = {}
  BY <1>1 DEF Begins
<1>3. Starts = <<>>
  <2>1. Cardinality(Begins) = 0
    BY <1>2, FS_EmptySet
  <2>2. Starts = [k \in 1..0 |-> Nth(Begins, k)]
    BY <2>1 DEF Starts
  <2> QED BY <2>2
<1>4. Enumerates(Starts, Begins)
  BY <1>2, <1>3 DEF Enumerates, Increasing
<1>5. Ended = <<>>
  BY <1>1, <1>3 DEF Ended, Parts
<1>6. Shortened(messages, Ended)
  BY <1>1, <1>5, RecordersAssumption DEF Shortened
<1>7. BufferFits /\ CutsFit /\ FileFits
  BY <1>1 DEF BufferFits, CutsFit, FileFits
<1> QED BY <1>1, <1>4, <1>6, <1>7 DEF ConvInv

LEMMA KeptFromInv ==
  ASSUME MaxMessages >= 3, McpInv, ConvInv
  PROVE  ConversationKept
<1> DEFINE n == Len(heard)
           L == Len(Starts)
           e == L - (IF buffer = <<>> THEN 0 ELSE 1)
<1>m. MaxMessages \in Nat
  BY RecordersAssumption
<1>0. n \in Nat /\ Enumerates(Starts, Begins) /\ Starts \in Seq(Nat) /\ L \in Nat
  BY DEF McpInv, ConvInv, Enumerates
<1>1. e \in 0..L /\ L \in 0..L
  <2>1. buffer # <<>> => L >= 1
    BY DEF ConvInv, BufferFits
  <2> QED BY <1>0, <2>1
<1>2. Conversation = Parts(Starts, n, L)
  <2>1. DOMAIN Starts = 1..L
    BY <1>0
  <2> QED BY <2>1 DEF Conversation, Starts, Parts, Part
<1>3. /\ Parts(Starts, n, L) \in Seq(Entry) /\ Len(Parts(Starts, n, L)) = L
      /\ \A k \in 1..L : Parts(Starts, n, L)[k] = Part(Starts, n, k)
  BY <1>0, <1>1, PartsTyped
<1>4. /\ Ended \in Seq(Entry) /\ Len(Ended) = e
      /\ \A k \in 1..e : Ended[k] = Part(Starts, n, k)
  BY <1>0, <1>1, PartsTyped DEF Ended
<1>5. SubSeq(Conversation, 1, Len(Conversation) - (IF buffer = <<>> THEN 0 ELSE 1)) = Ended
  <2> DEFINE q == SubSeq(Conversation, 1, e)
  <2>1. Len(Conversation) - (IF buffer = <<>> THEN 0 ELSE 1) = e
    BY <1>2, <1>3
  <2> HIDE DEF e, L
  <2>2. q \in Seq(Entry) /\ Len(q) = e /\ \A k \in 1..e : q[k] = Conversation[k]
    BY <1>1, <1>2, <1>3
  <2>3. \A k \in 1..e : k \in 1..L
    BY <1>0, <1>1
  <2>4. \A k \in 1..e : q[k] = Ended[k]
    BY <1>2, <1>3, <1>4, <2>2, <2>3
  <2>5. Len(q) = Len(Ended) /\ \A k \in 1..Len(q) : q[k] = Ended[k]
    BY <1>4, <2>2, <2>4
  <2>6. q = Ended
    BY <1>4, <2>2, <2>5, SameSeq
  <2> QED BY <2>1, <2>6
<1>6. Shortened(messages, Ended)
  BY DEF ConvInv
<1>7. ASSUME file # <<>>, cuts[2] > 0 PROVE file[Len(file)].last >= cuts[2]
  <2>1. file = messages /\ phase = "flushed" /\ messages # <<>> /\ messages \in Seq(Entry)
    BY <1>7 DEF ConvInv, FileFits
  <2>2. Len(cuts) = 2 /\ cuts[2] \in Nat /\ cuts[2] <= n
    <3>0. Len(cuts) = CASE phase = "run" -> 0 [] phase = "terminal" -> 1 [] OTHER -> 2
      BY DEF ConvInv, CutsFit
    <3>1. cuts \in Seq(Nat) /\ \A k \in 1..Len(cuts) : cuts[k] <= n
      BY DEF ConvInv, CutsFit
    <3>2. phase # "run" /\ phase # "terminal"
      BY <2>1
    <3>3. Len(cuts) = 2
      BY ONLY <3>0, <3>2
    <3>4. 2 \in 1..Len(cuts)
      BY ONLY <3>3
    <3>5. cuts[2] \in Nat
      BY ONLY <3>1, <3>4
    <3> QED BY <3>1, <3>3, <3>4, <3>5
  <2> HIDE DEF e, L
  <2>3. e >= 1 /\ messages[Len(messages)] = Ended[e]
    <3>1. CASE e <= MaxMessages
      <4>1. messages = Ended
        BY <3>1, <1>4, <1>6 DEF Shortened
      <4>2. e # 0
        BY <2>1, <4>1, <1>4
      <4> QED BY <4>1, <4>2, <1>1, <1>4
    <3>2. CASE ~(e <= MaxMessages)
      <4>1. /\ Len(messages) = MaxMessages
            /\ \A k \in 3..MaxMessages : messages[k] = Ended[e - MaxMessages + k]
        BY <3>2, <1>4, <1>6 DEF Shortened
      <4>2. MaxMessages \in 3..MaxMessages /\ e - MaxMessages + MaxMessages = e /\ e >= 1
        BY <3>2, <1>0, <1>1, <1>m
      <4> QED BY <4>1, <4>2
    <3> QED BY <3>1, <3>2
  <2>4. e \in 1..e /\ Ended[e] = Part(Starts, n, e)
    BY <2>3, <1>0, <1>1, <1>4
  <2>5. Part(Starts, n, e).last = IF e = L THEN n ELSE Starts[e + 1] - 1
    BY DEF Part, Message, L
  <2>6. CASE buffer = <<>>
    <3>1. e = L
      BY <2>6, <1>0 DEF e
    <3> QED BY <2>1, <2>2, <2>3, <2>4, <2>5, <3>1
  <2>7. CASE buffer # <<>>
    <3>1. e # L /\ e + 1 = L
      BY <2>7, <1>0 DEF e
    <3>2. L >= 1 /\ Starts[L] = buffer[1] /\ cuts[2] < buffer[1]
      BY <2>2, <2>7 DEF ConvInv, BufferFits, L
    <3>3. Starts[L] \in Nat
      BY <1>0, <3>2 DEF L
    <3>4. Starts[L] - 1 >= cuts[2]
      BY <2>2, <3>2, <3>3
    <3> QED BY <2>1, <2>3, <2>4, <2>5, <3>1, <3>4
  <2> QED BY <2>6, <2>7
<1> QED BY <1>5, <1>6, <1>7 DEF ConversationKept, Shortened

\* ConversationsWriter keeps the conversation, with max_messages of at least 3
\* (below that the slice of the tail keeps too much): whatever text and messages
\* are interleaved and however often the list was shortened.
THEOREM ConversationIsKept == MaxMessages >= 3 => (Spec => []ConversationKept)
<1> SUFFICES ASSUME MaxMessages >= 3 PROVE Spec => []ConversationKept
  OBVIOUS
<1>1. Init => ConvInv
  BY ConvInit
<1>2. McpInv /\ ConvInv /\ [Next]_vars => ConvInv'
  BY ConvStep
<1>3. McpInv /\ ConvInv => ConversationKept
  BY KeptFromInv
<1> QED BY <1>1, <1>2, <1>3, TablesInvariance, PTL DEF Spec
=============================================================================
