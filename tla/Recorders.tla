------------------------------ MODULE Recorders ------------------------------
(***************************************************************************)
(* The built-in interceptors, adapters/opencode/interceptors:              *)
(* conversations.py (ConversationsWriter), mcp_fields.py                   *)
(* (McpFieldRecorder) and backtest.py (BacktestInterceptor).               *)
(*                                                                         *)
(* on_event has no await in its way, so each recorder takes the events one *)
(* after the other; Interceptors models how the runner calls them.  The    *)
(* recorders share no state: an event that reaches only one of them is     *)
(* one the others' histories leave out, and all histories are explored.    *)
(*                                                                         *)
(* An event is its kind and, for a tool call, the tool_use_id; it is known *)
(* by its place in what was heard.  A message is the first and the last    *)
(* event it is made of.  Text, scrubbing and slugs are left out.           *)
(***************************************************************************)
EXTENDS Integers, Sequences, FiniteSets, SequencesExt

CONSTANTS
  Uses,         \* tool_use_ids
  McpTools,     \* the uses whose tool name matches mcp_name_pattern
  Backtests,    \* the uses whose tool name matches tool_pattern
  RunDir,       \* RunDir[u]: the directory named in the arguments of u
  Mixes,        \* sets of kinds of events a task may give rise to
  MaxMessages,  \* max_messages
  MaxPending,   \* max_pending_calls
  MaxEvents     \* bound: events heard

ASSUME RecordersAssumption ==
  /\ McpTools \subseteq Uses /\ Backtests \subseteq Uses
  /\ DOMAIN RunDir = Uses
  /\ Mixes \subseteq SUBSET {"delta", "message", "started", "finished"}
  /\ MaxMessages \in Nat \ {0} /\ MaxPending \in Nat \ {0} /\ MaxEvents \in Nat

VARIABLES
  mix,         \* the kinds of events in this behaviour
  phase,       \* run, terminal, flushed; flush begun: slug (awaits the callback)
               \* or empty (no messages)
  heard,       \* history: the events of the conversation, in order
  cuts,        \* history: how many were heard at on_terminal and at flush
  messages,    \* _messages
  buffer,      \* _assistant_buffer
  file,        \* the messages in the conversation file
  pending,     \* McpFieldRecorder._pending_calls, in the order of the dict
  processed,   \* McpFieldRecorder._processed_calls
  call_count,  \* call_count, kept per use
  evicted,     \* history: a stashed call was dropped at the limit
  waiting,     \* BacktestInterceptor._pending_calls
  copied,      \* _copied_sources
  records,     \* _records
  auto,        \* _auto_counter
  now,         \* the second of the clock
  dirs,        \* content of each directory under backtests/
  index        \* the records in index.json

convVars == <<messages, buffer, file>>
mcpVars == <<pending, processed, call_count, evicted>>
backtestVars == <<waiting, copied, records, auto, now, dirs, index>>
vars == <<mix, phase, heard, cuts, convVars, mcpVars, backtestVars>>

Init ==
  /\ mix \in Mixes
  /\ phase = "run" /\ heard = <<>> /\ cuts = <<>>
  /\ messages = <<>> /\ buffer = <<>> /\ file = <<>>
  /\ pending = <<>> /\ processed = {} /\ evicted = FALSE
  /\ call_count = [u \in Uses |-> 0]
  /\ waiting = <<>> /\ copied = {} /\ records = <<>>
  /\ auto = 0 /\ now = 0 /\ dirs = <<>> /\ index = <<>>

(***************************************************************************)
(* ConversationsWriter                                                     *)
(***************************************************************************)
Message(first, last) == [first |-> first, last |-> last]
Sentinel(n) == [dropped |-> n]

\* Python's s[-k:]: the last k, everything for k = 0, and all but the first -k
\* for a negative k.
LastOf(s, k) ==
  IF k > 0 THEN SubSeq(s, IF k < Len(s) THEN Len(s) - k + 1 ELSE 1, Len(s))
  ELSE SubSeq(s, 1 - k, Len(s))

\* Variant: the sentinel is not counted.
Truncate_KeepsOneMore(s) ==
  IF Len(s) <= MaxMessages THEN s
  ELSE LET tail == LastOf(s, MaxMessages - 1)
       IN <<s[1], Sentinel(Len(s) - 1 - Len(tail))>> \o tail

\* The first message, a sentinel, and the last max_messages - 2.
Truncate(s) ==
  IF Len(s) <= MaxMessages THEN s
  ELSE LET tail == LastOf(s, MaxMessages - 2)
       IN <<s[1], Sentinel(Len(s) - 1 - Len(tail))>> \o tail

_append_message(s, m) == Truncate(Append(s, m))

_flush_assistant_buffer(s) ==
  IF buffer = <<>> THEN s ELSE _append_message(s, Message(buffer[1], buffer[Len(buffer)]))

(***************************************************************************)
(* McpFieldRecorder                                                        *)
(***************************************************************************)
\* _stash_pending, the same in both recorders: at the limit the oldest entry
\* goes, also when u has an entry already; an entry keeps its place.
Oldest(p) == IF Len(p) >= MaxPending THEN Tail(p) ELSE p

_stash_pending(p, u) == IF Contains(Oldest(p), u) THEN Oldest(p) ELSE Append(Oldest(p), u)

Mcp_started(u) ==
  /\ pending' = _stash_pending(pending, u)
  /\ evicted' = (evicted \/ Len(pending) >= MaxPending)
  /\ UNCHANGED <<processed, call_count>>

\* Variant: what was processed is not remembered.
_aggregate_finished_Forgets(u) ==
  /\ pending' = RemoveFirst(pending, u)
  /\ call_count' = [call_count EXCEPT ![u] =
       @ + (IF Contains(pending, u) /\ u \in McpTools THEN 1 ELSE 0)]
  /\ UNCHANGED <<processed, evicted>>

\* A call counts once; an entry stashed again after it stays.
_aggregate_finished(u) ==
  LET first == u \notin processed /\ Contains(pending, u) IN
  /\ pending' = IF first THEN RemoveFirst(pending, u) ELSE pending
  /\ processed' = IF first THEN processed \cup {u} ELSE processed
  /\ call_count' = [call_count EXCEPT ![u] = @ + (IF first /\ u \in McpTools THEN 1 ELSE 0)]
  /\ UNCHANGED evicted

(***************************************************************************)
(* BacktestInterceptor                                                     *)
(***************************************************************************)
Backtest_started(u) ==
  /\ waiting' = _stash_pending(waiting, u)
  /\ UNCHANGED <<copied, records, auto, now, dirs, index>>

\* The label the result carries, always the same one and written 0, or the next
\* number.
_resolve_label(labelled) == IF labelled THEN 0 ELSE auto + 1

\* Variant: dirs_exist_ok=True.
Copyable_Existing(dest) == TRUE

\* shutil.copytree creates the directory and refuses one that is there.
Copyable(dest) == dest \notin DOMAIN dirs

Put(f, k, v) == [x \in DOMAIN f \cup {k} |-> IF x = k THEN v ELSE f[x]]

\* The name has the second t and the label.  A copy that fails half-way leaves
\* what it has written, and only a complete one is recorded.
CopyRun(source, t, labelled) ==
  LET dest == <<t, _resolve_label(labelled)>> IN
  /\ now' = t
  /\ auto' = IF labelled THEN auto ELSE auto + 1
  /\ \/ /\ Copyable(dest)
        /\ dirs' = Put(dirs, dest, source)
        /\ copied' = copied \cup {source}
        /\ records' = Append(records, [source |-> source, dest |-> dest])
     \/ /\ Copyable(dest) /\ dirs' = Put(dirs, dest, "partial")
        /\ UNCHANGED <<copied, records>>
     \/ ~Copyable(dest) /\ UNCHANGED <<dirs, copied, records>>

\* The call is dropped unless it was stashed, matches and named a directory that
\* was not copied before; with an error, or without the directory, too.
_handle_finished(u) ==
  /\ waiting' = RemoveFirst(waiting, u) /\ UNCHANGED index
  /\ \/ UNCHANGED <<copied, records, auto, now, dirs>>
     \/ /\ Contains(waiting, u) /\ u \in Backtests /\ RunDir[u] \notin copied
        /\ \E t \in {now, now + 1}, labelled \in BOOLEAN : CopyRun(RunDir[u], t, labelled)

(***************************************************************************)
(* The events, on_terminal and flush                                       *)
(***************************************************************************)
Hear(kind, u) ==
  /\ kind \in mix /\ phase # "flushed" /\ Len(heard) < MaxEvents
  /\ heard' = Append(heard, [kind |-> kind, use |-> u])
  /\ UNCHANGED <<mix, phase, cuts, file>>

\* Every other event of the conversation closes the assistant's message.
HearMessage(i) ==
  /\ messages' = _append_message(_flush_assistant_buffer(messages), Message(i, i))
  /\ buffer' = <<>>

assistant_delta ==
  /\ Hear("delta", "none")
  /\ buffer' = Append(buffer, Len(heard) + 1)
  /\ UNCHANGED <<messages, mcpVars, backtestVars>>

\* initial_*_message and decision_received, which only the writer looks at.
other_message ==
  /\ Hear("message", "none")
  /\ HearMessage(Len(heard) + 1)
  /\ UNCHANGED <<mcpVars, backtestVars>>

tool_call_started(u) ==
  /\ Hear("started", u)
  /\ HearMessage(Len(heard) + 1)
  /\ Mcp_started(u)
  /\ Backtest_started(u)

tool_call_finished(u) ==
  /\ Hear("finished", u)
  /\ HearMessage(Len(heard) + 1)
  /\ _aggregate_finished(u)
  /\ _handle_finished(u)

\* on_terminal, and the beginning of flush, which awaits summarize_callback.
on_terminal ==
  /\ phase \in {"run", "terminal"}
  /\ messages' = _flush_assistant_buffer(messages) /\ buffer' = <<>>
  /\ phase' = CASE phase = "run" -> "terminal"
               [] phase = "terminal" /\ messages' = <<>> -> "empty"
               [] phase = "terminal" /\ messages' # <<>> -> "slug"
  /\ cuts' = Append(cuts, Len(heard))
  /\ UNCHANGED <<mix, heard, file, mcpVars, backtestVars>>

\* Each file is written, or an OSError is logged; there is none for a
\* conversation that was empty when flush began.
WriteConversation == file' \in {m \in {messages, <<>>} : phase = "slug" \/ m = <<>>}
WriteIndex == index' \in {records, <<>>}

flush ==
  /\ phase \in {"slug", "empty"} /\ phase' = "flushed"
  /\ WriteConversation
  /\ WriteIndex
  /\ UNCHANGED <<mix, heard, cuts, messages, buffer, mcpVars, waiting, copied, records,
                 auto, now, dirs>>

Next ==
  \/ assistant_delta \/ other_message \/ on_terminal \/ flush
  \/ \E u \in Uses : tool_call_started(u) \/ tool_call_finished(u)

Spec == Init /\ [][Next]_vars

(***************************************************************************)
(* Properties                                                              *)
(***************************************************************************)
\* The conversation as it was heard: a message begins with every event that
\* does not continue the assistant's text.
Begins ==
  {i \in DOMAIN heard : heard[i].kind # "delta" \/ i = 1 \/ heard[i - 1].kind # "delta"
                        \/ Contains(cuts, i - 1)}
Nth(S, k) == CHOOSE i \in S : Cardinality({j \in S : j <= i}) = k
Conversation ==
  LET begins == [k \in 1..Cardinality(Begins) |-> Nth(Begins, k)]
  IN [k \in DOMAIN begins |->
        Message(begins[k], IF k = Len(begins) THEN Len(heard) ELSE begins[k + 1] - 1)]

\* Whatever is interleaved with the assistant's text, and however often the list
\* was shortened, it is the conversation, complete up to max_messages and past
\* them its first message, one sentinel and its last max_messages - 2; the text
\* still in the buffer is the end of it.  A file that is written has everything
\* that was heard before flush began (_append_message, _flush_assistant_buffer).
ConversationKept ==
  LET ended == SubSeq(Conversation, 1, Len(Conversation) - (IF buffer = <<>> THEN 0 ELSE 1))
      n == Len(ended) IN
  /\ IF n <= MaxMessages THEN messages = ended
     ELSE /\ Len(messages) = MaxMessages
          /\ messages[1] = ended[1] /\ "dropped" \in DOMAIN messages[2]
          /\ \A k \in 3..MaxMessages : messages[k] = ended[n - MaxMessages + k]
  /\ file # <<>> /\ cuts[2] > 0 => file[Len(file)].last >= cuts[2]

\* A finished call of an MCP tool is counted once, however often its start and
\* its end are reported, and it is counted at all unless the table of pending
\* calls overflowed (_stash_pending, _aggregate_finished).
CountedOnce ==
  \A u \in McpTools :
    LET complete == \E i, j \in DOMAIN heard :
                      /\ i < j /\ heard[i] = [kind |-> "started", use |-> u]
                      /\ heard[j] = [kind |-> "finished", use |-> u]
    IN /\ call_count[u] <= (IF complete THEN 1 ELSE 0)
       /\ ~evicted /\ complete => call_count[u] = 1

\* Every directory the index names is a whole copy of its source and of no other,
\* through copies that fail half-way, equal labels and equal seconds, and no
\* source is there twice (_handle_finished).
BacktestsWhole ==
  /\ \A i \in DOMAIN records : dirs[records[i].dest] = records[i].source
  /\ \A i, j \in DOMAIN records :
       i # j => records[i].dest # records[j].dest /\ records[i].source # records[j].source
  /\ IsPrefix(index, records)

(***************************************************************************)
(* Statements of the repository the code does not meet                     *)
(***************************************************************************)
\* conversations.py: max_messages bounds the number of messages.  For a value
\* below 3 the slice of the tail keeps everything.
MessagesBounded == Len(messages) <= MaxMessages

\* conversations.py: the messages that were dropped are counted in the sentinel.
DroppedCounted ==
  Len(Conversation) > MaxMessages /\ buffer = <<>> =>
    messages[2].dropped = Len(Conversation) - (MaxMessages - 1)

\* backtest.py: each finished backtest is copied.  Two results with one label in
\* one second leave the second one out.
EveryBacktestKept ==
  phase = "flushed" => \A d \in DOMAIN dirs : \E i \in DOMAIN records : records[i].dest = d
==============================================================================
