------------------------------ MODULE EventFeed ------------------------------
(***************************************************************************)
(* What the event log and the SSE stream of a task promise to a client, as *)
(* contract/event.py states it: an append-only log, from which every       *)
(* client is given the events one by one, in order, up to the first        *)
(* terminal one.  A crash of the worker loses events that were not         *)
(* committed, never a committed one.  No coroutine, cursor, bus or         *)
(* reconnect appears here.                                                 *)
(***************************************************************************)
EXTENDS Integers, Sequences

CONSTANTS Clients

VARIABLES log, kept, delivered

feedVars == <<log, kept, delivered>>

Init == log = <<>> /\ kept = 0 /\ delivered = [c \in Clients |-> <<>>]

AppendEvent ==
  /\ \E k \in {"progress", "terminal"} :
       log' = Append(log, [eid |-> Len(log) + 1, kind |-> k])
  /\ UNCHANGED <<kept, delivered>>

Commit == kept' \in kept..Len(log) /\ UNCHANGED <<log, delivered>>

Crash == log' = SubSeq(log, 1, kept) /\ UNCHANGED <<kept, delivered>>

Ended(c) == delivered[c] # <<>> /\ delivered[c][Len(delivered[c])].kind = "terminal"

\* The event that follows the last one the client was given.
Deliver(c) ==
  /\ ~Ended(c)
  /\ Len(delivered[c]) < Len(log)
  /\ delivered' = [delivered EXCEPT ![c] = Append(@, log[Len(@) + 1])]
  /\ UNCHANGED <<log, kept>>

Next == AppendEvent \/ Commit \/ Crash \/ \E c \in Clients : Deliver(c)

Spec == Init /\ [][Next]_feedVars
=============================================================================
