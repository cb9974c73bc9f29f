---------------------------- MODULE MCEventStream ----------------------------
(* One task with a runner, one handler and one abort request, and its SSE  *)
(* clients.                                                                *)
EXTENDS EventStream

CONSTANTS h1, a1, c1

MCHandlers == {h1}
MCAborters == {a1}
MCClients == {c1}
NoWriters == {}
=============================================================================
