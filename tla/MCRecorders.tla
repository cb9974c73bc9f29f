---------------------------- MODULE MCRecorders ----------------------------
(***************************************************************************)
(* Two backtests that are also calls of MCP tools, reported and finished   *)
(* in any order and repeatedly; and a conversation of text, other messages *)
(* and tool calls.  One list and one pending table short enough to         *)
(* overflow.                                                               *)
(***************************************************************************)
EXTENDS Recorders

CONSTANTS u1, u2, d1, d2

MCRunDir == u1 :> d1 @@ u2 :> d2
MCMixes == {{"started", "finished"}, {"delta", "message", "started"}}
=============================================================================
