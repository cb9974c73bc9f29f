---------------------------- MODULE MCSdkClient ----------------------------
(***************************************************************************)
(* Applications of two or three concurrent calls on one client: a task     *)
(* created twice and looked at, one decision answered twice, a task        *)
(* aborted twice, an explicit version check, two downloads to one          *)
(* destination.                                                            *)
(***************************************************************************)
EXTENDS SdkClient, TLC

CONSTANTS create, again, get, answer, second, abort, stop, check, down, rival,
          task, decision, path

MCOp == [c \in {create, again} |-> "create_task"] @@ get :> "GET"
        @@ [c \in {answer, second} |-> "submit_decision"]
        @@ [c \in {abort, stop} |-> "abort_task"]
        @@ check :> "assert_compatible" @@ [c \in {down, rival} |-> "download"]
MCTarget == [c \in {create, again, get, abort, stop, check} |-> task]
            @@ [c \in {answer, second} |-> decision] @@ [c \in {down, rival} |-> path]
MCCalls == DOMAIN MCOp
MCOverwrite == {rival}
MCPrograms == {{create, again}, {create, get}, {answer, second}, {abort, stop},
               {create, check, abort}, {down, rival}, {answer, check}, {check, down}}
=============================================================================
