-------------------------- MODULE MCToolApprovals ---------------------------
(***************************************************************************)
(* One run, durable or of a browser, and two tabs that may follow it.      *)
(***************************************************************************)
EXTENDS ToolApprovals

CONSTANTS run, tab1, tab2

MCFollows == [f \in Followers |-> run]
=============================================================================
