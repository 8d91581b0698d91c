---------------------------- MODULE MCAgentTurn ----------------------------
(***************************************************************************)
(* The Turns of one conversation on small instances.                       *)
(***************************************************************************)
EXTENDS AgentTurn

=============================================================================
