--------------------------- MODULE MCAgentUpdate ----------------------------
(***************************************************************************)
(* Instances of AgentUpdate for TLC.                                       *)
(***************************************************************************)
EXTENDS AgentUpdate

CONSTANTS app1, app2
=============================================================================
