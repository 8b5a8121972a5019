----------------------------- MODULE MCAgentKeys -----------------------------
(***************************************************************************)
(* A small instance of AgentKeys for TLC: two handlers and three keys.       *)
(***************************************************************************)
EXTENDS AgentKeys

CONSTANTS h1, h2, k1, k2, k3
=============================================================================
