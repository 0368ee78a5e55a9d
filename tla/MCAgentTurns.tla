---------------------------- MODULE MCAgentTurns ----------------------------
(***************************************************************************)
(* Instances of AgentTurns for TLC: two messages, so that one may join the *)
(* run of the other; with one question that makes three runs at most.      *)
(***************************************************************************)
EXTENDS AgentTurns, TLC

CONSTANTS m1, m2
=============================================================================
