--------------------------- MODULE MCAgentNotify ---------------------------
(***************************************************************************)
(* Small instances of AgentNotify for TLC.                                 *)
(***************************************************************************)
EXTENDS AgentNotify

CONSTANTS e1

OnFirst == [e \in Events |-> 1]
=============================================================================
