------------------------------- MODULE MCTurn -------------------------------
(* Two commands of the conversation, one call of the body's own, and the    *)
(* exit. *)
EXTENDS Turn

CONSTANTS exit, c1

MCThreaded == {1}
MCCalls == {exit, c1} \cup MCThreaded
MCPolicies == {"pause", "keep_alive", "terminate"}
=============================================================================
