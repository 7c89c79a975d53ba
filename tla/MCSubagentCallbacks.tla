------------------------- MODULE MCSubagentCallbacks -------------------------
(* An instance of SubagentCallbacks for TLC: two background sub-agents, one of
   which may ask. *)
EXTENDS SubagentCallbacks

CONSTANTS t1, t2
==============================================================================
