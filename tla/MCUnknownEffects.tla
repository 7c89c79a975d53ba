--------------------------- MODULE MCUnknownEffects ---------------------------
(* Instances of UnknownEffects for TLC: one call, of a tool with an approval card or *)
(* of one without, that the main agent and a sub-agent make again and again.          *)
EXTENDS UnknownEffects

CONSTANTS main, helper, write
=============================================================================
