---------------------------- MODULE MCConnectRelay ----------------------------
(* Instances of ConnectRelay for TLC: a background job and a foreground command. *)
EXTENDS ConnectRelay

CONSTANTS r1, r2, j1, c1

OneRun  == [c \in Calls |-> r1]
TwoRuns == [c \in Calls |-> IF c = j1 THEN r1 ELSE r2]
===============================================================================
