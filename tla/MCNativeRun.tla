---------------------------- MODULE MCNativeRun ----------------------------
(* Instances of NativeRun for TLC: one run, or two of the same chat. *)
EXTENDS NativeRun

CONSTANTS r1, r2, c1

OneChat == [r \in Runs |-> c1]
=============================================================================
