--------------------------- MODULE MCMemoryCommands ---------------------------
(* Instances of MemoryCommands for TLC: a Forget and a second command of one user, *)
(* and the extraction of the second command's message.                             *)
EXTENDS MemoryCommands, TLC

CONSTANTS c1, c2, x1, w1, w2

OneSource == [x \in Extracts |-> c1]
WorkerSymmetry == Permutations(Workers)
=============================================================================
