---------------------------- MODULE MCPicoChannel ---------------------------
(* Instances of PicoChannel for TLC.                                       *)
EXTENDS PicoChannel, TLC
CONSTANTS c1, c2, c3, ann, bob

ConnSymmetry == Permutations(Conns)
=============================================================================
