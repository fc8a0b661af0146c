------------------------------- MODULE MCChat -------------------------------
(* Instances of Chat for TLC.                                              *)
EXTENDS Chat, TLC
CONSTANTS c1, c2, c3

ConnSymmetry == Permutations(Conns)
=============================================================================
