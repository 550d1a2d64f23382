--------------------------- MODULE MCAppConnection ---------------------------
(* Instances of AppConnection for TLC. *)
EXTENDS AppConnection, TLC

CONSTANTS a1, a2, t1, t2

MCSymmetry == Permutations(Conns) \cup Permutations(Threads)
=============================================================================
