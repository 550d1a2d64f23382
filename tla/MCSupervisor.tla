---------------------------- MODULE MCSupervisor ----------------------------
(* Instances of Supervisor for TLC. *)
EXTENDS Supervisor, TLC

CONSTANTS s1, s2, q1, q2, q3

MCSymmetry == Permutations(Sups) \cup Permutations(Procs)
=============================================================================
