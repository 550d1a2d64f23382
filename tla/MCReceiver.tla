----------------------------- MODULE MCReceiver -----------------------------
(* Instances of Receiver for TLC. *)
EXTENDS Receiver, TLC

CONSTANTS s1, s2, q1, q2, q3

MCSymmetry == Permutations(Sups) \cup Permutations(Procs)
=============================================================================
