---------------------------- MODULE MCDongleLink ----------------------------
(* Instances of DongleLink for TLC. *)
EXTENDS DongleLink, TLC

CONSTANTS k1, k2, k3, k4

MCSymmetry == Permutations(Conns)
=============================================================================
