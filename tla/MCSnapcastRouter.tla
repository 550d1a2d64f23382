-------------------------- MODULE MCSnapcastRouter --------------------------
(* Instances of SnapcastRouter for TLC. *)
EXTENDS SnapcastRouter, TLC

CONSTANTS zA, zB, zC, d1, d2, d3, g1, g2, g3, c1, c2, ev

\* Zones without an output: calls give them theirs.
MCNone == [z \in Zones |-> {}]
\* The zones of two single dongles.
MCPair == (zA :> {d1}) @@ (zB :> {d2})
\* One zone of two dongles.
MCGroup == zA :> {d1, d2}

MCSymmetry == Permutations(Zones) \cup Permutations(Dongles) \cup Permutations(Groups)
=============================================================================
