------------------------------ MODULE MCEngine ------------------------------
EXTENDS Engine, TLC

CONSTANTS hub, d1, d2, c1, c2, p1, p2

MCSymmetry == Permutations(Clients) \cup Permutations(Pipelines)
=============================================================================
