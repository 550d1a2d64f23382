----------------------------- MODULE MCAssignment -----------------------------
(* Instances of Assignment for TLC. *)
EXTENDS Assignment

CONSTANTS u1, u2, u3, n1, h1, h2, h6, a1, a2
===============================================================================
