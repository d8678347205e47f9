------------------------------ MODULE MCLogStream ------------------------------
(* Values of LogStream's constants for TLC. *)
EXTENDS LogStream, TLC

CONSTANTS s1, s2

Symmetry == Permutations(Streams)
=============================================================================
