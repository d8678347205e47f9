--------------------------- MODULE MCBundleGeneration ---------------------------
(* Values of BundleGeneration's constants for TLC. *)
EXTENDS BundleGeneration, TLC

CONSTANTS p1, p2, p3, a, b
===============================================================================
