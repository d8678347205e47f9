---------------------------- MODULE MCLatestComplete ---------------------------
(* Values of LatestComplete's constants for TLC: two bundles of one moment, a  *)
(* later one, which is from the future for the clock that says 0, and one of   *)
(* another lane.                                                               *)
EXTENDS LatestComplete, TLC

CONSTANTS p1, p2, early, tied, late, other

MCGenerated == [b \in Bundles |-> IF b = late THEN 4 ELSE 1]

MCLane == [b \in Bundles |-> IF b = other THEN "other" ELSE "main"]
==============================================================================
