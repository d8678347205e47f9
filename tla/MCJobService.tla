------------------------------ MODULE MCJobService ------------------------------
(* Values of JobService's constants for TLC: rc works on the checkout as it is, rf *)
(* updates it first, rs and rp (plan only) work on a snapshot fetched for them. *)
EXTENDS JobService, TLC

CONSTANTS c1, c2, rc, rf, rs, rp

MCSourceMode ==
    [r \in Requests |-> CASE r = rc -> "local_current"
                          [] r = rf -> "local_ff"
                          [] OTHER  -> "remote_snapshot"]

Symmetry == Permutations(Clients)
===============================================================================
