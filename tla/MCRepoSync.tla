------------------------------ MODULE MCRepoSync ------------------------------
(* Values of RepoSync's constants for TLC: main goes from base over next to tip, *)
(* mine is a local commit on base.  next changes a, tip adds the ignored b.      *)
EXTENDS RepoSync, TLC

CONSTANTS base, next, tip, mine, a, b

MCAncestors ==
    base :> {base} @@ next :> {base, next} @@ tip :> {base, next, tip} @@ mine :> {base, mine}

MCVersion ==
    [c \in Commits |-> [f \in Paths |->
        IF f = a THEN (CASE c = base -> 1 [] c = mine -> 3 [] OTHER -> 2)
                 ELSE IF c = tip THEN 1 ELSE 0]]
===============================================================================
