---------------------------- MODULE RetentionLedger ----------------------------
(***************************************************************************)
(* What manual garbage collection of query artifacts promises, whatever    *)
(* crashes (docs/proofs/runtime-artifact-retention-gc-v1-proof.md): an     *)
(* artifact is added once; a plan takes effect at most once, in one step,  *)
(* on the very store it was made for and within its candidates; and every  *)
(* artifact that is gone is accounted for by exactly one plan.             *)
(***************************************************************************)
EXTENDS Naturals

CONSTANTS
    Artifacts,
    Plans,          \* records with the store they were made for
    Releasable(_)   \* what a plan may delete

VARIABLES
    live,           \* artifacts in the store
    released        \* effects: what each applied plan deleted

vars == <<live, released>>

Gone == UNION {r.ids : r \in released}

Init ==
    /\ live = {}
    /\ released = {}

Add(a) ==
    /\ a \notin live \cup Gone
    /\ live' = live \cup {a}
    /\ UNCHANGED released

Release(p, ids) ==
    /\ \A r \in released : r.plan # p
    /\ live = p.store
    /\ ids \subseteq Releasable(p)
    /\ live' = live \ ids
    /\ released' = released \cup {[plan |-> p, ids |-> ids]}

Next ==
    \/ \E a \in Artifacts : Add(a)
    \/ \E p \in Plans : \E ids \in SUBSET live : Release(p, ids)

Spec == Init /\ [][Next]_vars
=============================================================================
