---------------------------- MODULE LatestRegister ----------------------------
(***************************************************************************)
(* What a latest-complete registry promises its readers                    *)
(* (docs/proofs/repobrief-latest-complete-registry-v2-proof.md): while the *)
(* power is on, the entry they find is only ever superseded by one that    *)
(* ranks above it, whatever the order publishers arrive in.  A power       *)
(* failure may bring back an entry that was superseded and not yet durably *)
(* so, but never loses what a publisher was told is durable.               *)
(***************************************************************************)
CONSTANTS
    Entries,      \* registries that can be published or found
    NoEntry,
    Above(_, _)   \* the first entry may supersede the second

VARIABLES
    shown,        \* what readers find
    kept,         \* what they may find after a power failure
    safe,         \* what a publisher was last told is durable
    up            \* the power is on

vars == <<shown, kept, safe, up>>

Init ==
    /\ shown \in Entries \cup {NoEntry}
    /\ kept = {shown}
    /\ safe = NoEntry
    /\ up = TRUE

Supersede(e) ==
    /\ up
    /\ shown = NoEntry \/ Above(e, shown)
    /\ shown' = e
    /\ kept' = kept \cup {e}
    /\ UNCHANGED <<safe, up>>

\* What is shown is on disk, and nothing else is.
Settle ==
    /\ up
    /\ kept' = {shown}
    /\ UNCHANGED <<shown, safe, up>>

Acknowledge ==
    /\ up /\ shown # NoEntry
    /\ safe' = shown
    /\ kept' = {shown}
    /\ UNCHANGED <<shown, up>>

PowerFails ==
    /\ up /\ up' = FALSE
    /\ UNCHANGED <<shown, kept, safe>>

\* Only now may the entry change to one that does not rank above it.
PowerReturns(e) ==
    /\ ~ up /\ up' = TRUE
    /\ e \in kept
    /\ safe # NoEntry => e # NoEntry /\ (e = safe \/ Above(e, safe))
    /\ shown' = e
    /\ kept' = {e}
    /\ UNCHANGED safe

Next ==
    \/ \E e \in Entries : Supersede(e)
    \/ Settle
    \/ Acknowledge
    \/ PowerFails
    \/ \E e \in Entries \cup {NoEntry} : PowerReturns(e)

Spec == Init /\ [][Next]_vars
=============================================================================
