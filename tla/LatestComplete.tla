---------------------------- MODULE LatestComplete ----------------------------
(***************************************************************************)
(* One latest-complete registry (core/latest_complete.py): publishers      *)
(* build a candidate from a bundle, take the lock of the directory, decide *)
(* by the registry they find there, and replace it durably or revalidate   *)
(* it.  Every write and sync may fail, a publisher may die anywhere, and   *)
(* the power may fail; when it returns, any registry that could be on disk *)
(* may be found.                                                           *)
(*                                                                         *)
(* A bundle is its manifest; a clock is not trusted: a publisher may       *)
(* believe it is any of Times.                                             *)
(***************************************************************************)
EXTENDS Naturals

CONSTANTS
    Publishers,   \* callers of write_latest_complete_registry
    Bundles,
    Generated,    \* when each bundle was generated
    Lane,         \* the source it was made of
    Sides,        \* states of its health sidecars
    Times,        \* what clocks may say
    MAX_FUTURE_SKEW_SECONDS,
    NoEntry,      \* no registry
    Torn,         \* a registry file with only part of its bytes
    NoPublisher,
    MaxCalls      \* bound on calls

ASSUME ConstantAssumption ==
    /\ Generated \in [Bundles -> Nat]
    /\ Times \subseteq Nat
    /\ MAX_FUTURE_SKEW_SECONDS \in Nat /\ MaxCalls \in Nat
    /\ NoPublisher \notin Publishers

VERSION == 2
LEGACY_VERSION == 1
SUPPORTED_VERSIONS == {LEGACY_VERSION, VERSION}

Registries ==
    [bundle : Bundles, side : Sides, version : SUPPORTED_VERSIONS, updated_at : Times]

ASSUME EntryAssumption == {NoEntry, Torn} \cap Registries = {} /\ NoEntry # Torn

VARIABLES
    visible,   \* the registry readers find
    disk,      \* what may be found after a power failure
    lock,      \* holder of the directory's flock
    pc,        \* where each publisher is
    candidate, \* what it wants to publish
    existing,  \* the registry it found under the lock
    unsynced,  \* publishers whose temporary file is not on disk
    answer,    \* its last publication_state
    safe,      \* the registry last answered to be durable
    up,        \* the power is on
    calls      \* calls so far

fileVars == <<visible, disk, safe>>
vars == <<fileVars, lock, pc, candidate, existing, unsynced, answer, up, calls>>

LaneOf(e) == Lane[e.bundle]
GeneratedAt(e) == Generated[e.bundle]

\* _registry_future_clock_fields, per field
Future(time, now) == time > now + MAX_FUTURE_SKEW_SECONDS

\* Registries that earlier runs left: an eligible bundle, or a legacy one.
Earlier ==
    {e \in Registries :
        e.version = LEGACY_VERSION \/ ~ Future(GeneratedAt(e), e.updated_at)}

Init ==
    /\ visible \in Earlier \cup {NoEntry}
    /\ disk = {visible}
    /\ lock = NoPublisher
    /\ pc = [p \in Publishers |-> "idle"]
    /\ candidate = [p \in Publishers |-> NoEntry]
    /\ existing = [p \in Publishers |-> NoEntry]
    /\ unsynced = {}
    /\ answer = [p \in Publishers |-> "none"]
    /\ safe = NoEntry
    /\ up = TRUE
    /\ calls = 0

-----------------------------------------------------------------------------
At(p, from) == pc[p] = from
Goto(p, to) == pc' = [pc EXCEPT ![p] = to]

\* Mutant: a call that fails keeps its lock.
LeaveLocked(p) ==
    /\ Goto(p, "idle")
    /\ lock' = IF lock = p /\ At(p, "readback") THEN NoPublisher ELSE lock
    /\ candidate' = [candidate EXCEPT ![p] = NoEntry]
    /\ existing' = [existing EXCEPT ![p] = NoEntry]
    /\ unsynced' = unsynced \ {p}
\* The end of a call, and of its lock.
Leave(p) ==
    /\ Goto(p, "idle")
    /\ lock' = IF lock = p THEN NoPublisher ELSE lock
    /\ candidate' = [candidate EXCEPT ![p] = NoEntry]
    /\ existing' = [existing EXCEPT ![p] = NoEntry]
    /\ unsynced' = unsynced \ {p}

\* The receipt, or the error with its receipt.
Answer(p, state) ==
    /\ Leave(p)
    /\ answer' = [answer EXCEPT ![p] = state]

\* _latest_complete_eligibility; what it asks of health, profile and source does
\* not depend on other publications: a bundle without it is none of Bundles.
Eligible(b, now) == ~ Future(Generated[b], now)

\* build_latest_complete_registry, before the lock.
Build(p, b, side, now) ==
    /\ up /\ At(p, "idle") /\ Goto(p, "lock")
    /\ calls < MaxCalls /\ calls' = calls + 1
    /\ Eligible(b, now)
    /\ candidate' = [candidate EXCEPT ![p] =
          [bundle |-> b, side |-> side, version |-> VERSION, updated_at |-> now]]
    /\ answer' = [answer EXCEPT ![p] = "none"]
    /\ UNCHANGED <<fileVars, lock, existing, unsynced, up>>

\* Mutant: the lock is not waited for.
AcquireAnyway(p) ==
    /\ At(p, "lock") /\ Goto(p, "select")
    /\ lock' = p
    /\ existing' = [existing EXCEPT ![p] = visible]
    /\ UNCHANGED <<fileVars, candidate, unsynced, answer, up, calls>>
\* _acquire_publication_lock and _read_existing_registry
Acquire(p) ==
    /\ At(p, "lock") /\ Goto(p, "select")
    /\ lock = NoPublisher /\ lock' = p
    /\ existing' = [existing EXCEPT ![p] = visible]
    /\ UNCHANGED <<fileVars, candidate, unsynced, answer, up, calls>>

-----------------------------------------------------------------------------
(* _select_publication_decision *)

\* Mutant: the registry may be of another source.
UsableForAnyLane(p) ==
    LET e == existing[p]
        now == candidate[p].updated_at
    IN  /\ e # Torn
        /\ e.version # LEGACY_VERSION =>
              ~ Future(GeneratedAt(e), now) /\ ~ Future(e.updated_at, now)
\* The registry found does not refuse every publication.
Usable(p) ==
    LET e == existing[p]
        now == candidate[p].updated_at
    IN  /\ e # Torn
        /\ LaneOf(e) = LaneOf(candidate[p])
        /\ e.version # LEGACY_VERSION =>
              ~ Future(GeneratedAt(e), now) /\ ~ Future(e.updated_at, now)

\* Mutant: bundles of one moment replace each other.
SupersedesTie(c, e) == GeneratedAt(c) >= GeneratedAt(e)
\* Mutant: a legacy registry makes room for any other.
SupersedesLegacy(c, e) == GeneratedAt(c) > GeneratedAt(e) \/ e.version = LEGACY_VERSION
\* The candidate ranks above the registry e that publication found.
Supersedes(c, e) ==
    \/ GeneratedAt(c) > GeneratedAt(e)
    \/ e.version = LEGACY_VERSION
       /\ \/ Future(GeneratedAt(e), c.updated_at)
          \/ c.bundle = e.bundle

\* first_publication, candidate_newer_than_published and the legacy ones
SelectPublish(p) ==
    /\ At(p, "select") /\ Goto(p, "write")
    /\ existing[p] # NoEntry => Usable(p) /\ Supersedes(candidate[p], existing[p])
    /\ UNCHANGED <<fileVars, lock, candidate, existing, unsynced, answer, up, calls>>

Older(p) ==
    LET e == existing[p]
    IN  /\ GeneratedAt(candidate[p]) < GeneratedAt(e)
        /\ ~ Supersedes(candidate[p], e)

\* candidate_older_than_published
SelectKeep(p) ==
    /\ At(p, "select") /\ Answer(p, "unchanged_existing")
    /\ existing[p] # NoEntry /\ Usable(p) /\ Older(p)
    /\ UNCHANGED <<fileVars, up, calls>>

\* _stable_registry_identity_sha256 leaves out when the registry was written.
SameIdentity(p) ==
    LET e == existing[p]
    IN  /\ e.version = VERSION
        /\ e.bundle = candidate[p].bundle
        /\ e.side = candidate[p].side

\* candidate_already_published_durability_revalidated
SelectRevalidate(p) ==
    /\ At(p, "select") /\ Goto(p, "revalidate")
    /\ existing[p] # NoEntry /\ Usable(p) /\ SameIdentity(p)
    /\ UNCHANGED <<fileVars, lock, candidate, existing, unsynced, answer, up, calls>>

\* publication_precondition_failed: an unreadable registry, another lane, a
\* future clock, a collision of times, another identity.
SelectRefuse(p) ==
    /\ At(p, "select") /\ Answer(p, "failed_before_replace")
    /\ existing[p] # NoEntry
    /\ Usable(p) =>
          ~ Supersedes(candidate[p], existing[p]) /\ ~ Older(p) /\ ~ SameIdentity(p)
    /\ UNCHANGED <<fileVars, up, calls>>

-----------------------------------------------------------------------------
(* _atomic_publish_registry *)

WriteTemp(p) ==
    /\ At(p, "write") /\ Goto(p, "fileSync")
    /\ unsynced' = unsynced \cup {p}
    /\ UNCHANGED <<fileVars, lock, candidate, existing, answer, up, calls>>

\* Mutant: flushed to the kernel and no further.
FlushFile(p) ==
    /\ At(p, "fileSync") /\ Goto(p, "replace")
    /\ UNCHANGED <<fileVars, lock, candidate, existing, unsynced, answer, up, calls>>
SyncFile(p) ==
    /\ At(p, "fileSync") /\ Goto(p, "replace")
    /\ unsynced' = unsynced \ {p}
    /\ UNCHANGED <<fileVars, lock, candidate, existing, answer, up, calls>>

\* What the new name may stand for after a power failure.
Bytes(p) == {candidate[p]} \cup (IF p \in unsynced THEN {Torn} ELSE {})

\* os.replace: readers see it at once, the disk sooner or later.
Replace(p) ==
    /\ At(p, "replace") /\ Goto(p, "directorySync")
    /\ visible' = candidate[p]
    /\ disk' = disk \cup Bytes(p)
    /\ UNCHANGED <<safe, lock, candidate, existing, unsynced, answer, up, calls>>

\* Mutant: the file was synced, the directory is not.
SyncNothing(p) ==
    /\ At(p, "directorySync") /\ Goto(p, "readback")
    /\ UNCHANGED <<fileVars, lock, candidate, existing, unsynced, answer, up, calls>>
SyncDirectory(p) ==
    /\ At(p, "directorySync") /\ Goto(p, "readback")
    /\ disk' = Bytes(p)
    /\ UNCHANGED <<visible, safe, lock, candidate, existing, unsynced, answer, up, calls>>

\* The readback matches: committed.
Readback(p) ==
    /\ At(p, "readback") /\ Answer(p, "committed")
    /\ safe' = visible
    /\ UNCHANGED <<visible, disk, up, calls>>

BeforeReplace == {"lock", "select", "write", "fileSync", "replace"}
AfterReplace == {"directorySync", "readback"}

\* Mutant: any error is an error.
FailedOf(p) == IF At(p, "revalidate") THEN "durability_unconfirmed" ELSE "failed_before_replace"
\* _publication_failure_receipt
FailureOf(p) ==
    CASE At(p, "revalidate")     -> "durability_unconfirmed"
      [] pc[p] \in AfterReplace  -> "uncertain_after_replace"
      [] pc[p] \in BeforeReplace -> "failed_before_replace"

\* A system call fails, or the directory is not the one that was locked.
Fail(p) ==
    /\ ~ At(p, "idle") /\ Answer(p, FailureOf(p))
    /\ UNCHANGED <<fileVars, up, calls>>

\* _revalidate_registry_durability
Revalidate(p) ==
    /\ At(p, "revalidate") /\ Answer(p, "durability_revalidated")
    /\ disk' = {visible}
    /\ safe' = visible
    /\ UNCHANGED <<visible, up, calls>>

-----------------------------------------------------------------------------
\* A publisher dies, its lock with it.
Crash(p) ==
    /\ ~ At(p, "idle") /\ Leave(p)
    /\ UNCHANGED <<fileVars, answer, up, calls>>

\* The power fails, and every publisher is gone.
PowerFails ==
    /\ up /\ up' = FALSE
    /\ lock' = NoPublisher
    /\ pc' = [p \in Publishers |-> "idle"]
    /\ candidate' = [p \in Publishers |-> NoEntry]
    /\ existing' = [p \in Publishers |-> NoEntry]
    /\ unsynced' = {}
    /\ UNCHANGED <<fileVars, answer, calls>>

\* It returns: the disk has one of the registries it may have.
PowerReturns ==
    /\ ~ up /\ up' = TRUE
    /\ visible' \in disk
    /\ disk' = {visible'}
    /\ UNCHANGED <<safe, lock, pc, candidate, existing, unsynced, answer, calls>>

Work(p) ==
    \/ Acquire(p)
    \/ SelectPublish(p) \/ SelectKeep(p) \/ SelectRevalidate(p) \/ SelectRefuse(p)
    \/ WriteTemp(p) \/ SyncFile(p) \/ Replace(p) \/ SyncDirectory(p) \/ Readback(p)
    \/ Revalidate(p)

Next ==
    \/ \E p \in Publishers :
          \/ \E b \in Bundles, side \in Sides, now \in Times : Build(p, b, side, now)
          \/ Work(p) \/ Fail(p) \/ Crash(p)
    \/ PowerFails \/ PowerReturns

Spec == Init /\ [][Next]_vars

\* A call that was made goes on; that system calls fail is not counted on.
FairSpec == Spec /\ \A p \in Publishers : WF_vars(Work(p))

-----------------------------------------------------------------------------
(* Properties *)

Locked == {"select", "revalidate", "write", "fileSync", "replace"} \cup AfterReplace
States == {"none", "committed", "unchanged_existing", "durability_revalidated",
           "failed_before_replace", "uncertain_after_replace", "durability_unconfirmed"}

\* Every variable has its type, and who is past the lock holds it.
TypeOK ==
    /\ visible \in Registries \cup {NoEntry, Torn}
    /\ disk \subseteq Registries \cup {NoEntry, Torn}
    /\ lock \in Publishers \cup {NoPublisher}
    /\ pc \in [Publishers -> Locked \cup {"idle", "lock"}]
    /\ candidate \in [Publishers -> Registries \cup {NoEntry}]
    /\ existing \in [Publishers -> Registries \cup {NoEntry, Torn}]
    /\ unsynced \subseteq Publishers
    /\ answer \in [Publishers -> States]
    /\ safe \in Registries \cup {NoEntry, Torn}
    /\ up \in BOOLEAN
    /\ calls \in Nat
    /\ \A p \in Publishers : pc[p] \in Locked <=> lock = p

\* latest_complete.py:1135: no power failure leaves a registry that cannot be
\* read, which every later publication would refuse.
NoTornRegistry == Torn \notin disk

\* The order of registries: e may take the place of d.
Above(e, d) ==
    /\ LaneOf(e) = LaneOf(d)
    /\ e.version = VERSION
    /\ \/ GeneratedAt(e) > GeneratedAt(d)
       \/ d.version = LEGACY_VERSION
          /\ (Future(GeneratedAt(d), e.updated_at) \/ e.bundle = d.bundle)

\* latest_complete.py:1148, :1268: what a publisher was told is committed, or
\* revalidated, is what a power failure leaves, or something that ranks above.
AcknowledgedSurvives ==
    safe # NoEntry =>
        \A e \in disk \ {safe} : e \in Registries /\ Above(e, safe)

\* latest_complete.py:1118: whenever the power fails, the registry can be read and
\* nothing that was acknowledged is lost.
PowerLossIsSafe == NoTornRegistry /\ AcknowledgedSurvives

\* latest_complete.py:931: a receipt says whether the registry was replaced;
\* one that says it was not is given while the registry is the one found.
ReceiptIsTrue ==
    [][\A p \in Publishers :
          pc[p] \in Locked /\ answer'[p] # answer[p] =>
             CASE answer'[p] \in {"committed", "uncertain_after_replace"} ->
                     visible = candidate[p]
               [] OTHER -> visible = existing[p]]_vars

\* latest_complete.py:1803: a publication that succeeds leaves a registry of its
\* lane that is not older than its bundle, whoever published in between.
SuccessIsLatest ==
    [][\A p \in Publishers :
          /\ answer'[p] # answer[p]
          /\ answer'[p] \in {"committed", "unchanged_existing", "durability_revalidated"}
          => LaneOf(visible) = LaneOf(candidate[p])
             /\ GeneratedAt(visible) >= GeneratedAt(candidate[p])]_vars

\* latest_complete.py:1479: every call that waits for the lock is answered.
CallEnds == \A p \in Publishers : At(p, "lock") ~> At(p, "idle")

\* latest_complete.py:1528: while the power is on the registry only moves to what
\* ranks above it, from its first or legacy entry on and whatever the order of the
\* publishers; when the power returns, it is one that may have been on disk, and
\* what was acknowledged or ranks above that (LatestRegister).
Register ==
    INSTANCE LatestRegister WITH Entries <- Registries, shown <- visible, kept <- disk
RegisterSpec == Register!Spec
=============================================================================
