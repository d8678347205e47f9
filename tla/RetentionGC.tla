------------------------------ MODULE RetentionGC ------------------------------
(***************************************************************************)
(* Manual garbage collection of query artifacts: the artifact store        *)
(* (query_artifact_store.py), the plan of what to delete                   *)
(* (runtime_artifact_gc_plan.py, runtime_artifact_gc_support.py) and its   *)
(* application with a transaction and a receipt on disk                    *)
(* (runtime_artifact_gc_store.py).  Several store instances, in different  *)
(* processes, share one directory and its lock file.                       *)
(*                                                                         *)
(* An artifact is its number in order of creation, which is also its age.  *)
(* The content of the store file, and so its hash, is the set of artifacts *)
(* in it: an id is never used twice and the file keeps the order of        *)
(* addition.  A plan is what its hash binds: store, time and evidence.     *)
(***************************************************************************)
EXTENDS Integers, FiniteSets, FiniteSetsExt

CONSTANTS
    Instances,      \* store instances, one thread at a time in each
    MaxArtifacts,   \* bound: artifacts ever created
    MaxPlans,       \* bound: plans ever made
    Times,          \* values of as_of
    Kind,           \* artifact_type of an artifact
    Size,           \* its estimated_bytes
    Refs,           \* artifacts an agent_query_session refers to
    Budget,         \* of each type: age, count and bytes
    Evidences       \* protection evidence an operator may present

Artifacts     == 1 .. MaxArtifacts
ArtifactTypes == {"query_trace", "context_bundle", "agent_query_session"}

ASSUME ConstantAssumption ==
    /\ MaxArtifacts \in Nat /\ MaxPlans \in Nat /\ Times \subseteq Nat
    /\ Kind \in [Artifacts -> ArtifactTypes]
    /\ Size \in [Artifacts -> Nat]
    /\ Refs \in [Artifacts -> SUBSET Artifacts]
    /\ Budget \in [ArtifactTypes -> [age : Nat \ {0}, count : Nat \ {0}, bytes : Nat \ {0}]]
    /\ Evidences \subseteq [pins : SUBSET Artifacts, active : SUBSET Artifacts]

Plans        == [store : SUBSET Artifacts, asOf : Times, evidence : Evidences]
Transactions == [plan : Plans, pre : SUBSET Artifacts, post : SUBSET Artifacts]

VARIABLES
    created,    \* number of artifacts ever created
    store,      \* query_artifacts.json
    cache,      \* _cache of each instance
    plans,      \* plans operators hold
    trans,      \* retention-transactions: one per plan
    receipts,   \* retention-receipts: the plans that have a file there
    complete,   \* those whose file is whole
    stray,      \* a temporary file is left in retention-transactions
    pc,         \* what each instance is doing
    txn         \* the transaction of the instance that applies a plan

vars == <<created, store, cache, plans, trans, receipts, complete, stray, pc, txn>>

NoTxn == [plan |-> "none"]

Init ==
    /\ created = 0
    /\ store = {}
    /\ cache = [i \in Instances |-> {}]
    /\ plans = {}
    /\ trans = {}
    /\ receipts = {}
    /\ complete = {}
    /\ stray = FALSE
    /\ pc = [i \in Instances |-> "idle"]
    /\ txn = NoTxn

-----------------------------------------------------------------------------
(* Plans *)

\* Active sessions must be there, be sessions, and have what they refer to.
Usable(evidence, s) ==
    \A a \in evidence.active :
        a \in s /\ Kind[a] = "agent_query_session" /\ Refs[a] \subseteq s

Protected(evidence, s) ==
    (evidence.pins \cap s) \cup evidence.active \cup UNION {Refs[a] : a \in evidence.active}

OfKind(s, kind) == {a \in s : Kind[a] = kind}
Bytes(s)        == MapThenSumSet(LAMBDA a : Size[a], s)
Aged(p, a)      == a + Budget[Kind[a]].age < p.asOf

Free(p, kind)   == OfKind(p.store, kind) \ Protected(p.evidence, p.store)
EachOne         == [a \in Artifacts |-> 1]

\* What the budgets of a type leave to be released.
CountToRelease(p, kind) == Cardinality(OfKind(p.store, kind)) - Budget[kind].count
BytesToRelease(p, kind) == Bytes(OfKind(p.store, kind)) - Budget[kind].bytes

\* Mutant: one artifact more than the budget asks for.
MarkedOneMore(p, kind, weight, target) ==
    LET sum[n \in 0 .. MaxArtifacts] ==
            IF n = 0 THEN 0
            ELSE sum[n - 1] + (IF n \in Free(p, kind) /\ sum[n - 1] <= target THEN weight[n] ELSE 0)
    IN  {n \in Free(p, kind) : sum[n - 1] <= target}

\* A pass over a type, oldest first, marks its unprotected artifacts until what it
\* has marked (sum[n]: of the artifacts up to n) reaches its target.
Marked(p, kind, weight, target) ==
    LET sum[n \in 0 .. MaxArtifacts] ==
            IF n = 0 THEN 0
            ELSE sum[n - 1] + (IF n \in Free(p, kind) /\ sum[n - 1] < target THEN weight[n] ELSE 0)
    IN  {n \in Free(p, kind) : sum[n - 1] < target}

\* Mutant: pressure is measured on the unprotected artifacts only.
CandidatesOfFree(p) ==
    {a \in p.store \ Protected(p.evidence, p.store) :
        LET kind == Kind[a]
        IN  \/ Aged(p, a)
            \/ a \in Marked(p, kind, EachOne, Cardinality(Free(p, kind)) - Budget[kind].count)
            \/ a \in Marked(p, kind, Size, Bytes(Free(p, kind)) - Budget[kind].bytes)}

\* Age pressure, then a pass for the count and one for the bytes.
Candidates(p) ==
    {a \in p.store \ Protected(p.evidence, p.store) :
        \/ Aged(p, a)
        \/ a \in Marked(p, Kind[a], EachOne, CountToRelease(p, Kind[a]))
        \/ a \in Marked(p, Kind[a], Size, BytesToRelease(p, Kind[a]))}

-----------------------------------------------------------------------------
(* The store.  An instance that is neither idle nor about to reload holds the
   lock file. *)

Goto(i, label) == pc' = [pc EXCEPT ![i] = label]
LockFree       == \A i \in Instances : pc[i] \in {"idle", "reload"}

\* assert_no_pending fails: on a file it does not expect, on a receipt it cannot
\* verify, on a transaction without receipt that is not of the plan allowed.
Blocked(allowed) ==
    \/ stray
    \/ \E t \in trans : IF t.plan \in receipts THEN t.plan \notin complete
                                             ELSE t.plan \notin allowed

\* Readers and apply_retention's last step: the cache follows the file.
Load(i) ==
    /\ pc[i] \in {"idle", "reload"} /\ LockFree
    /\ cache' = [cache EXCEPT ![i] = store]
    /\ Goto(i, "idle")
    /\ UNCHANGED <<created, store, plans, trans, receipts, complete, stray, txn>>

\* Mutant: the cache is not read again under the lock.
StoreBeginStale(i) ==
    /\ pc[i] = "idle" /\ LockFree
    /\ created < MaxArtifacts
    /\ ~ Blocked({})
    /\ Goto(i, "store")
    /\ UNCHANGED <<created, store, cache, plans, trans, receipts, complete, stray, txn>>

\* Mutant: a pending transaction does not stop it.
StoreBeginUnchecked(i) ==
    /\ pc[i] = "idle" /\ LockFree
    /\ created < MaxArtifacts
    /\ cache' = [cache EXCEPT ![i] = store]
    /\ Goto(i, "store")
    /\ UNCHANGED <<created, store, plans, trans, receipts, complete, stray, txn>>

\* store(): lock, read the file, refuse when a transaction is pending.
StoreBegin(i) ==
    /\ pc[i] = "idle" /\ LockFree
    /\ created < MaxArtifacts
    /\ ~ Blocked({})
    /\ cache' = [cache EXCEPT ![i] = store]
    /\ Goto(i, "store")
    /\ UNCHANGED <<created, store, plans, trans, receipts, complete, stray, txn>>

\* Mutant: an id that was used.
StoreSaveAgain(i) ==
    /\ pc[i] = "store"
    /\ cache' = [cache EXCEPT ![i] = @ \cup {created + 1}]
    /\ store' = cache'[i]
    /\ Goto(i, "idle")
    /\ UNCHANGED <<created, plans, trans, receipts, complete, stray, txn>>

StoreSave(i) ==
    /\ pc[i] = "store"
    /\ created' = created + 1
    /\ cache' = [cache EXCEPT ![i] = @ \cup {created'}]
    /\ store' = cache'[i]
    /\ Goto(i, "idle")
    /\ UNCHANGED <<plans, trans, receipts, complete, stray, txn>>

\* The write fails: the entry stays in the cache only.
StoreFails(i) ==
    /\ pc[i] = "store"
    /\ created' = created + 1
    /\ cache' = [cache EXCEPT ![i] = @ \cup {created'}]
    /\ Goto(i, "idle")
    /\ UNCHANGED <<store, plans, trans, receipts, complete, stray, txn>>

\* retention_plan(): a dry run on the store as it is.
MakePlan(i, evidence, asOf) ==
    /\ pc[i] = "idle" /\ LockFree
    /\ Cardinality(plans) < MaxPlans
    /\ ~ Blocked({})
    /\ Usable(evidence, store)
    /\ plans' = plans \cup {[store |-> store, asOf |-> asOf, evidence |-> evidence]}
    /\ UNCHANGED <<created, store, cache, trans, receipts, complete, stray, pc, txn>>

-----------------------------------------------------------------------------
(* apply_retention(): an operator presents a plan and the evidence of now.  *)

MayApply(i, p) == pc[i] = "idle" /\ LockFree /\ p \in plans /\ ~ Blocked({p})

\* The receipt is there: it is returned again.
Replay(i, p) ==
    /\ MayApply(i, p) /\ p \in receipts
    /\ Goto(i, "reload")
    /\ UNCHANGED <<created, store, cache, plans, trans, receipts, complete, stray, txn>>

\* The effect took place and only the receipt is missing.
Recover(i, p) ==
    /\ MayApply(i, p) /\ p \notin receipts
    /\ \E t \in trans : t.plan = p /\ t.post = store /\ txn' = t
    /\ Goto(i, "receipt")
    /\ UNCHANGED <<created, store, cache, plans, trans, receipts, complete, stray>>

\* The plan must be for this store and keep its protected artifacts protected;
\* candidates that are protected by now are skipped.
Apply(i, p, evidence) ==
    /\ MayApply(i, p) /\ p \notin receipts
    /\ \A t \in trans : t.plan = p => store # t.post /\ store = t.pre
    /\ store = p.store
    /\ Usable(evidence, store)
    /\ Protected(p.evidence, store) \subseteq Protected(evidence, store)
    /\ txn' = [plan |-> p, pre |-> store,
               post |-> store \ (Candidates(p) \ Protected(evidence, store))]
    /\ Goto(i, "prepare")
    /\ UNCHANGED <<created, store, cache, plans, trans, receipts, complete, stray>>

\* The transaction is renamed into place.
WriteTransaction(i) ==
    /\ pc[i] = "prepare"
    /\ trans' = {t \in trans : t.plan # txn.plan} \cup {txn}
    /\ Goto(i, IF txn.post = txn.pre THEN "receipt" ELSE "effect")
    /\ UNCHANGED <<created, store, cache, plans, receipts, complete, stray, txn>>

WriteStore(i) ==
    /\ pc[i] = "effect"
    /\ store' = txn.post
    /\ Goto(i, "receipt")
    /\ UNCHANGED <<created, cache, plans, trans, receipts, complete, stray, txn>>

\* exclusive_write_bytes creates the file and then fills it.
CreateReceipt(i) ==
    /\ pc[i] = "receipt"
    /\ receipts' = receipts \cup {txn.plan}
    /\ Goto(i, "finish")
    /\ UNCHANGED <<created, store, cache, plans, trans, complete, stray, txn>>

FinishReceipt(i) ==
    /\ pc[i] = "finish"
    /\ complete' = complete \cup {txn.plan}
    /\ txn' = NoTxn
    /\ Goto(i, "reload")
    /\ UNCHANGED <<created, store, cache, plans, trans, receipts, stray>>

\* A write of apply_retention fails; atomic_write_bytes removes its temporary file.
WriteFails(i) ==
    /\ pc[i] \in {"prepare", "effect", "receipt", "finish"}
    /\ txn' = NoTxn
    /\ Goto(i, "idle")
    /\ UNCHANGED <<created, store, cache, plans, trans, receipts, complete, stray>>

\* The process dies and its lock with it; a transaction it was writing leaves its
\* temporary file behind.
Crash(i) ==
    /\ pc[i] # "idle"
    /\ stray' = (stray \/ pc[i] = "prepare")
    /\ txn' = IF pc[i] \in {"prepare", "effect", "receipt", "finish"} THEN NoTxn ELSE txn
    /\ cache' = [cache EXCEPT ![i] = {}]
    /\ Goto(i, "idle")
    /\ UNCHANGED <<created, store, plans, trans, receipts, complete>>

Next ==
    \E i \in Instances :
        \/ Load(i)
        \/ StoreBegin(i) \/ StoreSave(i) \/ StoreFails(i)
        \/ \E evidence \in Evidences :
              \/ \E asOf \in Times : MakePlan(i, evidence, asOf)
              \/ \E p \in plans : Apply(i, p, evidence)
        \/ \E p \in plans : Replay(i, p) \/ Recover(i, p)
        \/ WriteTransaction(i) \/ WriteStore(i) \/ CreateReceipt(i) \/ FinishReceipt(i)
        \/ WriteFails(i) \/ Crash(i)

Spec == Init /\ [][Next]_vars

-----------------------------------------------------------------------------
(* Properties *)

\* Every variable has its type, and only created artifacts are in the store.
TypeOK ==
    /\ created \in 0 .. MaxArtifacts
    /\ store \subseteq 1 .. created
    /\ cache \in [Instances -> SUBSET (1 .. created)]
    /\ plans \subseteq Plans
    /\ trans \subseteq Transactions
    /\ receipts \subseteq plans /\ complete \subseteq receipts
    /\ stray \in BOOLEAN
    /\ pc \in [Instances -> {"idle", "reload", "store", "prepare", "effect", "receipt", "finish"}]
    /\ txn \in Transactions \cup {NoTxn}

\* The unprotected artifacts of a's type before it, in the planner's order.
OlderFree(p, a) == {b \in Free(p, Kind[a]) : b < a}

\* runtime_artifact_gc_plan.py:179-187 counts what a plan leaves over budget: a
\* type stays over its budget, or keeps an aged artifact, only when all that
\* is left, or that artifact, is protected.
PlanReleasesEnough ==
    \A p \in plans : \A kind \in ArtifactTypes :
        LET rest == OfKind(p.store \ Candidates(p), kind)
            kept == Protected(p.evidence, p.store)
        IN  /\ \A a \in rest : Aged(p, a) => a \in kept
            /\ \/ rest \subseteq kept
               \/ /\ Cardinality(rest) <= Budget[kind].count
                  /\ Bytes(rest) <= Budget[kind].bytes

\* No plan releases an artifact its budgets do not ask for: without it, and what
\* is younger, the type would be over its budget.
PlanReleasesNoMore ==
    \A p \in plans : \A a \in Candidates(p) :
        LET rest == OfKind(p.store, Kind[a]) \ OlderFree(p, a)
        IN  \/ Aged(p, a)
            \/ Cardinality(rest) > Budget[Kind[a]].count
            \/ Bytes(rest) > Budget[Kind[a]].bytes

\* transaction_state_ambiguous never happens: nothing changes the store between
\* a transaction and its receipt but the transaction's own effect.
PendingUnambiguous ==
    \A t \in trans : t.plan \notin complete => store \in {t.pre, t.post}

\* Plans take effect at most once, whole, and account for every artifact that is
\* gone, in the terms of RetentionLedger: a transaction counts from its effect.
Effective == {t \in trans : t.plan \in complete \/ t.post = store}
Released  == {[plan |-> t.plan, ids |-> t.pre \ t.post] : t \in Effective}

Ledger == INSTANCE RetentionLedger WITH
    Releasable <- Candidates, live <- store, released <- Released

EffectsAreLedgered == Ledger!Spec

\* docs/proofs/runtime-artifact-retention-gc-v1-proof.md:29: "If the effect completed
\* but its final receipt is missing, the next exact replay reconstructs the receipt".
ReplayReconstructs ==
    \A t \in trans :
        LockFree /\ t.pre # t.post /\ t.post = store /\ t.plan \notin complete
            => ~ Blocked({t.plan})
=============================================================================
