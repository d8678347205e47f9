--------------------------- MODULE RetentionGCProofs ---------------------------
(***************************************************************************)
(* Safety of manual garbage collection for every number of store instances,*)
(* artifacts and plans, with crashes and failing writes, and its refinement*)
(* of RetentionLedger; what can be recovered after a failure, and what can *)
(* not.  Nothing here depends on what a plan releases.                     *)
(***************************************************************************)
EXTENDS RetentionGC, TLAPS

Transacting == {"prepare", "effect", "receipt", "finish"}
Holding     == Transacting \cup {"store"}

\* One instance at a time is past the lock file.
LockInv ==
    \A i, j \in Instances : pc[i] \in Holding /\ pc[j] \in Holding => i = j

\* Every transaction but those of plans in ps has its whole receipt.
Settled(ps) == \A t \in trans : t.plan \in complete \cup ps

\* A transaction is of its plan, which has one, and releases what the plan allows.
Sound(t) ==
    /\ t.plan \in plans /\ t.pre = t.plan.store
    /\ t.post \subseteq t.pre /\ t.pre \ t.post \subseteq Candidates(t.plan)

TransInv ==
    /\ \A t \in trans : Sound(t) /\ t.pre \subseteq 1 .. created
    /\ \A t, u \in trans : t.plan = u.plan => t = u
    /\ \A p \in plans : p.store \subseteq 1 .. created
    /\ receipts \subseteq {t.plan : t \in trans}

\* What the holder of the lock knows of the store and of transactions.
HolderInv ==
    \A i \in Instances :
        /\ pc[i] = "store" => cache[i] = store /\ Settled({}) /\ created < MaxArtifacts
        /\ pc[i] \in Transacting =>
              /\ txn \in Transactions /\ Sound(txn) /\ txn.plan \notin complete
              /\ Settled({txn.plan})
        /\ pc[i] \in {"prepare", "effect"} => store = txn.pre /\ txn.plan \notin receipts
        /\ pc[i] = "prepare" => \A t \in trans : t.plan = txn.plan => t.post # store
        /\ pc[i] = "effect" => txn.post # store
        /\ pc[i] \in {"receipt", "finish"} => store = txn.post
        /\ pc[i] \in {"effect", "receipt", "finish"} => txn \in trans
        /\ pc[i] = "finish" => txn.plan \in receipts

IInv ==
    /\ TypeOK
    /\ LockInv
    /\ TransInv
    /\ HolderInv
    /\ PendingUnambiguous

-----------------------------------------------------------------------------
USE DEF vars, Goto, Transacting, Holding

LEMMA InitIInv == Init => IInv
<1>1. SUFFICES ASSUME Init PROVE IInv
  OBVIOUS
<1>2. TypeOK
  <2>1. created \in 0 .. MaxArtifacts
    BY <1>1, ConstantAssumption DEF Init
  <2>2. QED BY <1>1, <2>1 DEF Init, TypeOK
<1>3. LockInv /\ TransInv /\ HolderInv /\ PendingUnambiguous
  BY <1>1 DEF Init, LockInv, TransInv, HolderInv, PendingUnambiguous
<1>4. QED BY <1>2, <1>3 DEF IInv

\* A plan that may be applied is the only one whose transaction may be pending.
LEMMA Unblocked ==
    ASSUME NEW ps, ~ Blocked(ps)
    PROVE  Settled(ps) /\ \A t \in trans : t.plan \in receipts => t.plan \in complete
BY DEF Blocked, Settled

\* With the lock free, or held by i alone, nothing is said of the others.
LEMMA OneHolder ==
    ASSUME IInv, NEW i \in Instances, pc[i] \in Holding \/ LockFree,
           NEW label \in {"idle", "reload"} \cup Holding, Goto(i, label)
    PROVE  /\ \A j \in Instances : pc'[j] \in Holding => j = i
           /\ LockInv'
           /\ pc'[i] = label
           /\ pc' \in [Instances -> {"idle", "reload"} \cup Holding]
BY DEF IInv, TypeOK, LockInv, LockFree

\* Steps that end with no lock held and leave the files as they are.
LEMMA ReleaseStep ==
    ASSUME IInv, NEW i \in Instances,
           \/ Load(i) \/ WriteFails(i) \/ StoreFails(i)
           \/ \E p \in plans : Replay(i, p)
    PROVE  IInv'
<1>1. PICK label \in {"idle", "reload"} : Goto(i, label) /\ (pc[i] \in Holding \/ LockFree)
  BY DEF Load, WriteFails, StoreFails, Replay, MayApply, IInv, TypeOK
<1>2. /\ \A j \in Instances : pc'[j] \notin Holding
      /\ LockInv' /\ pc' \in [Instances -> {"idle", "reload"} \cup Holding]
  BY <1>1, OneHolder
<1>3. /\ UNCHANGED <<store, plans, trans, receipts, complete, stray>>
      /\ created' \in {created, created + 1} /\ created' \in 0 .. MaxArtifacts
      /\ txn' \in {txn, NoTxn}
      /\ cache' \in [Instances -> SUBSET (1 .. created')]
  <2>1. CASE StoreFails(i)
    <3>1. created < MaxArtifacts
      BY <2>1 DEF StoreFails, IInv, HolderInv
    <3>2. created' = created + 1 /\ created' \in 0 .. MaxArtifacts
          /\ 1 .. created \subseteq 1 .. created' /\ created' \in 1 .. created'
      BY <2>1, <3>1, ConstantAssumption DEF StoreFails, IInv, TypeOK
    <3>3. QED BY <2>1, <3>2 DEF StoreFails, IInv, TypeOK
  <2>2. CASE ~ StoreFails(i)
    BY <2>2 DEF Load, WriteFails, Replay, IInv, TypeOK
  <2>3. QED BY <2>1, <2>2
<1>4. 1 .. created \subseteq 1 .. created'
  BY <1>3 DEF IInv, TypeOK
<1>5. TypeOK'
  BY <1>2, <1>3, <1>4 DEF IInv, TypeOK
<1>6. TransInv'
  BY <1>3, <1>4 DEF IInv, TransInv, Sound, Candidates, Marked, Free, Aged, CountToRelease,
                    BytesToRelease
<1>7. HolderInv' /\ PendingUnambiguous'
  BY <1>2, <1>3 DEF IInv, HolderInv, PendingUnambiguous
<1>8. QED BY <1>2, <1>5, <1>6, <1>7 DEF IInv

\* store() begins: nothing is pending, so what it writes disturbs no transaction.
LEMMA StoreBeginStep ==
    ASSUME IInv, NEW i \in Instances, StoreBegin(i)
    PROVE  IInv'
<1>1. /\ LockFree /\ Goto(i, "store") /\ Settled({}) /\ created < MaxArtifacts
      /\ cache' = [cache EXCEPT ![i] = store]
      /\ UNCHANGED <<created, store, plans, trans, receipts, complete, stray, txn>>
  BY Unblocked DEF StoreBegin
<1>2. /\ \A j \in Instances : pc'[j] \in Holding => j = i
      /\ LockInv' /\ pc'[i] = "store"
      /\ pc' \in [Instances -> {"idle", "reload"} \cup Holding]
  BY <1>1, OneHolder
<1>3. TypeOK'
  BY <1>1, <1>2 DEF IInv, TypeOK
<1>4. TransInv' /\ PendingUnambiguous'
  BY <1>1 DEF IInv, TransInv, Sound, PendingUnambiguous
<1>5. HolderInv'
  BY <1>1, <1>2 DEF IInv, TypeOK, HolderInv, Settled
<1>6. QED BY <1>2, <1>3, <1>4, <1>5 DEF IInv

\* store() writes: all transactions have their receipts.
LEMMA StoreSaveStep ==
    ASSUME IInv, NEW i \in Instances, StoreSave(i)
    PROVE  IInv'
<1>1. /\ pc[i] = "store" /\ Goto(i, "idle") /\ Settled({}) /\ cache[i] = store
      /\ created' = created + 1 /\ created < MaxArtifacts
      /\ store' = store \cup {created'}
      /\ cache' = [cache EXCEPT ![i] = store']
      /\ UNCHANGED <<plans, trans, receipts, complete, stray, txn>>
  BY DEF StoreSave, IInv, TypeOK, HolderInv
<1>2. /\ \A j \in Instances : pc'[j] \notin Holding
      /\ LockInv' /\ pc' \in [Instances -> {"idle", "reload"} \cup Holding]
  <2>1. /\ \A j \in Instances : pc'[j] \in Holding => j = i
        /\ LockInv' /\ pc'[i] = "idle"
        /\ pc' \in [Instances -> {"idle", "reload"} \cup Holding]
    BY <1>1, OneHolder
  <2>2. QED BY <2>1
<1>3. /\ created' \in 0 .. MaxArtifacts /\ 1 .. created \subseteq 1 .. created'
      /\ created' \in 1 .. created'
  BY <1>1, ConstantAssumption DEF IInv, TypeOK
<1>4. TypeOK'
  BY <1>1, <1>2, <1>3 DEF IInv, TypeOK
<1>5. TransInv'
  BY <1>1, <1>3 DEF IInv, TransInv, Sound
<1>6. HolderInv' /\ PendingUnambiguous'
  BY <1>1, <1>2 DEF IInv, HolderInv, PendingUnambiguous, Settled
<1>7. QED BY <1>2, <1>4, <1>5, <1>6 DEF IInv

LEMMA MakePlanStep ==
    ASSUME IInv, NEW i \in Instances, NEW evidence \in Evidences, NEW asOf \in Times,
           MakePlan(i, evidence, asOf)
    PROVE  IInv'
<1> DEFINE p == [store |-> store, asOf |-> asOf, evidence |-> evidence]
<1>1. /\ plans' = plans \cup {p} /\ p.store = store /\ LockFree
      /\ UNCHANGED <<created, store, cache, trans, receipts, complete, stray, pc, txn>>
  BY DEF MakePlan
<1>2. p \in Plans
  <2>1. 1 .. created \subseteq Artifacts
    BY ConstantAssumption DEF IInv, TypeOK, Artifacts
  <2>2. QED BY <2>1 DEF IInv, TypeOK, Plans
<1>3. TypeOK'
  BY <1>1, <1>2 DEF IInv, TypeOK
<1>4. \A t : Sound(t) => Sound(t)'
  BY <1>1 DEF Sound
<1>5. TransInv'
  BY <1>1, <1>4 DEF IInv, TypeOK, TransInv
<1>6. LockInv' /\ PendingUnambiguous'
  BY <1>1 DEF IInv, LockInv, PendingUnambiguous
<1>7. \A j \in Instances : pc[j] \notin Holding
  BY <1>1 DEF LockFree, IInv, TypeOK
<1>8. HolderInv'
  BY <1>1, <1>7 DEF HolderInv
<1>9. QED BY <1>3, <1>5, <1>6, <1>8 DEF IInv

-----------------------------------------------------------------------------
(* apply_retention *)

\* The effect is in the store; its transaction is taken up again.
LEMMA RecoverStep ==
    ASSUME IInv, NEW i \in Instances, NEW p \in plans, Recover(i, p)
    PROVE  IInv'
<1>1. /\ LockFree /\ Goto(i, "receipt") /\ Settled({p}) /\ p \notin receipts
      /\ txn' \in trans /\ txn'.plan = p /\ txn'.post = store
      /\ UNCHANGED <<created, store, cache, plans, trans, receipts, complete, stray>>
  BY Unblocked DEF Recover, MayApply
<1>2. /\ \A j \in Instances : pc'[j] \in Holding => j = i
      /\ LockInv' /\ pc'[i] = "receipt"
      /\ pc' \in [Instances -> {"idle", "reload"} \cup Holding]
  BY <1>1, OneHolder
<1>3. TypeOK'
  BY <1>1, <1>2 DEF IInv, TypeOK
<1>4. TransInv' /\ PendingUnambiguous'
  BY <1>1 DEF IInv, TransInv, Sound, PendingUnambiguous
<1>5. HolderInv'
  BY <1>1, <1>2 DEF IInv, TypeOK, TransInv, HolderInv, Sound, Settled
<1>6. QED BY <1>2, <1>3, <1>4, <1>5 DEF IInv

LEMMA ApplyStep ==
    ASSUME IInv, NEW i \in Instances, NEW p \in plans, NEW evidence \in Evidences,
           Apply(i, p, evidence)
    PROVE  IInv'
<1>1. /\ LockFree /\ Goto(i, "prepare") /\ Settled({p}) /\ p \notin receipts
      /\ \A t \in trans : t.plan = p => store # t.post
      /\ store = p.store
      /\ txn' = [plan |-> p, pre |-> store,
                 post |-> store \ (Candidates(p) \ Protected(evidence, store))]
      /\ UNCHANGED <<created, store, cache, plans, trans, receipts, complete, stray>>
  BY Unblocked DEF Apply, MayApply
<1>2. /\ \A j \in Instances : pc'[j] \in Holding => j = i
      /\ LockInv' /\ pc'[i] = "prepare"
      /\ pc' \in [Instances -> {"idle", "reload"} \cup Holding]
  BY <1>1, OneHolder
<1>3. txn' \in Transactions
  <2>1. store \subseteq Artifacts
    BY ConstantAssumption DEF IInv, TypeOK, Artifacts
  <2>2. QED BY <1>1, <2>1 DEF IInv, TypeOK, Transactions
<1>4. TypeOK'
  BY <1>1, <1>2, <1>3 DEF IInv, TypeOK
<1>5. TransInv' /\ PendingUnambiguous'
  BY <1>1 DEF IInv, TransInv, Sound, PendingUnambiguous
<1>6. /\ txn'.plan = p /\ txn'.pre = store /\ txn'.post \subseteq store
      /\ store \ txn'.post \subseteq Candidates(p)
  BY <1>1
<1>7. HolderInv'
  BY <1>1, <1>2, <1>3, <1>6 DEF IInv, TypeOK, HolderInv, Sound, Settled
<1>8. QED BY <1>2, <1>4, <1>5, <1>7 DEF IInv

\* What the holder of the lock has, when it writes.
LEMMA HolderFacts ==
    ASSUME IInv, NEW i \in Instances, pc[i] \in Transacting
    PROVE  /\ txn \in Transactions /\ Sound(txn) /\ txn.plan \notin complete
           /\ txn.plan \in plans /\ txn.pre \subseteq 1 .. created
           /\ \A t \in trans : t.plan \in complete \cup {txn.plan}
           /\ \A t \in trans : t.plan = txn.plan /\ txn \in trans => t = txn
BY DEF IInv, HolderInv, TransInv, Sound, Settled

LEMMA WriteTransactionStep ==
    ASSUME IInv, NEW i \in Instances, WriteTransaction(i)
    PROVE  IInv'
<1>1. /\ pc[i] = "prepare" /\ store = txn.pre /\ txn.plan \notin receipts
      /\ trans' = {t \in trans : t.plan # txn.plan} \cup {txn}
      /\ UNCHANGED <<created, store, cache, plans, receipts, complete, stray, txn>>
  BY DEF WriteTransaction, IInv, HolderInv
<1>2. PICK label \in {"receipt", "effect"} :
        /\ Goto(i, label)
        /\ label = "receipt" <=> txn.post = txn.pre
  BY DEF WriteTransaction
<1>3. /\ \A j \in Instances : pc'[j] \in Holding => j = i
      /\ LockInv' /\ pc'[i] = label
      /\ pc' \in [Instances -> {"idle", "reload"} \cup Holding]
  BY <1>1, <1>2, OneHolder
<1>4. TypeOK'
  BY <1>1, <1>3, HolderFacts DEF IInv, TypeOK
<1>5. TransInv'
  <2>1. \A t \in trans' : Sound(t) /\ t.pre \subseteq 1 .. created
    BY <1>1, HolderFacts DEF IInv, TransInv
  <2>2. \A t, u \in trans' : t.plan = u.plan => t = u
    BY <1>1 DEF IInv, TransInv
  <2>3. receipts \subseteq {t.plan : t \in trans'}
    BY <1>1 DEF IInv, TransInv
  <2>4. QED BY <1>1, <2>1, <2>2, <2>3 DEF IInv, TransInv, Sound
<1>6. HolderInv' /\ PendingUnambiguous'
  BY <1>1, <1>2, <1>3, HolderFacts
     DEF IInv, HolderInv, PendingUnambiguous, Settled, Sound
<1>7. QED BY <1>3, <1>4, <1>5, <1>6 DEF IInv

LEMMA WriteStoreStep ==
    ASSUME IInv, NEW i \in Instances, WriteStore(i)
    PROVE  IInv'
<1>1. /\ pc[i] = "effect" /\ Goto(i, "receipt") /\ store' = txn.post /\ txn \in trans
      /\ UNCHANGED <<created, cache, plans, trans, receipts, complete, stray, txn>>
  BY DEF WriteStore, IInv, HolderInv
<1>2. /\ \A j \in Instances : pc'[j] \in Holding => j = i
      /\ LockInv' /\ pc'[i] = "receipt"
      /\ pc' \in [Instances -> {"idle", "reload"} \cup Holding]
  BY <1>1, OneHolder
<1>3. TypeOK'
  BY <1>1, <1>2, HolderFacts DEF IInv, TypeOK, Sound
<1>4. TransInv'
  BY <1>1 DEF IInv, TransInv, Sound
<1>5. HolderInv' /\ PendingUnambiguous'
  BY <1>1, <1>2, HolderFacts DEF IInv, HolderInv, PendingUnambiguous, Settled, Sound
<1>6. QED BY <1>2, <1>3, <1>4, <1>5 DEF IInv

LEMMA ReceiptStep ==
    ASSUME IInv, NEW i \in Instances, CreateReceipt(i) \/ FinishReceipt(i)
    PROVE  IInv'
<1>1. /\ pc[i] \in {"receipt", "finish"} /\ store = txn.post /\ txn \in trans
      /\ txn.plan \in plans
      /\ UNCHANGED <<created, store, cache, plans, trans, stray>>
  BY HolderFacts DEF CreateReceipt, FinishReceipt, IInv, HolderInv
<1>2. PICK label \in {"finish", "reload"} :
        /\ Goto(i, label)
        /\ label = "finish" => receipts' = receipts \cup {txn.plan} /\ UNCHANGED <<complete, txn>>
        /\ label = "reload" => /\ pc[i] = "finish" /\ txn' = NoTxn /\ receipts' = receipts
                               /\ complete' = complete \cup {txn.plan}
  BY DEF CreateReceipt, FinishReceipt
<1>3. /\ \A j \in Instances : pc'[j] \in Holding => j = i
      /\ LockInv' /\ pc'[i] = label
      /\ pc' \in [Instances -> {"idle", "reload"} \cup Holding]
  BY <1>1, <1>2, OneHolder
<1>4. TypeOK'
  BY <1>1, <1>2, <1>3 DEF IInv, TypeOK, HolderInv
<1>5. TransInv'
  BY <1>1, <1>2 DEF IInv, TransInv, Sound
<1>6. HolderInv' /\ PendingUnambiguous'
  BY <1>1, <1>2, <1>3, HolderFacts
     DEF IInv, HolderInv, PendingUnambiguous, Settled, Sound
<1>7. QED BY <1>3, <1>4, <1>5, <1>6 DEF IInv

LEMMA CrashStep ==
    ASSUME IInv, NEW i \in Instances, Crash(i)
    PROVE  IInv'
<1>1. /\ UNCHANGED <<created, store, plans, trans, receipts, complete>>
      /\ \A j \in Instances : j # i => pc'[j] = pc[j] /\ cache'[j] = cache[j]
      /\ pc'[i] = "idle"
      /\ \A j \in Instances : j # i /\ pc[j] \in Transacting => txn' = txn
  BY DEF Crash, IInv, TypeOK, LockInv
<1>2. TypeOK'
  BY DEF Crash, IInv, TypeOK
<1>3. LockInv' /\ TransInv' /\ PendingUnambiguous'
  BY <1>1 DEF IInv, LockInv, TransInv, Sound, PendingUnambiguous
<1>4. HolderInv'
  BY <1>1 DEF IInv, HolderInv, Settled, Sound
<1>5. QED BY <1>2, <1>3, <1>4 DEF IInv

LEMMA NextIInv == ASSUME IInv, [Next]_vars PROVE IInv'
<1>1. CASE UNCHANGED vars
  BY <1>1 DEF IInv, TypeOK, LockInv, TransInv, HolderInv, PendingUnambiguous, Settled, Sound
<1>2. CASE Next
  BY <1>2, ReleaseStep, StoreBeginStep, StoreSaveStep, MakePlanStep, RecoverStep, ApplyStep,
     WriteTransactionStep, WriteStoreStep, ReceiptStep, CrashStep DEF Next
<1>3. QED BY <1>1, <1>2

-----------------------------------------------------------------------------
(* Theorems *)

\* The inductive invariant of the store and its transactions
\* (runtime_artifact_gc_store.py).
THEOREM Inductive == Spec => []IInv
<1>1. Init => IInv
  BY InitIInv
<1>2. IInv /\ [Next]_vars => IInv'
  BY NextIInv
<1>3. QED BY <1>1, <1>2, PTL DEF Spec

\* Every variable keeps its type, and the store holds only created artifacts.
THEOREM TypeCorrect == Spec => []TypeOK
<1>1. IInv => TypeOK
  BY DEF IInv
<1>2. QED BY <1>1, Inductive, PTL

\* A transaction without its whole receipt finds the store before or after its
\* effect, never in a third state (transaction_state_ambiguous).
THEOREM NoTransactionIsAmbiguous == Spec => []PendingUnambiguous
<1>1. IInv => PendingUnambiguous
  BY DEF IInv
<1>2. QED BY <1>1, Inductive, PTL

-----------------------------------------------------------------------------
(* Refinement *)

LEMMA LedgerInit == Init => Ledger!Init
BY DEF Init, Ledger!Init, Released, Effective

\* What is gone was created once.
LEMMA GoneIsOld ==
    ASSUME IInv, NEW a \in Ledger!Gone
    PROVE  a \in 1 .. created
<1>1. PICK t \in trans : a \in t.pre
  BY DEF Ledger!Gone, Released, Effective
<1>2. QED BY <1>1 DEF IInv, TransInv

\* An artifact is stored while nothing is pending: the ledger stays.
LEMMA LedgerAdd ==
    ASSUME IInv, NEW i \in Instances, StoreSave(i)
    PROVE  Ledger!Next
<1>1. /\ cache[i] = store /\ Settled({}) /\ created < MaxArtifacts
      /\ store' = store \cup {created + 1} /\ UNCHANGED <<trans, complete>>
      /\ created \in Nat /\ store \subseteq 1 .. created
  BY ConstantAssumption DEF StoreSave, IInv, TypeOK, HolderInv
<1>2. created + 1 \in Artifacts /\ created + 1 \notin 1 .. created
  BY <1>1, ConstantAssumption DEF Artifacts
<1>3. created + 1 \notin store \cup Ledger!Gone
  BY <1>1, <1>2, GoneIsOld
<1>4. Released' = Released
  BY <1>1 DEF Released, Effective, Settled
<1>5. Ledger!Add(created + 1)
  BY <1>1, <1>3, <1>4 DEF Ledger!Add
<1>6. QED BY <1>2, <1>5 DEF Ledger!Next

\* The effect of a transaction is its plan's release, which is its first.
LEMMA LedgerRelease ==
    ASSUME IInv, NEW i \in Instances, pc[i] \in Transacting,
           store = txn.pre, store' = txn.post,
           \A t \in Effective : t.plan # txn.plan,
           Effective' = Effective \cup {txn}
    PROVE  Ledger!Next
<1> DEFINE ids == txn.pre \ txn.post
<1>1. /\ txn.plan \in Plans /\ store = txn.plan.store
      /\ ids \subseteq Candidates(txn.plan) /\ ids \in SUBSET store
      /\ store' = store \ ids
  BY HolderFacts DEF IInv, TypeOK, Sound
<1>2. \A r \in Released : r.plan # txn.plan
  BY DEF Released
<1>3. Released' = Released \cup {[plan |-> txn.plan, ids |-> ids]}
  BY DEF Released
<1>4. Ledger!Release(txn.plan, ids)
  BY <1>1, <1>2, <1>3 DEF Ledger!Release
<1>5. QED BY <1>1, <1>4 DEF Ledger!Next

\* A transaction that releases nothing takes effect when it is written.
LEMMA LedgerWriteTransaction ==
    ASSUME IInv, NEW i \in Instances, WriteTransaction(i)
    PROVE  [Ledger!Next]_Ledger!vars
<1>1. /\ pc[i] = "prepare" /\ store = txn.pre /\ txn.plan \notin receipts
      /\ txn.plan \notin complete
      /\ \A t \in trans : t.plan = txn.plan => t.post # store
      /\ trans' = {t \in trans : t.plan # txn.plan} \cup {txn}
      /\ UNCHANGED <<store, complete, txn>>
  BY DEF WriteTransaction, IInv, TypeOK, HolderInv
<1>2. \A t \in Effective : t.plan # txn.plan
  BY <1>1 DEF Effective
<1>3. CASE txn.post = store
  <2>1. Effective' = Effective \cup {txn}
    BY <1>1, <1>3 DEF Effective
  <2>2. QED BY <1>1, <1>2, <1>3, <2>1, LedgerRelease
<1>4. CASE txn.post # store
  <2>1. Effective' = Effective
    BY <1>1, <1>4 DEF Effective
  <2>2. QED BY <1>1, <2>1 DEF Ledger!vars, Released
<1>5. QED BY <1>3, <1>4

LEMMA LedgerWriteStore ==
    ASSUME IInv, NEW i \in Instances, WriteStore(i)
    PROVE  Ledger!Next
<1>1. /\ pc[i] = "effect" /\ store = txn.pre /\ store' = txn.post /\ txn.post # store
      /\ txn \in trans /\ UNCHANGED <<trans, complete, txn>>
  BY DEF WriteStore, IInv, HolderInv
<1>2. /\ txn.plan \notin complete
      /\ \A t \in trans : t.plan \in complete \/ t = txn
  BY <1>1, HolderFacts DEF IInv, TransInv
<1>3. \A t \in Effective : t.plan # txn.plan
  BY <1>1, <1>2 DEF Effective
<1>4. Effective' = Effective \cup {txn}
  BY <1>1, <1>2 DEF Effective
<1>5. QED BY <1>1, <1>3, <1>4, LedgerRelease

\* A receipt accounts for what already is in the ledger.
LEMMA LedgerReceipt ==
    ASSUME IInv, NEW i \in Instances, FinishReceipt(i)
    PROVE  UNCHANGED Ledger!vars
<1>1. /\ pc[i] = "finish" /\ store = txn.post /\ txn \in trans
      /\ complete' = complete \cup {txn.plan} /\ UNCHANGED <<store, trans>>
  BY DEF FinishReceipt, IInv, HolderInv
<1>2. \A t \in trans : t.plan = txn.plan => t.post = store
  BY <1>1 DEF IInv, TransInv
<1>3. Effective' = Effective
  BY <1>1, <1>2 DEF Effective
<1>4. QED BY <1>1, <1>3 DEF Ledger!vars, Released

LEMMA LedgerStep ==
    ASSUME IInv, [Next]_vars
    PROVE  [Ledger!Next]_Ledger!vars
<1>1. CASE UNCHANGED <<store, trans, complete>>
  BY <1>1 DEF Ledger!vars, Released, Effective
<1>2. CASE Next
  BY <1>1, <1>2, LedgerAdd, LedgerWriteTransaction, LedgerWriteStore, LedgerReceipt
     DEF Next, Load, StoreBegin, StoreFails, MakePlan, Apply, Replay, Recover,
         CreateReceipt, WriteFails, Crash
<1>3. QED BY <1>1, <1>2

\* Retention is a RetentionLedger: a plan takes effect at most once, whole, on the
\* store it was made for, and every artifact that is gone is accounted for.
THEOREM EffectsLedgered == Spec => EffectsAreLedgered
BY Inductive, LedgerInit, LedgerStep, PTL DEF Spec, EffectsAreLedgered, Ledger!Spec
-----------------------------------------------------------------------------
(* Recovery *)

\* At most one transaction is without its whole receipt.
OnePending ==
    \A t, u \in trans : t.plan \notin complete /\ u.plan \notin complete => t = u

\* An effect in the store without a receipt can be replayed by any instance.
EffectRecoverable ==
    \A i \in Instances, t \in trans :
        pc[i] = "idle" /\ LockFree /\ ~ stray /\ t.post = store /\ t.plan \notin receipts
            => MayApply(i, t.plan)

\* No plan there is would be let through.
Stuck == LockFree /\ Blocked(plans)

LEMMA PendingStep == ASSUME IInv, OnePending, [Next]_vars PROVE OnePending'
<1>1. CASE trans' = trans /\ complete \subseteq complete'
  BY <1>1 DEF OnePending
<1>2. ASSUME NEW i \in Instances, WriteTransaction(i) PROVE OnePending'
  <2>1. /\ pc[i] = "prepare" /\ complete' = complete
        /\ trans' = {t \in trans : t.plan # txn.plan} \cup {txn}
    BY <1>2 DEF WriteTransaction
  <2>2. \A t \in trans' : t.plan \notin complete' => t = txn
    BY <2>1, HolderFacts
  <2>3. QED BY <2>2 DEF OnePending
<1>3. (trans' = trans /\ complete \subseteq complete') \/ \E i \in Instances : WriteTransaction(i)
  BY DEF Next, Load, StoreBegin, StoreSave, StoreFails, MakePlan, Apply, Replay, Recover,
         WriteStore, CreateReceipt, FinishReceipt, WriteFails, Crash
<1>4. QED BY <1>1, <1>2, <1>3

\* Whoever fails or dies after the effect, any instance can reconstruct the
\* receipt, as long as nobody has begun to write it and no temporary file is left
\* (apply_retention; docs/proofs/runtime-artifact-retention-gc-v1-proof.md:29).
THEOREM EffectsAreRecoverable == Spec => []EffectRecoverable
<1>1. IInv /\ OnePending /\ [Next]_vars => OnePending'
  BY PendingStep
<1>2. Init => OnePending
  BY DEF Init, OnePending
<1>3. IInv /\ OnePending => EffectRecoverable
  <2>1. SUFFICES ASSUME IInv, OnePending, NEW i \in Instances, NEW t \in trans,
                        pc[i] = "idle", LockFree, ~ stray, t.plan \notin receipts
                 PROVE  MayApply(i, t.plan)
    BY DEF EffectRecoverable
  <2>2. t.plan \in plans /\ t.plan \notin complete
    BY <2>1 DEF IInv, TypeOK, TransInv, Sound
  <2>3. \A u \in trans : IF u.plan \in receipts THEN u.plan \in complete ELSE u.plan = t.plan
    BY <2>1, <2>2 DEF IInv, TypeOK, OnePending
  <2>4. QED BY <2>1, <2>2, <2>3 DEF MayApply, Blocked
<1>4. QED BY <1>1, <1>2, <1>3, Inductive, PTL DEF Spec

\* Once it was begun and not finished, or a temporary file is left, it is over:
\* no step stores an artifact, makes a plan or applies one again
\* (assert_no_pending, runtime_artifact_gc_store.py).
THEOREM StuckStays ==
    Spec => [][Stuck => Stuck' /\ UNCHANGED <<created, store, plans, trans, receipts, complete>>]_vars
<1>1. ASSUME IInv, Stuck, [Next]_vars
      PROVE  Stuck' /\ UNCHANGED <<created, store, plans, trans, receipts, complete>>
  <2>1. Blocked({}) /\ \A p \in plans : Blocked({p})
    BY <1>1 DEF Stuck, Blocked
  <2>2. \A i \in Instances : pc[i] \in {"idle", "reload"}
    BY <1>1 DEF Stuck, LockFree
  <2>3. CASE UNCHANGED vars
    BY <1>1, <2>3 DEF Stuck, LockFree, Blocked
  <2>4. ASSUME NEW i \in Instances, Load(i) \/ Crash(i)
        PROVE  Stuck' /\ UNCHANGED <<created, store, plans, trans, receipts, complete>>
    <3>1. /\ UNCHANGED <<created, store, plans, trans, receipts, complete>>
          /\ stray' = stray /\ Goto(i, "idle")
      BY <1>1, <2>2, <2>4 DEF Load, Crash, IInv, TypeOK
    <3>2. LockFree'
      BY <1>1, <2>2, <3>1 DEF LockFree, IInv, TypeOK
    <3>3. QED BY <1>1, <3>1, <3>2 DEF Stuck, Blocked
  <2>5. \A i \in Instances : ~ (\/ StoreBegin(i) \/ StoreSave(i) \/ StoreFails(i)
                                \/ WriteTransaction(i) \/ WriteStore(i) \/ CreateReceipt(i)
                                \/ FinishReceipt(i) \/ WriteFails(i))
    BY <2>1, <2>2 DEF StoreBegin, StoreSave, StoreFails, WriteTransaction, WriteStore,
                      CreateReceipt, FinishReceipt, WriteFails
  <2>6. \A i \in Instances, p \in plans :
           ~ Replay(i, p) /\ ~ Recover(i, p) /\ \A evidence \in Evidences : ~ Apply(i, p, evidence)
    BY <2>1 DEF Apply, Replay, Recover, MayApply
  <2>7. \A i \in Instances, evidence \in Evidences, asOf \in Times : ~ MakePlan(i, evidence, asOf)
    BY <2>1 DEF MakePlan
  <2>8. Next => \E i \in Instances : Load(i) \/ Crash(i)
    BY <2>5, <2>6, <2>7 DEF Next
  <2>9. QED BY <1>1, <2>3, <2>4, <2>8
<1>2. IInv /\ [Next]_vars =>
        [Stuck => Stuck' /\ UNCHANGED <<created, store, plans, trans, receipts, complete>>]_vars
  BY <1>1
<1>3. QED BY <1>2, Inductive, PTL DEF Spec
================================================================================
