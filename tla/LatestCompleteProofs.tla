------------------------- MODULE LatestCompleteProofs -------------------------
(***************************************************************************)
(* Safety of the latest-complete registry for every number of publishers,  *)
(* bundles and calls and whatever clocks say, and its refinement of        *)
(* LatestRegister.  What survives a power failure depends on where the     *)
(* holder of the lock is: IInv adds that.                                  *)
(***************************************************************************)
EXTENDS LatestComplete, TLAPS

Deciding == {"select", "revalidate", "write", "fileSync", "replace"}

\* Only registries of the current version are answered to be durable, so that
\* what ranks above them is younger.
SafeInv == safe # NoEntry => safe \in Registries /\ safe.version = VERSION

\* What the holder of the lock found is what readers find until it replaces it,
\* and what it wants is decided to rank above that before it writes.
PublisherInv ==
    \A p \in Publishers :
        /\ pc[p] # "idle" =>
              candidate[p] \in Registries /\ candidate[p].version = VERSION
        /\ pc[p] \in Deciding => existing[p] = visible
        /\ pc[p] = "revalidate" => visible \in Registries /\ SameIdentity(p)
        /\ pc[p] \in {"write", "fileSync", "replace"} =>
              visible = NoEntry \/ Above(candidate[p], visible)
        /\ pc[p] \in {"replace", "directorySync", "readback"} => p \notin unsynced
        /\ pc[p] \in {"directorySync", "readback"} => visible = candidate[p]
        /\ pc[p] = "readback" => disk = {visible}

\* Without power nobody runs.
PowerInv == up \/ \A p \in Publishers : pc[p] = "idle"

IInv ==
    /\ TypeOK
    /\ PowerInv
    /\ NoTornRegistry
    /\ visible \in disk
    /\ AcknowledgedSurvives
    /\ SafeInv
    /\ PublisherInv

-----------------------------------------------------------------------------
USE DEF vars, fileVars, At, Goto

\* Generation times are numbers, whatever registry they are read from.
LEMMA EntryTimes ==
    ASSUME NEW e \in Registries
    PROVE  /\ GeneratedAt(e) \in Nat /\ e.updated_at \in Nat
           /\ e # NoEntry /\ e # Torn
BY ConstantAssumption, EntryAssumption DEF Registries, GeneratedAt

\* Above is transitive over registries of the current version.
LEMMA AboveTransitive ==
    ASSUME NEW e \in Registries, NEW d \in Registries, NEW f \in Registries,
           Above(e, d), Above(d, f), f.version = VERSION
    PROVE  Above(e, f)
BY EntryTimes DEF Above, VERSION, LEGACY_VERSION

\* What the code selects for publication ranks above what it found.
LEMMA SelectedAbove ==
    ASSUME NEW p \in Publishers, existing[p] \in Registries, candidate[p] \in Registries,
           candidate[p].version = VERSION, Usable(p),
           Supersedes(candidate[p], existing[p])
    PROVE  Above(candidate[p], existing[p])
BY DEF Usable, Supersedes, Above

\* Every failure has a receipt of its own.
LEMMA FailureStates ==
    ASSUME TypeOK, NEW p \in Publishers, ~ At(p, "idle")
    PROVE  /\ FailureOf(p) \in States
           /\ FailureOf(p) = "uncertain_after_replace" <=> pc[p] \in AfterReplace
           /\ FailureOf(p) \notin {"committed", "unchanged_existing", "durability_revalidated"}
<1>1. pc[p] \in {"revalidate"} \cup AfterReplace \cup BeforeReplace
  BY DEF TypeOK, Locked, AfterReplace, BeforeReplace
<1>2. CASE pc[p] = "revalidate"
  BY <1>2 DEF FailureOf, States, AfterReplace, BeforeReplace
<1>3. CASE pc[p] \in AfterReplace
  BY <1>3 DEF FailureOf, States, AfterReplace, BeforeReplace
<1>4. CASE pc[p] \in BeforeReplace
  BY <1>4 DEF FailureOf, States, AfterReplace, BeforeReplace
<1>5. QED BY <1>1, <1>2, <1>3, <1>4

-----------------------------------------------------------------------------
(* Steps *)

USE DEF Locked, AfterReplace, Deciding

LEMMA InitIInv == Init => IInv
<1>1. SUFFICES ASSUME Init PROVE IInv
  OBVIOUS
<1>2. TypeOK
  BY <1>1, ConstantAssumption DEF Init, TypeOK, Earlier, States
<1>3. NoTornRegistry
  BY <1>1, EntryAssumption DEF Init, NoTornRegistry, Earlier
<1>4. PublisherInv
  BY <1>1 DEF Init, PublisherInv
<1>5. QED BY <1>1, <1>2, <1>3, <1>4 DEF Init, IInv, AcknowledgedSurvives, SafeInv, PowerInv

\* The files' part of the invariant stands as long as the files do.
LEMMA FilesStand ==
    ASSUME IInv, UNCHANGED fileVars
    PROVE  NoTornRegistry' /\ (visible \in disk)' /\ AcknowledgedSurvives' /\ SafeInv'
BY DEF IInv, NoTornRegistry, AcknowledgedSurvives, SafeInv

\* The end of a call says nothing new of the publishers.
LEMMA LeaveStep ==
    ASSUME IInv, NEW p \in Publishers, Leave(p), UNCHANGED <<visible, up, calls>>,
           \/ UNCHANGED answer
           \/ \E state \in States : answer' = [answer EXCEPT ![p] = state],
           disk' \subseteq Registries \cup {NoEntry, Torn},
           safe' \in Registries \cup {NoEntry, Torn},
           ~ At(p, "idle"), lock = p \/ UNCHANGED disk
    PROVE  TypeOK' /\ PublisherInv' /\ PowerInv'
<1>1. TypeOK'
  BY ConstantAssumption DEF IInv, TypeOK, Leave
<1>2. PublisherInv'
  <2>1. ASSUME NEW q \in Publishers, q # p
        PROVE  /\ pc'[q] = pc[q] /\ candidate'[q] = candidate[q]
               /\ existing'[q] = existing[q] /\ (q \in unsynced' <=> q \in unsynced)
               /\ (pc[q] = "readback" => disk' = disk)
    BY <2>1 DEF IInv, TypeOK, Leave
  <2>2. pc'[p] = "idle"
    BY DEF IInv, TypeOK, Leave
  <2>3. QED BY <2>1, <2>2 DEF IInv, PublisherInv, SameIdentity
<1>3. PowerInv'
  BY DEF IInv, PowerInv
<1>4. QED BY <1>1, <1>2, <1>3

LEMMA BuildStep ==
    ASSUME IInv, NEW p \in Publishers, NEW b \in Bundles, NEW side \in Sides,
           NEW now \in Times, Build(p, b, side, now)
    PROVE  IInv'
<1>1. [bundle |-> b, side |-> side, version |-> VERSION, updated_at |-> now] \in Registries
  BY DEF Registries, SUPPORTED_VERSIONS
<1>2. TypeOK'
  BY <1>1, ConstantAssumption DEF IInv, TypeOK, Build, States
<1>3. PublisherInv'
  BY <1>1 DEF IInv, TypeOK, Build, PublisherInv, SameIdentity
<1>4. QED BY <1>2, <1>3, FilesStand DEF IInv, Build, PowerInv

LEMMA AcquireStep ==
    ASSUME IInv, NEW p \in Publishers, Acquire(p)
    PROVE  IInv'
<1>1. visible \in Registries \cup {NoEntry}
  BY DEF IInv, TypeOK, NoTornRegistry
<1>2. TypeOK'
  BY <1>1, ConstantAssumption DEF IInv, TypeOK, Acquire
<1>3. PublisherInv'
  BY DEF IInv, TypeOK, Acquire, PublisherInv, SameIdentity
<1>4. QED BY <1>2, <1>3, FilesStand DEF IInv, Acquire, PowerInv

\* A decision to go on is about the registry readers find, since the holder of
\* the lock read it (latest_complete.py:1538).
LEMMA SelectStep ==
    ASSUME IInv, NEW p \in Publishers, SelectPublish(p) \/ SelectRevalidate(p)
    PROVE  IInv'
<1>1. /\ existing[p] = visible /\ candidate[p] \in Registries
      /\ candidate[p].version = VERSION
      /\ visible # NoEntry => visible \in Registries
  BY DEF IInv, PublisherInv, SelectPublish, SelectRevalidate, TypeOK, NoTornRegistry
<1>2. TypeOK'
  BY DEF IInv, TypeOK, SelectPublish, SelectRevalidate
<1>3. PublisherInv'
  <2>1. CASE SelectPublish(p)
    <3>1. visible = NoEntry \/ Above(candidate[p], visible)
      BY <1>1, <2>1, SelectedAbove DEF SelectPublish
    <3>2. QED BY <1>1, <2>1, <3>1 DEF IInv, TypeOK, SelectPublish, PublisherInv, SameIdentity
  <2>2. CASE SelectRevalidate(p)
    BY <1>1, <2>2 DEF IInv, TypeOK, SelectRevalidate, PublisherInv, SameIdentity
  <2>3. QED BY <2>1, <2>2
<1>4. QED BY <1>2, <1>3, FilesStand
          DEF IInv, SelectPublish, SelectRevalidate, PowerInv

\* A call that ends without touching the files.
LEMMA EndStep ==
    ASSUME IInv, NEW p \in Publishers,
           SelectKeep(p) \/ SelectRefuse(p) \/ Fail(p) \/ Crash(p)
    PROVE  IInv'
<1>1. /\ UNCHANGED <<fileVars, up, calls>> /\ Leave(p) /\ ~ At(p, "idle")
      /\ \/ UNCHANGED answer
         \/ \E state \in States : answer' = [answer EXCEPT ![p] = state]
  BY FailureStates
     DEF SelectKeep, SelectRefuse, Fail, Crash, Answer, States, IInv
<1>2. TypeOK' /\ PublisherInv' /\ PowerInv'
  BY <1>1, LeaveStep DEF IInv, TypeOK
<1>3. QED BY <1>1, <1>2, FilesStand DEF IInv

LEMMA WriteStep ==
    ASSUME IInv, NEW p \in Publishers, WriteTemp(p) \/ SyncFile(p)
    PROVE  IInv'
<1>1. TypeOK'
  BY DEF IInv, TypeOK, WriteTemp, SyncFile
<1>2. PublisherInv'
  BY DEF IInv, TypeOK, WriteTemp, SyncFile, PublisherInv, SameIdentity
<1>3. QED BY <1>1, <1>2, FilesStand DEF IInv, WriteTemp, SyncFile, PowerInv

\* The new registry ranks above the acknowledged one: it ranks above the one
\* readers found, which is on disk (latest_complete.py:1148).
LEMMA ReplaceStep ==
    ASSUME IInv, NEW p \in Publishers, Replace(p)
    PROVE  IInv'
<1>1. /\ candidate[p] \in Registries /\ candidate[p].version = VERSION
      /\ visible = NoEntry \/ Above(candidate[p], visible)
      /\ p \notin unsynced /\ Bytes(p) = {candidate[p]} /\ lock = p
  BY DEF IInv, TypeOK, PublisherInv, Replace, Bytes
<1>2. TypeOK'
  BY <1>1 DEF IInv, TypeOK, Replace
<1>3. NoTornRegistry' /\ (visible \in disk)' /\ SafeInv'
  BY <1>1, EntryTimes DEF IInv, NoTornRegistry, SafeInv, Replace
<1>4. AcknowledgedSurvives'
  <2>1. SUFFICES ASSUME safe # NoEntry
                 PROVE  Above(candidate[p], safe)
    BY <1>1 DEF IInv, AcknowledgedSurvives, Replace
  <2>2. visible = safe \/ (visible \in Registries /\ Above(visible, safe))
    BY <2>1 DEF IInv, AcknowledgedSurvives
  <2>3. visible # NoEntry /\ safe \in Registries /\ safe.version = VERSION
    BY <2>1, <2>2, EntryTimes DEF IInv, SafeInv
  <2>4. QED BY <1>1, <2>2, <2>3, AboveTransitive
<1>5. PublisherInv'
  BY <1>1 DEF IInv, TypeOK, Replace, PublisherInv, SameIdentity
<1>6. QED BY <1>2, <1>3, <1>4, <1>5 DEF IInv, PowerInv, Replace

\* With the directory on disk, one registry is (latest_complete.py:1141).
LEMMA SyncDirectoryStep ==
    ASSUME IInv, NEW p \in Publishers, SyncDirectory(p)
    PROVE  IInv'
<1>1. visible = candidate[p] /\ Bytes(p) = {visible} /\ visible \in disk /\ lock = p
  BY DEF IInv, TypeOK, PublisherInv, SyncDirectory, Bytes
<1>2. TypeOK'
  BY <1>1 DEF IInv, TypeOK, SyncDirectory
<1>3. NoTornRegistry' /\ (visible \in disk)' /\ AcknowledgedSurvives' /\ SafeInv'
  BY <1>1 DEF IInv, NoTornRegistry, SafeInv, AcknowledgedSurvives, SyncDirectory
<1>4. PublisherInv'
  BY <1>1 DEF IInv, TypeOK, SyncDirectory, PublisherInv, SameIdentity
<1>5. QED BY <1>2, <1>3, <1>4 DEF IInv, PowerInv, SyncDirectory

\* What is answered to be durable is all there is on disk
\* (latest_complete.py:1148, :1271).
LEMMA AcknowledgeStep ==
    ASSUME IInv, NEW p \in Publishers, Readback(p) \/ Revalidate(p)
    PROVE  IInv'
<1>1. /\ visible \in Registries /\ visible.version = VERSION /\ lock = p
      /\ disk' = {visible} /\ safe' = visible /\ visible' = visible
  BY DEF IInv, TypeOK, PublisherInv, Readback, Revalidate, SameIdentity
<1>2. TypeOK' /\ PublisherInv' /\ PowerInv'
  BY <1>1, LeaveStep DEF Readback, Revalidate, Answer, States
<1>3. QED
  BY <1>1, <1>2, EntryTimes DEF IInv, NoTornRegistry, AcknowledgedSurvives, SafeInv

LEMMA PowerFailsStep == ASSUME IInv, PowerFails PROVE IInv'
<1>1. TypeOK' /\ PowerInv'
  BY ConstantAssumption DEF IInv, TypeOK, PowerInv, PowerFails
<1>2. PublisherInv'
  BY DEF PublisherInv, PowerFails
<1>3. QED BY <1>1, <1>2, FilesStand DEF IInv, PowerFails

\* Any registry that may be on disk keeps what is said of the disk.
LEMMA PowerReturnsStep == ASSUME IInv, PowerReturns PROVE IInv'
<1>1. TypeOK' /\ PowerInv'
  BY DEF IInv, TypeOK, PowerInv, PowerReturns
<1>2. PublisherInv'
  BY DEF IInv, PowerInv, PublisherInv, PowerReturns
<1>3. NoTornRegistry' /\ (visible \in disk)' /\ AcknowledgedSurvives' /\ SafeInv'
  BY DEF IInv, NoTornRegistry, AcknowledgedSurvives, SafeInv, PowerReturns
<1>4. QED BY <1>1, <1>2, <1>3 DEF IInv

LEMMA NextIInv == ASSUME IInv, [Next]_vars PROVE IInv'
<1>1. CASE UNCHANGED vars
  BY <1>1 DEF IInv, TypeOK, NoTornRegistry, AcknowledgedSurvives, SafeInv, PublisherInv,
              PowerInv, SameIdentity
<1>2. CASE Next
  BY <1>2, BuildStep, AcquireStep, SelectStep, EndStep, WriteStep, ReplaceStep,
     SyncDirectoryStep, AcknowledgeStep, PowerFailsStep, PowerReturnsStep DEF Next, Work
<1>3. QED BY <1>1, <1>2

-----------------------------------------------------------------------------
(* Theorems *)

\* The inductive invariant of the registry (latest_complete.py).
THEOREM Inductive == Spec => []IInv
<1>1. Init => IInv
  BY InitIInv
<1>2. IInv /\ [Next]_vars => IInv'
  BY NextIInv
<1>3. QED BY <1>1, <1>2, PTL DEF Spec

\* Every variable keeps its type, and the flock of the directory keeps every
\* publisher but its holder out of the decision (_run_locked_publication).
THEOREM TypeCorrect == Spec => []TypeOK
<1>1. IInv => TypeOK
  BY DEF IInv
<1>2. QED BY <1>1, Inductive, PTL

\* A power failure never leaves a registry with part of its bytes: the temporary
\* file is on disk before it gets the name (_atomic_publish_registry).
THEOREM NoRegistryIsTorn == Spec => []NoTornRegistry
<1>1. IInv => NoTornRegistry
  BY DEF IInv
<1>2. QED BY <1>1, Inductive, PTL

\* What a receipt calls committed or revalidated is never lost to anything but
\* what ranks above it, not even with the power.
THEOREM AcknowledgedStays == Spec => []AcknowledgedSurvives
<1>1. IInv => AcknowledgedSurvives
  BY DEF IInv
<1>2. QED BY <1>1, Inductive, PTL

\* A power failure leaves a registry that can be read and has what was acknowledged
\* (_atomic_publish_registry, _revalidate_registry_durability).
THEOREM PowerLossesAreSafe == Spec => []PowerLossIsSafe
<1>1. IInv => PowerLossIsSafe
  BY DEF IInv, PowerLossIsSafe
<1>2. QED BY <1>1, Inductive, PTL

-----------------------------------------------------------------------------
(* Action properties *)

\* Only these steps answer; each of them is about the registry its publisher
\* found, or has put there.
LEMMA Answers ==
    ASSUME IInv, [Next]_vars, NEW p \in Publishers, answer'[p] # answer[p]
    PROVE  \/ \E b \in Bundles, side \in Sides, now \in Times : Build(p, b, side, now)
           \/ SelectKeep(p) \/ SelectRefuse(p) \/ Readback(p) \/ Revalidate(p) \/ Fail(p)
<1>1. Next
  BY DEF TypeOK
<1>2. \E q \in Publishers :
        \/ \E b \in Bundles, side \in Sides, now \in Times : Build(q, b, side, now)
        \/ SelectKeep(q) \/ SelectRefuse(q) \/ Readback(q) \/ Revalidate(q) \/ Fail(q)
  BY <1>1 DEF Next, Work, Acquire, SelectPublish, SelectRevalidate, WriteTemp, SyncFile,
              Replace, SyncDirectory, Crash, PowerFails, PowerReturns
<1>3. ASSUME NEW q \in Publishers, q # p,
             \/ \E b \in Bundles, side \in Sides, now \in Times : Build(q, b, side, now)
             \/ SelectKeep(q) \/ SelectRefuse(q) \/ Readback(q) \/ Revalidate(q) \/ Fail(q)
      PROVE  FALSE
  BY <1>3 DEF Build, SelectKeep, SelectRefuse, Readback, Revalidate, Fail, Answer,
              IInv, TypeOK
<1>4. QED BY <1>2, <1>3

\* A receipt is right about whether the registry was replaced
\* (_publication_failure_receipt, _successful_publication_receipt).
THEOREM ReceiptsAreTrue == Spec => ReceiptIsTrue
<1>1. ASSUME IInv, [Next]_vars, NEW p \in Publishers, pc[p] \in Locked,
             answer'[p] # answer[p]
      PROVE  CASE answer'[p] \in {"committed", "uncertain_after_replace"} ->
                     visible = candidate[p]
               [] OTHER -> visible = existing[p]
  <2>1. CASE SelectKeep(p) \/ SelectRefuse(p) \/ Revalidate(p)
    <3>1. /\ pc[p] \in Deciding
          /\ answer'[p] \notin {"committed", "uncertain_after_replace"}
      BY <1>1, <2>1 DEF SelectKeep, SelectRefuse, Revalidate, Answer, IInv, TypeOK
    <3>2. visible = existing[p]
      BY <1>1, <3>1 DEF IInv, PublisherInv
    <3>3. QED BY <3>1, <3>2
  <2>2. CASE Readback(p)
    <3>1. answer'[p] = "committed" /\ visible = candidate[p]
      BY <1>1, <2>2 DEF Readback, Answer, IInv, TypeOK, PublisherInv
    <3>2. QED BY <3>1
  <2>3. CASE Fail(p)
    <3>1. answer'[p] = FailureOf(p)
      BY <1>1, <2>3 DEF Fail, Answer, IInv, TypeOK
    <3>2. /\ pc[p] \in AfterReplace => visible = candidate[p]
          /\ pc[p] \notin AfterReplace => visible = existing[p]
      BY <1>1 DEF IInv, PublisherInv
    <3>3. QED BY <1>1, <2>3, <3>1, <3>2, FailureStates DEF Fail, IInv
  <2>4. ~ (\E b \in Bundles, side \in Sides, now \in Times : Build(p, b, side, now))
    BY <1>1 DEF Build
  <2>5. QED BY <1>1, <2>1, <2>2, <2>3, <2>4, Answers
<1>2. ASSUME IInv, [Next]_vars
      PROVE  [\A p \in Publishers :
                pc[p] \in Locked /\ answer'[p] # answer[p] =>
                   CASE answer'[p] \in {"committed", "uncertain_after_replace"} ->
                           visible = candidate[p]
                     [] OTHER -> visible = existing[p]]_vars
  BY <1>1, <1>2
<1>3. QED BY <1>2, Inductive, PTL DEF Spec, ReceiptIsTrue

\* A publication that succeeds leaves the registry at its bundle or at a younger
\* one of its lane (_finalize_publication_decision).
THEOREM SuccessesAreLatest == Spec => SuccessIsLatest
<1>1. ASSUME IInv, [Next]_vars, NEW p \in Publishers, answer'[p] # answer[p],
             answer'[p] \in {"committed", "unchanged_existing", "durability_revalidated"}
      PROVE  /\ LaneOf(visible) = LaneOf(candidate[p])
             /\ GeneratedAt(visible) >= GeneratedAt(candidate[p])
  <2>1. CASE SelectKeep(p)
    <3>1. existing[p] = visible /\ visible \in Registries /\ candidate[p] \in Registries
          /\ Usable(p) /\ Older(p)
      BY <1>1, <2>1 DEF SelectKeep, IInv, PublisherInv, TypeOK, NoTornRegistry
    <3>2. QED BY <3>1, EntryTimes DEF Usable, Older
  <2>2. CASE Readback(p)
    <3>1. visible = candidate[p] /\ candidate[p] \in Registries
      BY <1>1, <2>2 DEF Readback, IInv, PublisherInv
    <3>2. QED BY <3>1, EntryTimes
  <2>3. CASE Revalidate(p)
    <3>1. visible.bundle = candidate[p].bundle /\ visible \in Registries
      BY <1>1, <2>3 DEF Revalidate, IInv, PublisherInv, SameIdentity
    <3>2. LaneOf(visible) = LaneOf(candidate[p])
          /\ GeneratedAt(visible) = GeneratedAt(candidate[p])
      BY <3>1 DEF LaneOf, GeneratedAt
    <3>3. QED BY <3>1, <3>2, EntryTimes
  <2>4. ~ (\E b \in Bundles, side \in Sides, now \in Times : Build(p, b, side, now))
    BY <1>1 DEF Build, IInv, TypeOK
  <2>5. ~ SelectRefuse(p)
    BY <1>1 DEF SelectRefuse, Answer, IInv, TypeOK
  <2>6. ~ Fail(p)
    BY <1>1, FailureStates DEF Fail, Answer, IInv, TypeOK
  <2>7. QED BY <1>1, <2>1, <2>2, <2>3, <2>4, <2>5, <2>6, Answers
<1>2. ASSUME IInv, [Next]_vars
      PROVE  [\A p \in Publishers :
                /\ answer'[p] # answer[p]
                /\ answer'[p] \in {"committed", "unchanged_existing",
                                   "durability_revalidated"}
                => LaneOf(visible) = LaneOf(candidate[p])
                   /\ GeneratedAt(visible) >= GeneratedAt(candidate[p])]_vars
  BY <1>1, <1>2
<1>3. QED BY <1>2, Inductive, PTL DEF Spec, SuccessIsLatest

-----------------------------------------------------------------------------
(* Refinement *)

LEMMA RegisterInit == Init => Register!Init
BY DEF Init, Earlier, Register!Init

\* Replacing is superseding, a synced directory settles the entry, an answer of
\* durability is an acknowledgement, and only the return of the power brings back
\* what may be on disk.
LEMMA RegisterStep ==
    ASSUME IInv, [Next]_vars
    PROVE  [Register!Next]_Register!vars
<1>1. CASE UNCHANGED <<visible, disk, safe, up>>
  BY <1>1 DEF Register!vars
<1>2. ASSUME NEW p \in Publishers, pc[p] # "idle"
      PROVE  up
  BY <1>2 DEF IInv, PowerInv
<1>3. ASSUME NEW p \in Publishers, Replace(p)
      PROVE  Register!Next
  <2>1. /\ candidate[p] \in Registries /\ (visible = NoEntry \/ Above(candidate[p], visible))
        /\ Bytes(p) = {candidate[p]}
    BY <1>3 DEF IInv, PublisherInv, Replace, Bytes
  <2>2. Register!Supersede(candidate[p])
    BY <1>2, <1>3, <2>1 DEF Register!Supersede, Replace
  <2>3. QED BY <2>1, <2>2 DEF Register!Next
<1>4. ASSUME NEW p \in Publishers, SyncDirectory(p)
      PROVE  Register!Next
  <2>1. Bytes(p) = {visible}
    BY <1>4 DEF IInv, PublisherInv, SyncDirectory, Bytes
  <2>2. Register!Settle
    BY <1>2, <1>4, <2>1 DEF Register!Settle, SyncDirectory
  <2>3. QED BY <2>2 DEF Register!Next
<1>5. ASSUME NEW p \in Publishers, Readback(p) \/ Revalidate(p)
      PROVE  Register!Next
  <2>1. visible \in Registries /\ disk' = {visible}
    BY <1>5 DEF IInv, PublisherInv, Readback, Revalidate
  <2>2. Register!Acknowledge
    BY <1>2, <1>5, <2>1, EntryTimes DEF Register!Acknowledge, Readback, Revalidate
  <2>3. QED BY <2>2 DEF Register!Next
<1>6. CASE PowerFails
  BY <1>6 DEF PowerFails, Register!Next, Register!PowerFails
<1>7. CASE PowerReturns
  <2>1. visible' \in disk /\ visible' \in Registries \cup {NoEntry}
    BY <1>7 DEF IInv, TypeOK, NoTornRegistry, PowerReturns
  <2>2. safe # NoEntry => visible' # NoEntry /\ (visible' = safe \/ Above(visible', safe))
    BY <2>1, EntryTimes DEF IInv, AcknowledgedSurvives
  <2>3. Register!PowerReturns(visible')
    BY <1>7, <2>1, <2>2 DEF Register!PowerReturns, PowerReturns
  <2>4. QED BY <2>1, <2>3 DEF Register!Next
<1>8. CASE Next
  BY <1>1, <1>3, <1>4, <1>5, <1>6, <1>7, <1>8
     DEF Next, Work, Build, Acquire, SelectPublish, SelectKeep, SelectRevalidate,
         SelectRefuse, WriteTemp, SyncFile, Fail, Crash
<1>9. QED BY <1>1, <1>8

\* The registry is a LatestRegister: with the power on it only moves to what ranks
\* above it, and only the return of the power may bring back an entry that was not
\* yet durably superseded, never below what was acknowledged.
THEOREM IsRegister == Spec => RegisterSpec
BY Inductive, RegisterInit, RegisterStep, PTL DEF Spec, RegisterSpec, Register!Spec
=============================================================================
