------------------------ MODULE BundleGenerationProofs ------------------------
(***************************************************************************)
(* Safety of a lane for every number of publishers and contents, with      *)
(* deaths, failures and interference from outside.  What the lane selects  *)
(* after a failed publication depends on what its publisher captured and   *)
(* verified before: IInv adds that.                                        *)
(***************************************************************************)
EXTENDS BundleGeneration, TLAPS

\* Complete, or damaged by somebody who takes no lock.
Good(c) == Intact(c) \/ c \in hurt

Captured == {"install", "rename", "verify", "check", "switch"}

\* Only damage from outside makes a generation that exists incomplete.
DamageInv == \A c \in Contents : gens[c] \in {"badData", "badManifest"} => c \in hurt

\* What the holder of the lock has captured, and what it has verified.
Holder(p) ==
    /\ pc[p] # "idle" => files[p] \in Contents
    /\ pc[p] \in Captured \cup {"reverify", "rollback", "restore"} =>
          /\ snap[p].mode = "new" <=> snap[p].target = NoContent
          /\ snap[p].target # NoContent => Good(snap[p].target)
          /\ held # "new" => snap[p].mode = held
    /\ pc[p] \in Captured =>
          /\ Pointer.mode = snap[p].mode
          /\ foreign \/ Pointer = snap[p]
    /\ pc[p] = "rename" => gens[files[p]] = "absent"
    /\ pc[p] = "switch" => Pointer = snap[p] \/ p \in overtaken
    /\ pc[p] = "restore" => Pointer.target = files[p] \/ p \in overtaken
    /\ pc[p] \in {"check", "switch", "reverify"} => Good(files[p])
    /\ pc[p] = "reverify" => Pointer # Empty /\ (foreign \/ Pointer.target = files[p])

HolderInv == \A p \in Publishers : Holder(p)

IInv ==
    /\ TypeOK
    /\ SelectedIsComplete
    /\ PointerModeKept
    /\ DamageInv
    /\ HolderInv

-----------------------------------------------------------------------------
USE DEF vars, laneVars, lockVars, localVars, At, Goto, Leave, Unlocking
USE DEF Captured, Modes, Inside, Ended

\* The pointer is a record of two fields that its two files determine.
LEMMA PointerFacts ==
    ASSUME link \in Contents \cup {NoContent}, json \in Contents \cup {NoContent}
    PROVE  /\ Pointer \in PointerStates
           /\ Pointer.mode = IF link # NoContent THEN "symlink"
                             ELSE IF json # NoContent THEN "json" ELSE "new"
           /\ Pointer.target = IF link # NoContent THEN link ELSE json
           /\ Pointer = [mode |-> Pointer.mode, target |-> Pointer.target]
BY DEF Pointer, PointerStates, Empty

\* It is Empty when nothing is selected, and equal to a state of its fields.
LEMMA PointerIs ==
    ASSUME link \in Contents \cup {NoContent}, json \in Contents \cup {NoContent},
           NEW s \in PointerStates
    PROVE  /\ Pointer = s <=> Pointer.mode = s.mode /\ Pointer.target = s.target
           /\ Pointer = Empty <=> link = NoContent /\ json = NoContent
BY DEF Pointer, PointerStates, Empty

LEMMA InitIInv == Init => IInv
<1>1. SUFFICES ASSUME Init PROVE IInv
  OBVIOUS
<1>2. Empty \in PointerStates
  BY DEF Empty, PointerStates
<1>3. TypeOK
  BY <1>1, <1>2, ConstantAssumption DEF Init, TypeOK
<1>4. SelectedIsComplete /\ PointerModeKept
  BY <1>1 DEF Init, SelectedIsComplete, PointerModeKept, Pointer
<1>5. DamageInv /\ HolderInv
  BY <1>1 DEF Init, DamageInv, HolderInv, Holder
<1>6. QED BY <1>3, <1>4, <1>5 DEF IInv

-----------------------------------------------------------------------------
(* Steps *)

\* A step of the holder that leaves the lane alone keeps what is said of the
\* lane; what is said of the holders is left to show for the one that moves.
LEMMA HolderMoves ==
    ASSUME IInv, NEW p \in Publishers, NEW to \in {"lock"} \cup Inside \cup Ended,
           Goto(p, to), UNCHANGED laneVars,
           held' = held, flat' = flat,
           \A q \in Publishers : q # p => files'[q] = files[q] /\ snap'[q] = snap[q]
    PROVE  /\ SelectedIsComplete' /\ PointerModeKept' /\ DamageInv'
           /\ Pointer' = Pointer
           /\ \A c \in Contents : Good(c)' = Good(c)
           /\ pc'[p] = to /\ \A q \in Publishers : q # p => pc'[q] = pc[q]
BY DEF IInv, TypeOK, SelectedIsComplete, PointerModeKept, DamageInv, Pointer, Good, Intact

\* The steps before the switch that only look.
LEMMA LookStep ==
    ASSUME IInv, NEW p \in Publishers,
           \/ Collect(p) \/ Lock(p) \/ Reuse(p) \/ Stage(p) \/ Verify(p) \/ Check(p)
           \/ SwitchFails(p) \/ VerifyFails(p)
    PROVE  IInv'
<1>1. PICK to \in {"lock"} \cup Inside : Goto(p, to)
  BY DEF Collect, Lock, Reuse, Stage, Verify, Check, SwitchFails, VerifyFails
<1>2. /\ UNCHANGED laneVars /\ held' = held /\ flat' = flat /\ snap' = snap
      /\ overtaken' = overtaken
      /\ \A q \in Publishers : q # p => files'[q] = files[q]
      /\ files' \in [Publishers -> Contents \cup {NoContent}]
      /\ files[p] \in Contents => files'[p] \in Contents
      /\ ~ At(p, "idle") => files' = files
  BY DEF Collect, Lock, Reuse, Stage, Verify, Check, SwitchFails, VerifyFails, IInv, TypeOK
<1>3. /\ SelectedIsComplete' /\ PointerModeKept' /\ DamageInv' /\ Pointer' = Pointer
      /\ \A c \in Contents : Good(c)' = Good(c)
      /\ pc'[p] = to /\ \A q \in Publishers : q # p => pc'[q] = pc[q]
  BY <1>1, <1>2, HolderMoves
<1>4. TypeOK'
  <2>1. \A q \in Publishers : pc'[q] \in Inside <=> lock' = q
    BY <1>3, ConstantAssumption
       DEF Collect, Lock, Reuse, Stage, Verify, Check, SwitchFails, VerifyFails, IInv, TypeOK
  <2>2. lock' \in Publishers \cup {NoPublisher}
    BY DEF Collect, Lock, Reuse, Stage, Verify, Check, SwitchFails, VerifyFails, IInv, TypeOK
  <2>3. pc' \in [Publishers -> {"idle", "lock"} \cup Inside \cup Ended]
    BY <1>1 DEF IInv, TypeOK
  <2>4. QED BY <1>2, <2>1, <2>2, <2>3 DEF IInv, TypeOK
<1>5. HolderInv'
  <2>1. ASSUME NEW q \in Publishers, q # p
        PROVE  Holder(q)'
    BY <1>2, <1>3, <2>1 DEF IInv, TypeOK, PointerStates, HolderInv, Holder
  <2>2. Holder(p)'
    BY <1>2, <1>3
       DEF Collect, Lock, Reuse, Stage, Verify, Check, SwitchFails, VerifyFails, IInv,
           TypeOK, PointerStates, HolderInv, Holder, VerifyTree, Good, Intact
  <2>3. QED BY <2>1, <2>2 DEF HolderInv
<1>6. QED BY <1>3, <1>4, <1>5 DEF IInv

\* The holder's steps say nothing of the others, who are outside.
LEMMA HolderAlone ==
    ASSUME IInv, NEW p \in Publishers, pc[p] \in Inside,
           NEW to \in Inside \cup Ended, Goto(p, to), files' = files,
           lock' = IF to \in Inside THEN lock ELSE NoPublisher,
           Holder(p)'
    PROVE  /\ HolderInv'
           /\ pc' \in [Publishers -> {"idle", "lock"} \cup Inside \cup Ended]
           /\ lock' \in Publishers \cup {NoPublisher}
           /\ \A q \in Publishers : pc'[q] \in Inside <=> lock' = q
<1>1. \A q \in Publishers : q # p => pc[q] \notin Inside
  BY DEF IInv, TypeOK
<1>2. pc'[p] = to /\ \A q \in Publishers : q # p => pc'[q] = pc[q]
  BY DEF IInv, TypeOK
<1>3. \A q \in Publishers : q # p => Holder(q)'
  BY <1>1, <1>2 DEF IInv, HolderInv, Holder
<1>4. QED BY <1>1, <1>2, <1>3, ConstantAssumption DEF IInv, TypeOK, HolderInv

\* The captured state selects a complete generation, since the lane does.
LEMMA CaptureStep ==
    ASSUME IInv, NEW p \in Publishers, Capture(p)
    PROVE  IInv'
<1>1. pc[p] = "capture" /\ pc'[p] = "install" /\ snap'[p] = Pointer
      /\ files[p] \in Contents
  BY PointerFacts DEF Capture, IInv, TypeOK, HolderInv, Holder
<1>2. /\ SelectedIsComplete' /\ PointerModeKept' /\ DamageInv' /\ Pointer' = Pointer
      /\ \A c \in Contents : Good(c)' = Good(c)
  <2>1. /\ UNCHANGED laneVars /\ held' = held /\ flat' = flat /\ Goto(p, "install")
        /\ \A q \in Publishers : q # p => files'[q] = files[q] /\ snap'[q] = snap[q]
    BY DEF Capture, IInv, TypeOK
  <2>2. QED BY <2>1, HolderMoves
<1>3. Holder(p)'
  <2>1. Pointer.mode = "new" <=> Pointer.target = NoContent
    BY PointerFacts, ConstantAssumption DEF IInv, TypeOK, PointerModeKept
  <2>2. Pointer.target # NoContent => Good(Pointer.target) /\ Pointer.target \in Contents
    BY PointerFacts, PointerIs DEF IInv, TypeOK, SelectedIsComplete, Good
  <2>3. held # "new" => Pointer.mode = held
    BY DEF IInv, PointerModeKept
  <2>4. QED BY <1>1, <1>2, <2>1, <2>2, <2>3 DEF Holder, Capture
<1>4. /\ HolderInv' /\ pc' \in [Publishers -> {"idle", "lock"} \cup Inside \cup Ended]
      /\ lock' \in Publishers \cup {NoPublisher}
      /\ \A q \in Publishers : pc'[q] \in Inside <=> lock' = q
  BY <1>1, <1>3, HolderAlone DEF Capture
<1>5. TypeOK'
  BY <1>4, PointerFacts DEF IInv, TypeOK, Capture
<1>6. QED BY <1>2, <1>4, <1>5 DEF IInv

\* The generation gets its name; nothing selects it, or it was damaged once.
LEMMA RenameStep ==
    ASSUME IInv, NEW p \in Publishers, Rename(p)
    PROVE  IInv'
<1>1. pc[p] = "rename" /\ files[p] \in Contents
  BY DEF Rename, IInv, HolderInv, Holder
<1>2. /\ \A c \in Contents : Good(c) => Good(c)'
      /\ Pointer' = Pointer
      /\ gens' \in [Contents -> {"absent", "intact", "badData", "badManifest"}]
      /\ DamageInv'
  BY <1>1 DEF Rename, IInv, TypeOK, Good, Intact, Pointer, DamageInv
<1>3. SelectedIsComplete' /\ PointerModeKept'
  <2>1. Pointer # Empty => Pointer.target \in Contents
    BY PointerFacts, PointerIs DEF IInv, TypeOK
  <2>2. QED BY <1>2, <2>1
            DEF Rename, IInv, SelectedIsComplete, PointerModeKept, Good
<1>4. PICK to \in {"verify", "failed"} :
        Goto(p, to) /\ lock' = IF to \in Inside THEN lock ELSE NoPublisher
  BY DEF Rename
<1>5. Holder(p)'
  BY <1>1, <1>2, <1>4 DEF Rename, IInv, TypeOK, PointerStates, HolderInv, Holder
<1>6. /\ HolderInv' /\ pc' \in [Publishers -> {"idle", "lock"} \cup Inside \cup Ended]
      /\ lock' \in Publishers \cup {NoPublisher}
      /\ \A q \in Publishers : pc'[q] \in Inside <=> lock' = q
  BY <1>1, <1>4, <1>5, HolderAlone DEF Rename
<1>7. TypeOK'
  BY <1>2, <1>6 DEF IInv, TypeOK, Rename
<1>8. QED BY <1>2, <1>3, <1>6, <1>7 DEF IInv

\* The pointer is replaced in the mode it has, and a lane without one gets one.
LEMMA SwitchStep ==
    ASSUME IInv, NEW p \in Publishers, Switch(p)
    PROVE  IInv'
<1>1. /\ pc[p] = "switch" /\ files[p] \in Contents /\ Good(files[p])
      /\ Pointer.mode = snap[p].mode /\ snap[p] \in PointerStates
      /\ held # "new" => snap[p].mode = held
  BY DEF Switch, IInv, TypeOK, HolderInv, Holder
<1>2. PICK to \in {"reverify", "rollback"} : Goto(p, to)
  BY DEF Switch
<1>3. /\ link' \in Contents \cup {NoContent} /\ json' \in Contents \cup {NoContent}
      /\ \/ link' = files[p] /\ json' = NoContent /\ snap[p].mode \in {"new", "symlink"}
         \/ json' = files[p] /\ link' = NoContent /\ snap[p].mode \in {"new", "json"}
  <2>1. link = NoContent \/ json = NoContent
    BY DEF IInv, PointerModeKept
  <2>2. CASE snap[p].mode = "new"
    BY <1>1, <2>2, PointerFacts DEF Switch, IInv, TypeOK
  <2>3. CASE snap[p].mode = "symlink"
    BY <1>1, <2>1, <2>3, PointerFacts DEF Switch, Writable, IInv, TypeOK
  <2>4. CASE snap[p].mode = "json"
    BY <1>1, <2>4, PointerFacts DEF Switch, Writable, IInv, TypeOK
  <2>5. QED BY <1>1, <2>2, <2>3, <2>4 DEF PointerStates
<1>4. /\ Pointer'.target = files[p]
      /\ \/ Pointer'.mode = "symlink" /\ snap[p].mode \in {"new", "symlink"}
         \/ Pointer'.mode = "json" /\ snap[p].mode \in {"new", "json"}
      /\ Pointer' # Empty
  BY <1>1, <1>3, ConstantAssumption DEF Pointer, Empty
<1>5. SelectedIsComplete' /\ DamageInv'
  BY <1>1, <1>4 DEF Switch, IInv, SelectedIsComplete, DamageInv, Good, Intact
<1>6. PointerModeKept'
  BY <1>1, <1>3, <1>4 DEF Switch, IInv, TypeOK, PointerModeKept
<1>7. Holder(p)'
  <2>1. pc'[p] = to
    BY <1>2 DEF IInv, TypeOK
  <2>2. \A c \in Contents : Good(c)' = Good(c)
    BY DEF Switch, Good, Intact
  <2>3. QED BY <1>1, <1>4, <2>1, <2>2
            DEF Switch, IInv, TypeOK, PointerStates, HolderInv, Holder
<1>8. /\ HolderInv' /\ pc' \in [Publishers -> {"idle", "lock"} \cup Inside \cup Ended]
      /\ lock' \in Publishers \cup {NoPublisher}
      /\ \A q \in Publishers : pc'[q] \in Inside <=> lock' = q
  BY <1>1, <1>2, <1>7, HolderAlone DEF Switch
<1>9. TypeOK'
  BY <1>3, <1>8 DEF IInv, TypeOK, Switch
<1>10. QED BY <1>5, <1>6, <1>8, <1>9 DEF IInv

\* A publisher that gives up, or has published, leaves the lane as it is.
LEMMA EndStep ==
    ASSUME IInv, NEW p \in Publishers, GiveUp(p) \/ Publish(p)
    PROVE  IInv'
<1>1. PICK to \in {"failed", "published"} : Goto(p, to)
  BY DEF GiveUp, Publish
<1>2. /\ pc[p] \in Inside /\ pc'[p] = to /\ files[p] \in Contents
      /\ files' = files /\ snap' = snap /\ lock' = NoPublisher
      /\ UNCHANGED laneVars /\ flat' = flat
  BY <1>1 DEF GiveUp, Publish, IInv, TypeOK, HolderInv, Holder
<1>3. Pointer' = Pointer /\ SelectedIsComplete' /\ DamageInv'
  BY <1>2 DEF IInv, Pointer, SelectedIsComplete, DamageInv, Intact
<1>4. held' \in Modes /\ PointerModeKept'
  <2>1. held' \in {held, Pointer.mode}
    BY DEF GiveUp, Publish
  <2>2. Pointer.mode \in Modes
    BY PointerFacts DEF IInv, TypeOK
  <2>3. QED BY <1>2, <1>3, <2>1, <2>2 DEF IInv, TypeOK, PointerModeKept
<1>5. Holder(p)'
  BY <1>1, <1>2 DEF Holder
<1>6. /\ HolderInv' /\ pc' \in [Publishers -> {"idle", "lock"} \cup Inside \cup Ended]
      /\ lock' \in Publishers \cup {NoPublisher}
      /\ \A q \in Publishers : pc'[q] \in Inside <=> lock' = q
  BY <1>1, <1>2, <1>5, HolderAlone
<1>7. TypeOK'
  BY <1>2, <1>4, <1>6 DEF IInv, TypeOK, GiveUp, Publish
<1>8. QED BY <1>3, <1>4, <1>6, <1>7 DEF IInv

\* Restoring gives the lane the captured pointer, kind and target
\* (_restore_pointer_snapshot).
LEMMA Restored ==
    ASSUME IInv, NEW p \in Publishers, pc[p] = "restore", Restore(p)
    PROVE  /\ Pointer' = snap[p]
           /\ link' \in Contents \cup {NoContent} /\ json' \in Contents \cup {NoContent}
           /\ link' = NoContent \/ json' = NoContent
<1>1. /\ snap[p] \in PointerStates
      /\ snap[p].mode = "new" <=> snap[p].target = NoContent
  BY DEF IInv, TypeOK, HolderInv, Holder
<1>2. snap[p] = [mode |-> snap[p].mode, target |-> snap[p].target]
  BY <1>1 DEF PointerStates
<1>3. CASE snap[p].mode = "symlink"
  BY <1>1, <1>2, <1>3 DEF Restore, Pointer, PointerStates
<1>4. CASE snap[p].mode = "json"
  BY <1>1, <1>2, <1>4 DEF Restore, Pointer, PointerStates
<1>5. CASE snap[p].mode = "new"
  BY <1>1, <1>2, <1>5 DEF Restore, Pointer, PointerStates, Empty
<1>6. QED BY <1>1, <1>3, <1>4, <1>5 DEF PointerStates

\* The rollback that reads the pointer, and finds it its own or has nothing to do.
LEMMA RollBackStep ==
    ASSUME IInv, NEW p \in Publishers, RollBack(p)
    PROVE  IInv'
<1>1. PICK to \in {"failed", "restore"} :
        Goto(p, to) /\ lock' = IF to \in Inside THEN lock ELSE NoPublisher
  BY DEF RollBack
<1>2. /\ pc[p] = "rollback" /\ pc'[p] = to /\ files[p] \in Contents
      /\ to = "restore" => Own(p)
      /\ UNCHANGED <<laneVars, localVars, flat>>
  BY <1>1 DEF RollBack, Restorable, IInv, TypeOK, HolderInv, Holder
<1>3. /\ SelectedIsComplete' /\ PointerModeKept' /\ DamageInv' /\ Pointer' = Pointer
      /\ \A c \in Contents : Good(c)' = Good(c)
  BY <1>1, <1>2, HolderMoves
<1>4. /\ snap[p] \in PointerStates
      /\ link = NoContent \/ json = NoContent
      /\ link \in Contents \cup {NoContent} /\ json \in Contents \cup {NoContent}
  BY DEF IInv, TypeOK, PointerModeKept
<1>5. ASSUME Own(p)
      PROVE  Pointer.target = files[p]
  <2>1. CASE snap[p].mode = "symlink"
    BY <1>2, <1>4, <1>5, <2>1, PointerFacts, ConstantAssumption DEF Own
  <2>2. CASE snap[p].mode = "json"
    BY <1>2, <1>4, <1>5, <2>2, PointerFacts, ConstantAssumption DEF Own
  <2>3. CASE snap[p].mode = "new"
    BY <1>5, <2>3 DEF Own
  <2>4. QED BY <1>4, <2>1, <2>2, <2>3 DEF PointerStates
<1>6. Holder(p)'
  BY <1>1, <1>2, <1>3, <1>4, <1>5 DEF IInv, HolderInv, Holder, PointerStates
<1>7. /\ HolderInv' /\ pc' \in [Publishers -> {"idle", "lock"} \cup Inside \cup Ended]
      /\ lock' \in Publishers \cup {NoPublisher}
      /\ \A q \in Publishers : pc'[q] \in Inside <=> lock' = q
  BY <1>1, <1>2, <1>6, HolderAlone
<1>8. TypeOK'
  BY <1>2, <1>7 DEF IInv, TypeOK, RollBack
<1>9. QED BY <1>3, <1>7, <1>8 DEF IInv

\* A rollback that writes leaves the captured pointer, one that fails may leave the
\* pointer it found.
LEMMA WriteBackStep ==
    ASSUME IInv, NEW p \in Publishers, WriteBack(p) \/ RollBackFails(p)
    PROVE  IInv'
<1>1. PICK to \in {"failed", "rollbackFailed"} : Goto(p, to)
  BY DEF WriteBack, RollBackFails
<1>2. /\ pc[p] \in {"rollback", "restore"} /\ pc'[p] = to /\ files[p] \in Contents
      /\ lock' = NoPublisher /\ files' = files /\ held' = held
      /\ UNCHANGED <<gens, hurt, flat>>
      /\ (pc[p] = "restore" /\ Restore(p)) \/ UNCHANGED <<link, json>>
  BY <1>1 DEF WriteBack, RollBackFails, IInv, TypeOK, HolderInv, Holder
<1>3. /\ link' \in Contents \cup {NoContent} /\ json' \in Contents \cup {NoContent}
      /\ SelectedIsComplete' /\ PointerModeKept'
  <2>1. CASE pc[p] = "restore" /\ Restore(p)
    <3>1. /\ snap[p].mode = "new" <=> snap[p].target = NoContent
          /\ snap[p].target # NoContent => Good(snap[p].target)
          /\ held # "new" => snap[p].mode = held
      BY <1>2 DEF IInv, HolderInv, Holder
    <3>2. snap[p] = Empty \/ snap[p].target # NoContent
      BY <3>1 DEF IInv, TypeOK, PointerStates, Empty
    <3>3. /\ Pointer' = snap[p]
          /\ link' \in Contents \cup {NoContent} /\ json' \in Contents \cup {NoContent}
          /\ link' = NoContent \/ json' = NoContent
      BY <1>2, <2>1, Restored
    <3>4. QED BY <1>2, <3>1, <3>2, <3>3
              DEF SelectedIsComplete, PointerModeKept, Good, Intact, Empty
  <2>2. CASE UNCHANGED <<link, json>>
    BY <1>2, <2>2 DEF IInv, TypeOK, SelectedIsComplete, PointerModeKept, Pointer, Intact
  <2>3. QED BY <1>2, <2>1, <2>2
<1>4. Holder(p)'
  BY <1>1, <1>2 DEF Holder
<1>5. /\ HolderInv' /\ pc' \in [Publishers -> {"idle", "lock"} \cup Inside \cup Ended]
      /\ lock' \in Publishers \cup {NoPublisher}
      /\ \A q \in Publishers : pc'[q] \in Inside <=> lock' = q
  BY <1>1, <1>2, <1>4, HolderAlone
<1>6. TypeOK'
  BY <1>2, <1>3, <1>5 DEF IInv, TypeOK, WriteBack, RollBackFails
<1>7. DamageInv'
  BY <1>2 DEF IInv, DamageInv
<1>8. QED BY <1>3, <1>5, <1>6, <1>7 DEF IInv

\* A death frees the lock and leaves the lane as it is.
LEMMA CrashStep ==
    ASSUME IInv, NEW p \in Publishers, Crash(p)
    PROVE  IInv'
<1>1. pc'[p] = "dead" /\ (\A q \in Publishers : q # p => pc'[q] = pc[q])
      /\ files[p] \in Contents
  BY DEF Crash, IInv, TypeOK, HolderInv, Holder
<1>2. /\ Pointer' = Pointer
      /\ \A c \in Contents : Good(c)' = Good(c)
      /\ SelectedIsComplete' /\ PointerModeKept' /\ DamageInv'
  BY DEF Crash, IInv, Pointer, Good, Intact, SelectedIsComplete, PointerModeKept, DamageInv
<1>3. HolderInv'
  BY <1>1, <1>2 DEF Crash, IInv, TypeOK, PointerStates, HolderInv, Holder
<1>4. TypeOK'
  <2>1. \A q \in Publishers : pc'[q] \in Inside <=> lock' = q
    BY <1>1, ConstantAssumption DEF Crash, IInv, TypeOK
  <2>2. QED BY <2>1 DEF Crash, IInv, TypeOK
<1>5. QED BY <1>2, <1>3, <1>4 DEF IInv

\* Merges and damage do not move the pointer, and damage is noted.
LEMMA OutsideStep ==
    ASSUME IInv, NEW c \in Contents, Emit(c) \/ Damage(c)
    PROVE  IInv'
<1>1. TypeOK'
  BY DEF Emit, Damage, IInv, TypeOK
<1>2. /\ Pointer' = Pointer /\ DamageInv'
      /\ \A d \in Contents : Good(d) => Good(d)'
      /\ \A d \in Contents : gens[d] = "absent" => gens'[d] = "absent"
  BY DEF Emit, Damage, IInv, TypeOK, Pointer, DamageInv, Good, Intact
<1>3. SelectedIsComplete' /\ PointerModeKept'
  <2>1. Pointer # Empty => Pointer.target \in Contents
    BY PointerFacts, PointerIs DEF IInv, TypeOK
  <2>2. QED BY <1>2, <2>1
            DEF Emit, Damage, IInv, SelectedIsComplete, PointerModeKept, Good
<1>4. HolderInv'
  BY <1>2 DEF Emit, Damage, IInv, TypeOK, PointerStates, HolderInv, Holder
<1>5. QED BY <1>1, <1>2, <1>3, <1>4 DEF IInv

\* A pointer that somebody else moves keeps its kind.
LEMMA ForeignStep ==
    ASSUME IInv, NEW c \in Contents, Foreign(c)
    PROVE  IInv'
<1>1. /\ foreign' = TRUE /\ gens[c] # "absent" /\ Good(c)
      /\ UNCHANGED <<flat, gens, hurt, lock, pc, files, snap, held>>
      /\ overtaken' = {p \in Publishers : pc[p] \in {"switch", "restore"}}
  BY DEF Foreign, IInv, TypeOK, DamageInv, Good, Intact
<1>2. /\ link' \in Contents \cup {NoContent} /\ json' \in Contents \cup {NoContent}
      /\ Pointer'.target = c /\ Pointer'.mode = Pointer.mode
      /\ Pointer' # Empty /\ (link' = NoContent \/ json' = NoContent)
  BY ConstantAssumption DEF Foreign, IInv, TypeOK, PointerModeKept, Pointer, Empty
<1>3. TypeOK' /\ DamageInv'
  BY <1>1, <1>2 DEF IInv, TypeOK, DamageInv
<1>4. SelectedIsComplete' /\ PointerModeKept'
  BY <1>1, <1>2 DEF IInv, SelectedIsComplete, PointerModeKept, Good, Intact
<1>5. HolderInv'
  BY <1>1, <1>2 DEF IInv, HolderInv, Holder, Good, Intact
<1>6. QED BY <1>3, <1>4, <1>5 DEF IInv

LEMMA NextIInv == ASSUME IInv, [Next]_vars PROVE IInv'
<1>1. CASE UNCHANGED vars
  BY <1>1 DEF IInv, TypeOK, SelectedIsComplete, PointerModeKept, DamageInv, HolderInv,
              Holder, Pointer, Good, Intact
<1>2. CASE Next
  BY <1>2, LookStep, CaptureStep, RenameStep, SwitchStep, EndStep, RollBackStep, WriteBackStep,
     CrashStep, OutsideStep, ForeignStep DEF Next, Step
<1>3. QED BY <1>1, <1>2

-----------------------------------------------------------------------------
(* Theorems *)

\* The inductive invariant of a lane (bundle_generation.py).
THEOREM Inductive == Spec => []IInv
<1>1. Init => IInv
  BY InitIInv
<1>2. IInv /\ [Next]_vars => IInv'
  BY NextIInv
<1>3. QED BY <1>1, <1>2, PTL DEF Spec

\* Every variable keeps its type, and the lane's lock keeps everyone but its
\* holder out (exclusive_file_lock).
THEOREM TypeCorrect == Spec => []TypeOK
<1>1. IInv => TypeOK
  BY DEF IInv
<1>2. QED BY <1>1, Inductive, PTL

\* Wherever publishers die or fail, the lane selects a complete generation, or
\* one that was damaged from outside (publish_bundle_generation).
THEOREM LaneSelectsComplete == Spec => []SelectedIsComplete
<1>1. IInv => SelectedIsComplete
  BY DEF IInv
<1>2. QED BY <1>1, Inductive, PTL

\* A lane has one kind of pointer and keeps it after its first publication
\* (_publish_current_pointer, _restore_pointer_snapshot).
THEOREM LaneKeepsMode == Spec => []PointerModeKept
<1>1. IInv => PointerModeKept
  BY DEF IInv
<1>2. QED BY <1>1, Inductive, PTL

-----------------------------------------------------------------------------
(* Action properties *)

\* What each publisher's program counter says of the step that is taken.
LEMMA Movers ==
    ASSUME IInv, [Next]_vars, NEW p \in Publishers, pc'[p] # pc[p]
    PROVE  Collect(p) \/ Step(p) \/ Crash(p)
<1>1. Next
  OBVIOUS
<1>2. \E q \in Publishers : Collect(q) \/ Step(q) \/ Crash(q)
  BY <1>1 DEF Next, Emit, Damage, Foreign
<1>3. ASSUME NEW q \in Publishers, q # p, Collect(q) \/ Step(q) \/ Crash(q)
      PROVE  FALSE
  BY <1>3 DEF Collect, Step, Crash, Lock, Capture, Reuse, Stage, Rename, Verify, Check,
              GiveUp, Switch, SwitchFails, Publish, VerifyFails, RollBack, WriteBack, RollBackFails,
              IInv, TypeOK
<1>4. QED BY <1>2, <1>3

\* Only these steps of a publisher change what the lane selects.
LEMMA PointerMovers ==
    ASSUME IInv, NEW p \in Publishers, Collect(p) \/ Step(p) \/ Crash(p),
           Pointer' # Pointer
    PROVE  Switch(p) \/ WriteBack(p) \/ (At(p, "restore") /\ RollBackFails(p))
<1>1. ~ (UNCHANGED <<link, json>>)
  BY DEF Pointer
<1>2. QED BY <1>1 DEF Collect, Step, Crash, Lock, Capture, Reuse, Stage, Rename, Verify,
                      Check, GiveUp, SwitchFails, Publish, VerifyFails, RollBack,
                      RollBackFails

\* A publisher that fails leaves the pointer it captured (_restore_pointer_snapshot and
\* the failures before the switch).
THEOREM FailuresRestore == Spec => FailedRestores
<1>1. ASSUME IInv, [Next]_vars, NEW p \in Publishers,
             ~ At(p, "capture"), ~ At(p, "failed"), pc'[p] = "failed", ~ foreign
      PROVE  Pointer' = snap[p]
  <2>1. Collect(p) \/ Step(p) \/ Crash(p)
    BY <1>1, Movers
  <2>2. CASE Rename(p) \/ GiveUp(p)
    <3>1. pc[p] \in Captured /\ UNCHANGED <<link, json>>
      BY <1>1, <2>2 DEF Rename, GiveUp, IInv, TypeOK
    <3>2. QED BY <1>1, <3>1 DEF IInv, HolderInv, Holder, Pointer
  <2>3. CASE WriteBack(p)
    BY <1>1, <2>3, Restored DEF WriteBack
  <2>6. CASE RollBack(p)
    <3>1. /\ Unmoved(p) /\ UNCHANGED <<link, json>> /\ (link = NoContent \/ json = NoContent)
          /\ pc[p] = "rollback"
      BY <1>1, <2>6 DEF RollBack, Restorable, IInv, TypeOK
    <3>2. /\ snap[p] \in PointerStates
          /\ snap[p].mode = "new" <=> snap[p].target = NoContent
          /\ link \in Contents \cup {NoContent} /\ json \in Contents \cup {NoContent}
      BY <1>1, <3>1 DEF IInv, TypeOK, HolderInv, Holder
    <3>3. snap[p].mode = "new" => snap[p] = Empty
      BY <3>2 DEF PointerStates, Empty
    <3>4. Pointer = snap[p]
      BY <3>1, <3>2, <3>3, PointerFacts, PointerIs DEF Unmoved, PointerStates
    <3>5. QED BY <3>1, <3>4 DEF Pointer
  <2>4. ~ (Collect(p) \/ Lock(p) \/ Capture(p) \/ Reuse(p) \/ Stage(p) \/ Verify(p)
           \/ Check(p) \/ Switch(p) \/ SwitchFails(p) \/ Publish(p) \/ VerifyFails(p)
           \/ RollBackFails(p) \/ Crash(p))
    BY <1>1 DEF Collect, Crash, Lock, Capture, Reuse, Stage, Verify, Check, Switch,
                SwitchFails, Publish, VerifyFails, RollBackFails, IInv, TypeOK
  <2>5. QED BY <2>1, <2>2, <2>3, <2>4, <2>6 DEF Step
<1>2. ASSUME IInv, [Next]_vars
      PROVE  [\A p \in Publishers :
                ~ At(p, "capture") /\ ~ At(p, "failed") /\ pc'[p] = "failed" /\ ~ foreign
                    => Pointer' = snap[p]]_vars
  BY <1>1, <1>2
<1>3. QED BY <1>2, Inductive, PTL DEF Spec, FailedRestores

\* A publisher writes over the pointer it captured or its own; only a move that falls
\* between its last look and its write is overwritten (_assert_pointer_snapshot_unchanged,
\* _restore_pointer_snapshot).
THEOREM NothingIsOverwrittenBlindly == Spec => NoBlindOverwrite
<1>1. ASSUME IInv, [Next]_vars, NEW p \in Publishers, pc'[p] # pc[p], Pointer' # Pointer
      PROVE  Pointer = snap[p] \/ Pointer.target = files[p] \/ p \in overtaken
  <2>1. pc[p] \in {"switch", "restore"}
    BY <1>1, Movers, PointerMovers DEF Switch, WriteBack
  <2>2. QED BY <1>1, <2>1 DEF IInv, HolderInv, Holder
<1>2. ASSUME IInv, [Next]_vars
      PROVE  [\A p \in Publishers :
                pc'[p] # pc[p] /\ Pointer' # Pointer
                    => Pointer = snap[p] \/ Pointer.target = files[p] \/ p \in overtaken]_vars
  BY <1>1, <1>2
<1>3. QED BY <1>2, Inductive, PTL DEF Spec, NoBlindOverwrite

\* Success means that the lane selects the publisher's files, complete, while it
\* holds the lock (publish_bundle_generation).
THEOREM PublishedAreSelected == Spec => PublishedIsSelected
<1>1. ASSUME IInv, [Next]_vars, NEW p \in Publishers,
             ~ At(p, "published"), pc'[p] = "published", ~ foreign
      PROVE  Pointer.target = files[p] /\ Intact(files[p])
  <2>1. Collect(p) \/ Step(p) \/ Crash(p)
    BY <1>1, Movers
  <2>2. Publish(p)
    BY <1>1, <2>1
       DEF Collect, Step, Crash, Lock, Capture, Reuse, Stage, Rename, Verify, Check,
           GiveUp, Switch, SwitchFails, VerifyFails, RollBack, WriteBack, RollBackFails, IInv, TypeOK
  <2>3. QED BY <1>1, <2>2 DEF Publish, VerifyTree, IInv, HolderInv, Holder
<1>2. ASSUME IInv, [Next]_vars
      PROVE  [\A p \in Publishers :
                ~ At(p, "published") /\ pc'[p] = "published" /\ ~ foreign
                    => Pointer.target = files[p] /\ Intact(files[p])]_vars
  BY <1>1, <1>2
<1>3. QED BY <1>2, Inductive, PTL DEF Spec, PublishedIsSelected

\* What a publisher ends with is true of its lane: it selects what was published, and
\* a failure left what it captured (publish_bundle_generation).
THEOREM OutcomesAreTrue == Spec => OutcomeIsTrue
BY FailuresRestore, PublishedAreSelected DEF OutcomeIsTrue
-----------------------------------------------------------------------------
(* A lane that nothing outside disturbs *)

\* What a publisher checks holds: only an error of the system, or a merge that
\* writes the flat output meanwhile, can make it fail.
NothingRefused ==
    \A p \in Publishers :
        /\ pc[p] \in {"capture", "check"} => Capturable
        /\ pc[p] = "check" => Pointer = snap[p]
        /\ pc[p] = "install" => gens[files[p]] = "absent" \/ Intact(files[p])
        /\ pc[p] \in {"verify", "reverify"} => VerifyTree(p)
        /\ pc[p] \in {"rollback", "restore"} =>
              Restorable(p) /\ (snap[p].mode = "json" => ValidTarget(snap[p].target))

\* What a publisher has seen or written stays as it was while it holds the lock.
CalmInv ==
    /\ ~ foreign
    /\ \A p \in Publishers :
          /\ pc[p] = "verify" => Intact(files[p])
          /\ pc[p] \in {"reverify", "rollback", "restore"} => Restorable(p)

LEMMA CalmRefuses ==
    ASSUME Fragile = {}, IInv, CalmInv
    PROVE  NothingRefused
<1>1. /\ hurt = {} /\ \A c \in Contents : gens[c] = "absent" \/ Intact(c)
      /\ \A c \in Contents : Good(c) <=> Intact(c)
  BY DEF IInv, TypeOK, DamageInv, Good, Intact
<1>2. Capturable
  <2>1. link # NoContent => Pointer.target = link /\ Pointer # Empty
    BY PointerFacts, PointerIs DEF IInv, TypeOK
  <2>2. link = NoContent /\ json # NoContent => Pointer.target = json /\ Pointer # Empty
    BY PointerFacts, PointerIs DEF IInv, TypeOK
  <2>3. QED BY <1>1, <2>1, <2>2
            DEF IInv, PointerModeKept, SelectedIsComplete, Capturable, ValidTarget, Intact
<1>3. ASSUME NEW p \in Publishers
      PROVE  /\ pc[p] = "check" => Pointer = snap[p]
             /\ pc[p] = "install" => gens[files[p]] = "absent" \/ Intact(files[p])
             /\ pc[p] \in {"verify", "reverify"} => VerifyTree(p)
             /\ pc[p] \in {"rollback", "restore"} =>
                  Restorable(p) /\ (snap[p].mode = "json" => ValidTarget(snap[p].target))
  <2>1. Holder(p) /\ snap[p] \in PointerStates
    BY DEF IInv, HolderInv, TypeOK
  <2>2. QED BY <1>1, <2>1
            DEF CalmInv, Holder, PointerStates, VerifyTree, ValidTarget, Intact
<1>4. QED BY <1>2, <1>3 DEF NothingRefused

\* Without damage a generation that is complete stays complete.
LEMMA CalmStep ==
    ASSUME Fragile = {}, IInv, CalmInv, [Next]_vars
    PROVE  CalmInv'
<1>1. ~ foreign' /\ \A c \in Contents : Intact(c) => Intact(c)'
  BY DEF CalmInv, Next, Collect, Crash, Step, Lock, Capture, Reuse, Stage, Rename, Verify,
         Check, GiveUp, Switch, SwitchFails, Publish, VerifyFails, RollBack, WriteBack, RollBackFails,
         Emit, Damage, Foreign, Intact, IInv, TypeOK
<1>2. ASSUME NEW p \in Publishers, pc'[p] = pc[p],
             pc[p] \in {"verify", "reverify", "rollback", "restore"}
      PROVE  /\ UNCHANGED <<link, json>> /\ files'[p] = files[p] /\ snap'[p] = snap[p]
             /\ files[p] \in Contents
  <2>1. \A q \in Publishers : q # p => pc[q] \notin Inside
    BY <1>2 DEF IInv, TypeOK
  <2>2. ASSUME NEW q \in Publishers, Collect(q) \/ Step(q) \/ Crash(q)
        PROVE  q # p /\ (Collect(q) \/ Lock(q) \/ Crash(q))
    BY <1>2, <2>1, <2>2
       DEF Collect, Crash, Step, Lock, Capture, Reuse, Stage, Rename, Verify, Check, GiveUp,
           Switch, SwitchFails, Publish, VerifyFails, RollBack, WriteBack, RollBackFails, IInv, TypeOK
  <2>3. files[p] \in Contents
    BY <1>2 DEF IInv, HolderInv, Holder
  <2>4. QED BY <2>2, <2>3 DEF Next, Collect, Lock, Crash, Emit, Damage, Foreign, IInv, TypeOK
<1>3. ASSUME NEW p \in Publishers, pc'[p] # pc[p],
             pc'[p] \in {"verify", "reverify", "rollback", "restore"}
      PROVE  (Intact(files[p])' \/ pc'[p] # "verify")
             /\ (Restorable(p)' \/ pc'[p] = "verify")
  <2>1. \/ Reuse(p) \/ Rename(p) \/ Switch(p) \/ SwitchFails(p) \/ VerifyFails(p)
        \/ RollBack(p)
    BY <1>3, Movers
       DEF Collect, Crash, Step, Lock, Capture, Stage, Verify, Check, GiveUp, Publish,
           WriteBack, RollBackFails, IInv, TypeOK
  <2>2. CASE Reuse(p) \/ Rename(p)
    BY <1>3, <2>2 DEF Reuse, Rename, Intact, IInv, TypeOK, HolderInv, Holder
  <2>3. CASE VerifyFails(p) \/ RollBack(p)
    BY <1>3, <2>3
       DEF VerifyFails, RollBack, CalmInv, Restorable, Unmoved, Own, Pointer, IInv, TypeOK
  <2>4. CASE Switch(p) \/ SwitchFails(p)
    <3>1. /\ pc[p] = "switch" /\ Pointer = snap[p] /\ snap[p] \in PointerStates
          /\ files[p] \in Contents /\ (link = NoContent \/ json = NoContent)
          /\ files' = files /\ snap' = snap
          /\ link' \in Contents \cup {NoContent} /\ json' \in Contents \cup {NoContent}
      BY <2>4 DEF Switch, SwitchFails, CalmInv, IInv, TypeOK, HolderInv, Holder, PointerModeKept
    <3>2. pc'[p] # "verify"
      BY <2>4 DEF Switch, SwitchFails, IInv, TypeOK
    <3>3. /\ snap[p].mode = "symlink" => link = snap[p].target /\ json = NoContent
          /\ snap[p].mode = "json" => link = NoContent /\ json = snap[p].target
          /\ snap[p].mode = "new" => link = NoContent /\ json = NoContent
      BY <3>1, PointerFacts DEF IInv, TypeOK
    <3>4. Pointer'.target = IF link' # NoContent THEN link' ELSE json'
      BY DEF Pointer, Empty
    <3>5. snap[p].mode \in {"new", "symlink", "json"}
      BY <3>1 DEF PointerStates
    <3>6. \/ link' = link /\ json' = json
          \/ link' = files[p] /\ json' = json /\ snap[p].mode \in {"new", "symlink"}
          \/ json' = files[p] /\ link' = link /\ snap[p].mode \in {"new", "json"}
      BY <2>4, <3>5 DEF Switch, SwitchFails, Writable
    <3>7. Restorable(p)'
      <4>1. CASE snap[p].mode = "symlink"
        BY <3>1, <3>3, <3>6, <4>1 DEF Restorable, Unmoved, Own
      <4>2. CASE snap[p].mode = "json"
        BY <3>1, <3>3, <3>6, <4>2 DEF Restorable, Unmoved, Own
      <4>3. CASE snap[p].mode = "new"
        BY <3>1, <3>3, <3>4, <3>6, <4>3 DEF Restorable, Unmoved, Own, Pointer
      <4>4. QED BY <3>5, <4>1, <4>2, <4>3
    <3>8. QED BY <3>2, <3>7
  <2>5. QED BY <2>1, <2>2, <2>3, <2>4
<1>4. ASSUME NEW p \in Publishers
      PROVE  /\ pc'[p] = "verify" => Intact(files[p])'
             /\ pc'[p] \in {"reverify", "rollback", "restore"} => Restorable(p)'
  BY <1>1, <1>2, <1>3 DEF CalmInv, Intact, Restorable, Unmoved, Own, Pointer
<1>5. QED BY <1>1, <1>4 DEF CalmInv

\* In a lane that nothing outside disturbs, no publisher is refused by what
\* others left, whoever failed or died: it can capture the pointer, take or make
\* its generation, verify it, and put the pointer back (_publish_bundle_generation_impl).
THEOREM UndisturbedLaneServes ==
    ASSUME Fragile = {}
    PROVE  Spec => []NothingRefused
<1>1. IInv /\ CalmInv /\ [Next]_vars => CalmInv'
  BY CalmStep
<1>2. Init => CalmInv
  BY DEF Init, CalmInv
<1>3. IInv /\ CalmInv => NothingRefused
  BY CalmRefuses
<1>4. QED BY <1>1, <1>2, <1>3, Inductive, PTL DEF Spec
=============================================================================
