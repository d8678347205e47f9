---------------------------- MODULE BundleGeneration ----------------------------
(***************************************************************************)
(* One lane of bundle generations (core/bundle_generation.py): publishers  *)
(* copy the flat output of a merge into an immutable, content-addressed    *)
(* directory and then switch the lane's pointer, a symlink "current" or a  *)
(* file "current.json", to it.  A publisher may die between any two steps, *)
(* every system call may fail, and something that does not take the lane's *)
(* lock may rewrite the flat output, damage a generation or move the       *)
(* pointer.                                                                *)
(*                                                                         *)
(* A generation is named by the digest of its files: here, by the content  *)
(* of the flat output it was collected from.                               *)
(***************************************************************************)
CONSTANTS
    Publishers,   \* calls of publish_bundle_generation
    Contents,     \* file sets the flat output can hold
    NoContent,    \* no pointer, or nothing collected
    NoPublisher,  \* nobody holds the lock
    Fragile       \* generations that something outside may damage

ASSUME ConstantAssumption ==
    /\ NoContent \notin Contents
    /\ NoPublisher \notin Publishers
    /\ Fragile \subseteq Contents

VARIABLES
    flat,      \* what the flat output holds
    gens,      \* state of each generation directory
    hurt,      \* generations that were damaged
    link,      \* target of the symlink "current"
    json,      \* generation named by "current.json"
    foreign,   \* the pointer was moved by someone else
    lock,      \* holder of .publish.lock
    overtaken, \* history: the holder, when the pointer was moved after its last look
    pc,        \* where each publisher is
    files,     \* the content it collected
    snap,      \* the pointer state it captured
    held       \* kind of pointer the last successful publication left

laneVars == <<gens, hurt, link, json, foreign>>
lockVars == <<lock, overtaken>>
localVars == <<files, snap, held>>
vars == <<flat, laneVars, lockVars, pc, localVars>>

Modes == {"new", "symlink", "json"}
PointerStates == [mode : Modes, target : Contents \cup {NoContent}]
Empty == [mode |-> "new", target |-> NoContent]

\* What _capture_pointer_state finds, when it does not refuse.
Pointer ==
    IF link # NoContent THEN [mode |-> "symlink", target |-> link]
    ELSE IF json # NoContent THEN [mode |-> "json", target |-> json]
    ELSE Empty

Init ==
    /\ flat \in Contents
    /\ gens = [c \in Contents |-> "absent"]
    /\ hurt = {}
    /\ link = NoContent
    /\ json = NoContent
    /\ foreign = FALSE
    /\ lock = NoPublisher
    /\ overtaken = {}
    /\ pc = [p \in Publishers |-> "idle"]
    /\ files = [p \in Publishers |-> NoContent]
    /\ snap = [p \in Publishers |-> Empty]
    /\ held = "new"

-----------------------------------------------------------------------------
(* The publisher.  Each action is what happens between two points where it can
   die or be overtaken. *)

At(p, from) == pc[p] = from
Goto(p, to) == pc' = [pc EXCEPT ![p] = to]

\* Leaving exclusive_file_lock: a publisher ends one way or another.
Leave(p, to) == Goto(p, to) /\ lock' = NoPublisher /\ overtaken' = overtaken \ {p}
\* Mutant: the lock is not released on an error.
LeaveLocked(p, to) ==
    /\ Goto(p, to)
    /\ lock' = IF to = "published" THEN NoPublisher ELSE lock
    /\ overtaken' = overtaken \ {p}
Unlocking(p, to) == Leave(p, to)

\* _collect_bundle_files, before the lock.
Collect(p) ==
    /\ At(p, "idle") /\ Goto(p, "lock")
    /\ files' = [files EXCEPT ![p] = flat]
    /\ UNCHANGED <<flat, laneVars, lockVars, snap, held>>

\* Mutant: the lock is only advisory.
LockAnyway(p) ==
    /\ At(p, "lock") /\ Goto(p, "capture")
    /\ lock' = p
    /\ UNCHANGED <<flat, laneVars, overtaken, localVars>>
\* exclusive_file_lock: flock waits for the holder.
Lock(p) ==
    /\ At(p, "lock") /\ Goto(p, "capture")
    /\ lock = NoPublisher
    /\ lock' = p
    /\ UNCHANGED <<flat, laneVars, overtaken, localVars>>

\* _resolve_current_json_pointer_payload
ValidTarget(c) == gens[c] \notin {"absent", "badManifest"}

\* _capture_pointer_state refuses two pointers, a symlink whose target is not a
\* directory, and a JSON pointer whose manifest is not the one it names.
Capturable ==
    /\ link = NoContent \/ json = NoContent
    /\ link # NoContent => gens[link] # "absent"
    /\ json # NoContent => ValidTarget(json)

Capture(p) ==
    /\ At(p, "capture") /\ Goto(p, "install")
    /\ Capturable
    /\ snap' = [snap EXCEPT ![p] = Pointer]
    /\ UNCHANGED <<flat, laneVars, lockVars, files, held>>

\* _verify_existing_generation
Intact(c) == gens[c] = "intact"

\* _install_generation, the directory exists.
Reuse(p) ==
    /\ At(p, "install") /\ Goto(p, "verify")
    /\ Intact(files[p])
    /\ UNCHANGED <<flat, laneVars, lockVars, localVars>>

\* _install_generation, it does not: every file is copied to a stage, and its
\* digest must still be the one collected.
\* Mutant: the pointer is switched before the generation has its name.
StageSwitching(p) ==
    /\ At(p, "install") /\ Goto(p, "rename")
    /\ gens[files[p]] = "absent" /\ flat = files[p]
    /\ IF json = NoContent THEN link' = files[p] /\ UNCHANGED json
                           ELSE json' = files[p] /\ UNCHANGED link
    /\ UNCHANGED <<flat, gens, hurt, foreign, lockVars, localVars>>
Stage(p) ==
    /\ At(p, "install") /\ Goto(p, "rename")
    /\ gens[files[p]] = "absent" /\ flat = files[p]
    /\ UNCHANGED <<flat, laneVars, lockVars, localVars>>

\* The stage gets its name; an error of the fsync inside rename_path_no_replace
\* is taken for a generation that was there before, one of the fsync after it
\* gives up.
Rename(p) ==
    /\ At(p, "rename")
    /\ gens' = [gens EXCEPT ![files[p]] = "intact"]
    /\ \/ Goto(p, "verify") /\ UNCHANGED lockVars
       \/ Unlocking(p, "failed")
    /\ UNCHANGED <<flat, hurt, link, json, foreign, localVars>>

\* Mutant: a directory with the name is taken for the generation.
VerifyNothing(p) == gens[files[p]] \in {"intact", "badData", "badManifest"}
\* The tree is compared with the collected files once more.
VerifyTree(p) == Intact(files[p])
Verify(p) ==
    /\ At(p, "verify") /\ Goto(p, "check")
    /\ VerifyTree(p)
    /\ UNCHANGED <<flat, laneVars, lockVars, localVars>>

\* Mutant: no comparison with the captured state.
CheckBlindly(p) ==
    /\ At(p, "check") /\ Goto(p, "switch")
    /\ Capturable
    /\ UNCHANGED <<flat, laneVars, lockVars, localVars>>

\* _assert_pointer_snapshot_unchanged
Check(p) ==
    /\ At(p, "check") /\ Goto(p, "switch")
    /\ Capturable /\ Pointer = snap[p]
    /\ UNCHANGED <<flat, laneVars, lockVars, localVars>>

\* Anything that refuses or fails before the pointer is touched.
GiveUp(p) ==
    /\ pc[p] \in {"capture", "install", "rename", "verify", "check"}
    /\ Unlocking(p, "failed")
    /\ UNCHANGED <<flat, laneVars, localVars>>

\* Mutant: a lane in symlink mode falls back to JSON.
WritableFallback(p) == CASE snap[p].mode = "json" -> {"json"} [] OTHER -> {"symlink", "json"}
\* _publish_current_pointer: the mode is sticky, a new lane gets a JSON pointer
\* where symlinks are not supported.
Writable(p) ==
    CASE snap[p].mode = "new"     -> {"symlink", "json"}
      [] snap[p].mode = "symlink" -> {"symlink"}
      [] snap[p].mode = "json"    -> {"json"}

\* The entry is replaced; an error after that (fsync, readback) rolls back.
Switch(p) ==
    /\ At(p, "switch")
    /\ \/ "symlink" \in Writable(p) /\ link' = files[p] /\ UNCHANGED json
       \/ "json" \in Writable(p) /\ json' = files[p] /\ UNCHANGED link
    /\ \E next \in {"reverify", "rollback"} : Goto(p, next)
    /\ UNCHANGED <<flat, gens, hurt, foreign, lockVars, localVars>>

SwitchFails(p) ==
    /\ At(p, "switch") /\ Goto(p, "rollback")
    /\ UNCHANGED <<flat, laneVars, lockVars, localVars>>

\* The tree is compared again while the lock is still held.
Publish(p) ==
    /\ At(p, "reverify") /\ Unlocking(p, "published")
    /\ VerifyTree(p)
    /\ held' = Pointer.mode
    /\ UNCHANGED <<flat, laneVars, files, snap>>

VerifyFails(p) ==
    /\ At(p, "reverify") /\ Goto(p, "rollback")
    /\ UNCHANGED <<flat, laneVars, lockVars, localVars>>

\* Mutant: the pointer a first publication made stays.
RestoreOldOnly(p) ==
    /\ link' = IF snap[p].mode = "symlink" THEN snap[p].target ELSE link
    /\ json' = IF snap[p].mode = "json" THEN snap[p].target ELSE json
\* _restore_pointer_snapshot writes back the captured target, or removes the
\* pointer of a first publication.
Restore(p) ==
    /\ link' = IF snap[p].mode = "symlink" THEN snap[p].target ELSE NoContent
    /\ json' = IF snap[p].mode = "json" THEN snap[p].target ELSE NoContent

\* What the rollback finds in the lane: the captured pointer, or the publisher's own.
Unmoved(p) ==
    CASE snap[p].mode = "symlink" -> link = snap[p].target
      [] snap[p].mode = "json"    -> json = snap[p].target
      [] snap[p].mode = "new"     -> Pointer = Empty
\* Mutant: the rollback does not ask whose pointer it finds.
OwnOrAnother(p) == Pointer # Empty
Own(p) ==
    CASE snap[p].mode = "symlink" -> link = files[p]
      [] snap[p].mode = "json"    -> json = files[p]
      [] snap[p].mode = "new"     -> Pointer.target = files[p]

Restorable(p) == (link = NoContent \/ json = NoContent) /\ (Unmoved(p) \/ Own(p))

\* The pointer is read: there is nothing to do when it has not moved, and it is
\* written back only when it is the publisher's own.
RollBack(p) ==
    /\ At(p, "rollback") /\ Restorable(p)
    /\ \/ Unmoved(p) /\ Unlocking(p, "failed")
       \/ ~ Unmoved(p) /\ Goto(p, "restore") /\ lock' = lock /\ overtaken' = overtaken \ {p}
    /\ UNCHANGED <<flat, laneVars, localVars>>

\* It is replaced or removed by name, by system calls of their own; a JSON
\* pointer that was written back must name a valid generation.
WriteBack(p) ==
    /\ At(p, "restore") /\ Unlocking(p, "failed")
    /\ Restore(p)
    /\ snap[p].mode = "json" => ValidTarget(snap[p].target)
    /\ UNCHANGED <<flat, gens, hurt, foreign, localVars>>

\* A rollback that refuses, or fails before or after it wrote, reported as such.
RollBackFails(p) ==
    /\ pc[p] \in {"rollback", "restore"} /\ Unlocking(p, "rollbackFailed")
    /\ \/ At(p, "restore") /\ Restore(p)
       \/ UNCHANGED <<link, json>>
    /\ UNCHANGED <<flat, gens, hurt, foreign, localVars>>

\* The process dies; the kernel drops its flock.
Crash(p) ==
    /\ pc[p] \notin {"idle", "published", "failed", "rollbackFailed", "dead"}
    /\ Goto(p, "dead")
    /\ lock' = IF lock = p THEN NoPublisher ELSE lock
    /\ overtaken' = overtaken \ {p}
    /\ UNCHANGED <<flat, laneVars, localVars>>

-----------------------------------------------------------------------------
(* What does not take the lock *)

\* A merge writes its flat output.
Emit(c) ==
    /\ flat' = c
    /\ UNCHANGED <<laneVars, lockVars, pc, localVars>>

\* A generation is tampered with or removed.
Damage(c) ==
    /\ c \in Fragile \ hurt /\ gens[c] = "intact"
    /\ hurt' = hurt \cup {c}
    /\ \E s \in {"absent", "badData", "badManifest"} : gens' = [gens EXCEPT ![c] = s]
    /\ UNCHANGED <<flat, link, json, foreign, lockVars, pc, localVars>>

\* The pointer is moved to another generation, once, at any moment.  A publisher
\* that is between its last look at the pointer and its write is overtaken.
Foreign(c) ==
    /\ ~ foreign /\ Fragile # {}
    /\ gens[c] # "absent" /\ Pointer # Empty /\ Pointer.target # c
    /\ foreign' = TRUE
    /\ overtaken' = {p \in Publishers : pc[p] \in {"switch", "restore"}}
    /\ IF link # NoContent THEN link' = c /\ UNCHANGED json
                           ELSE json' = c /\ UNCHANGED link
    /\ UNCHANGED <<flat, gens, hurt, lock, pc, localVars>>

-----------------------------------------------------------------------------
Step(p) ==
    \/ Lock(p) \/ Capture(p) \/ Reuse(p) \/ Stage(p) \/ Rename(p) \/ Verify(p)
    \/ Check(p) \/ GiveUp(p) \/ Switch(p) \/ SwitchFails(p) \/ Publish(p)
    \/ VerifyFails(p) \/ RollBack(p) \/ WriteBack(p) \/ RollBackFails(p)

Next ==
    \/ \E p \in Publishers : Collect(p) \/ Step(p) \/ Crash(p)
    \/ \E c \in Contents : Emit(c) \/ Damage(c) \/ Foreign(c)

Spec == Init /\ [][Next]_vars

\* A publisher that has begun goes on or fails.
FairSpec == Spec /\ \A p \in Publishers : WF_vars(Step(p))

-----------------------------------------------------------------------------
(* Properties *)

Ended == {"published", "failed", "rollbackFailed", "dead"}
Inside == {"capture", "install", "rename", "verify", "check", "switch", "reverify",
           "rollback", "restore"}

\* Every variable has its type, and whoever is inside the lock holds it.
TypeOK ==
    /\ flat \in Contents
    /\ gens \in [Contents -> {"absent", "intact", "badData", "badManifest"}]
    /\ hurt \subseteq Fragile
    /\ link \in Contents \cup {NoContent}
    /\ json \in Contents \cup {NoContent}
    /\ foreign \in BOOLEAN
    /\ overtaken \subseteq Publishers
    /\ lock \in Publishers \cup {NoPublisher}
    /\ pc \in [Publishers -> {"idle", "lock"} \cup Inside \cup Ended]
    /\ files \in [Publishers -> Contents \cup {NoContent}]
    /\ snap \in [Publishers -> PointerStates]
    /\ held \in Modes
    /\ \A p \in Publishers : pc[p] \in Inside <=> lock = p

\* bundle_generation.py:891: wherever a publisher dies or fails, the lane
\* selects a generation that is complete, unless that one was damaged from
\* outside; a reader that follows the pointer never meets half a bundle.
SelectedIsComplete ==
    Pointer # Empty => Intact(Pointer.target) \/ Pointer.target \in hurt

\* bundle_generation.py:867: a lane never has both pointers, which would stop
\* every later publication, and once a publication has succeeded the lane keeps
\* its kind of pointer, through failures and rollbacks of others.
PointerModeKept ==
    /\ link = NoContent \/ json = NoContent
    /\ held # "new" => Pointer.mode = held

\* bundle_generation.py:946: a publisher that fails, and does not say that its
\* rollback failed, leaves the pointer as it was when it took the lock.
FailedRestores ==
    [][\A p \in Publishers :
          ~ At(p, "capture") /\ ~ At(p, "failed") /\ pc'[p] = "failed" /\ ~ foreign
              => Pointer' = snap[p]]_vars

\* bundle_generation.py:923: what a publisher replaces, by its switch or by its
\* rollback, is the pointer it captured or the one it wrote.  The code has no
\* compare-and-swap: a move that falls between a publisher's last look (:929 before
\* the switch, :671-729 in the rollback) and the write that follows is overwritten,
\* and is the only one that is.
NoBlindOverwrite ==
    [][\A p \in Publishers :
          pc'[p] # pc[p] /\ Pointer' # Pointer
              => Pointer = snap[p] \/ Pointer.target = files[p] \/ p \in overtaken]_vars

\* bundle_generation.py:935: success means that the lane selected this
\* publisher's files, complete, at a moment under the lock.
PublishedIsSelected ==
    [][\A p \in Publishers :
          ~ At(p, "published") /\ pc'[p] = "published" /\ ~ foreign
              => Pointer.target = files[p] /\ Intact(files[p])]_vars

\* publish_bundle_generation: what a publisher ends with is true of its lane,
\* success and failure.
OutcomeIsTrue == FailedRestores /\ PublishedIsSelected

\* bundle_generation.py:910: however others fail or die, a publisher gets the
\* lock and ends.
PublisherEnds == \A p \in Publishers : At(p, "lock") ~> pc[p] \in Ended
=============================================================================
