---------------------------- MODULE JobFilesProofs ----------------------------
(***************************************************************************)
(* What the jobs' files are worth: snapshots, artifacts and final statuses *)
(* on the disk, for every number of clients, requests and jobs.  FInv is   *)
(* inductive under IInv, with crashes; SteadyInv only while the process    *)
(* lives and reports can be registered.                                    *)
(*                                                                         *)
(* Three promises of the docs fail in general (snapshots of deleted jobs,  *)
(* identical active jobs, jobs left canceling).  The last theorems say     *)
(* where they hold, so that nothing else can break them.                   *)
(***************************************************************************)
EXTENDS JobServiceProofs

\* Acquisition without a failure leaves a snapshot; with one, no scan follows.
SnapshotInv ==
    /\ rpc \in {"writeReport", "register", "registered"} /\ acquired /\ Snapshots =>
          rjob \in snaps
    /\ rpc \in {"scan", "write"} /\ Snapshots => rjob \in snaps

\* What a job lists is registered and there, in memory and on the disk.
ListInv ==
    /\ \A j \in Jobs \ gced : \A k \in artIds[j] : <<j, k>> \in artCache \cap files
    /\ \A j \in Jobs : diskArtIds[j] \subseteq artIds[j]
    /\ \A j \in Jobs \ gced : \A k \in diskArtIds[j] : <<j, k>> \in diskArts
    /\ artCache \subseteq diskArts

\* What the worker is about to register or list is there.
OutputInv ==
    /\ rpc \in {"idle", "skip", "saveSkip", "start", "saveRunning"} => report = "none"
    /\ rpc = "register" => report = "written"
    /\ rpc \in Working /\ report = "written" => <<rjob, "report">> \in files
    /\ rpc \in {"registered", "exceptRegistered"} => <<rjob, "report">> \in artCache \cap files
    /\ rpc = "addBundle" => <<rjob, "bundle">> \in files
    /\ rpc = "succeed" => <<rjob, "bundle">> \in artCache \cap files

\* A job that a thread, the executor or the worker will still run.
Ahead(j) ==
    \/ InQueue(j)
    \/ \E c \in Clients : cpc[c] \in {"add", "submit"} /\ cjob[c] = j
    \/ rjob = j /\ rpc \in {"skip", "start", "saveRunning"} \cup Working

\* Nothing that has ended on the disk is ahead, or looks as if it were.
EndedInv ==
    \A j \in Jobs : diskStatus[j] \in Terminal =>
        status[j] \notin {"queued", "running"} /\ ~ Ahead(j)

FInv == SnapshotInv /\ ListInv /\ OutputInv /\ EndedInv

\* A collected job does not come back, and with one merges directory neither
\* does its snapshot.
GoneInv ==
    /\ \A j \in gced : j <= next /\ ~ Ahead(j)
    /\ CustomDir = {} => \A j \in gced : j \notin snaps

\* One client thread, and nobody sends force_new.
OneClient == TRUE \notin Forces /\ \A c, d \in Clients : c = d

Live(j) == status[j] \in Active

\* With one client: active jobs have different requests, in memory and on the
\* disk, they are stored or about to be, and what the client found is the
\* active job of its request, if there is one.
SameLive   == \A j, k \in Jobs : Live(j) /\ Live(k) /\ reqOf[j] = reqOf[k] => j = k
SameDisk   ==
    \A j, k \in Jobs :
        diskStatus[j] \in Active /\ diskStatus[k] \in Active /\ reqOf[j] = reqOf[k] => j = k
LiveStored ==
    \A j \in Jobs : Live(j) => j \in cached \/ \E c \in Clients : cpc[c] = "add" /\ cjob[c] = j
ClientSees ==
    \A c \in Clients :
        /\ cpc[c] = "decide" => \A j \in Jobs : Live(j) /\ reqOf[j] = creq[c] => j = cjob[c]
        /\ cpc[c] \in {"cancel", "cancelSave"} =>
              /\ cjob[c] \in cached
              /\ \A j \in Jobs : Live(j) /\ reqOf[j] = reqOf[cjob[c]] => j = cjob[c]

SameInv == SameLive /\ SameDisk /\ LiveStored /\ ClientSees

\* While the process lives, no artifact and no report is forgotten.
SteadyInv ==
    /\ ~ restarting
    /\ \A a \in artCache :
          \/ a[1] \in cached /\ a[2] \in artIds[a[1]]
          \/ a = <<rjob, "report">> /\ rpc \in {"registered", "exceptRegistered"}
          \/ a = <<rjob, "bundle">> /\ rpc = "succeed"
    /\ \A j \in Jobs \ gced : <<j, "report">> \in files =>
          \/ artIds[j] # {}
          \/ rjob = j /\ rpc \in {"register", "registered"}

-----------------------------------------------------------------------------
(* What other threads leave to the worker *)

USE DEF vars, jobVars, memVars, diskVars, runVars, clientVars, procVars
USE DEF Jobs, NoJob, Active, Terminal, Stopping, Status, LockFree
USE DEF Goto, At, RunGoto, RunUnchanged

\* The worker's job is a stored, active job.
LEMMA WorkersJob ==
    ASSUME IInv, rpc \in Working
    PROVE  rjob \in Jobs /\ rjob \in ActiveJobs /\ rjob <= next
BY DEF IInv, RunnerInv, IdInv, TypeOK, StoreTypes, ActiveJobs

\* cleanup_jobs and the retention of snapshots spare active jobs.
LEMMA CollectSpares ==
    ASSUME IInv, NEW limit \in 0 .. next
    PROVE  Collectable(limit) \subseteq Jobs \ ActiveJobs
BY DEF Collectable, IInv, TypeOK, StoreTypes

\* Every step that is not the worker's.
Aside ==
    \/ \E c \in Clients : CreateCollect(c) \/ CancelRead(c) \/ RestartRequest(c) \/ Handler(c)
    \/ Reconcile \/ Serve

LEMMA AsideSpares ==
    ASSUME IInv, Aside
    PROVE  /\ UNCHANGED <<rpc, rjob, report, acquired>>
           /\ gced \subseteq gced'
           /\ rpc \in Working =>
                /\ reqOf'[rjob] = reqOf[rjob]
                /\ rjob \in snaps => rjob \in snaps'
                /\ \A k \in Kinds : /\ <<rjob, k>> \in artCache => <<rjob, k>> \in artCache'
                                    /\ <<rjob, k>> \in files => <<rjob, k>> \in files'
<1>1. ASSUME NEW c \in Clients, CreateCollect(c)
      PROVE  /\ UNCHANGED <<rpc, rjob, report, acquired, reqOf>>
             /\ gced \subseteq gced'
             /\ rpc \in Working =>
                /\ rjob \in snaps => rjob \in snaps'
                /\ \A k \in Kinds : /\ <<rjob, k>> \in artCache => <<rjob, k>> \in artCache'
                                    /\ <<rjob, k>> \in files => <<rjob, k>> \in files'
  <2>1. PICK limit \in 0 .. next : RemoveJobs(Collectable(limit))
    BY <1>1 DEF CreateCollect
  <2>2. rpc \in Working => rjob \notin Collectable(limit)
    BY CollectSpares, WorkersJob
  <2>3. UNCHANGED <<rpc, rjob, report, acquired, reqOf>>
    BY <1>1 DEF CreateCollect
  <2>4. QED BY <2>1, <2>2, <2>3 DEF RemoveJobs
<1>2. ASSUME NEW c \in Clients, CreatePrune(c)
      PROVE  /\ UNCHANGED <<rpc, rjob, report, acquired, reqOf, gced, artCache, files>>
             /\ rpc \in Working /\ rjob \in snaps => rjob \in snaps'
  BY <1>2, WorkersJob DEF CreatePrune, PruneSnapshots
<1>3. ASSUME NEW c \in Clients, CreateNew(c)
      PROVE  /\ UNCHANGED <<rpc, rjob, report, acquired, snaps, gced, artCache, files>>
             /\ rpc \in Working => reqOf'[rjob] = reqOf[rjob]
  <2>1. rpc \in Working => rjob # next + 1 /\ rjob \in Jobs
    BY WorkersJob DEF IInv, TypeOK, StoreTypes
  <2>2. QED BY <1>3, <2>1 DEF CreateNew, IInv, TypeOK, StoreTypes
<1>4. ASSUME NEW c \in Clients,
             \/ CancelRead(c) \/ RestartRequest(c) \/ CreateSaveJobs(c)
             \/ CreateSaveArtifacts(c) \/ CreateFind(c) \/ CreateReuse(c) \/ CreateAdd(c)
             \/ CreateSubmit(c) \/ CancelWrite(c) \/ CancelSave(c)
      PROVE  UNCHANGED <<rpc, rjob, report, acquired, reqOf, snaps, gced, artCache, files>>
  BY <1>4 DEF CancelRead, RestartRequest, CreateSaveJobs, CreateSaveArtifacts, CreateFind,
              CreateReuse, CreateAdd, CreateSubmit, CancelWrite, CancelSave
<1>5. CASE Reconcile \/ Serve
  BY <1>5 DEF Reconcile, Serve
<1>6. QED BY <1>1, <1>2, <1>3, <1>4, <1>5 DEF Aside, Handler

\* Where the worker is in its job when it matters.
LEMMA Places ==
    /\ {"writeReport", "register", "registered", "scan", "write", "addBundle", "succeed",
        "exceptRegistered", "except", "resolve", "acquire", "planned", "fail"} \subseteq Working
    /\ Working \cap {"idle", "saveSkip", "log", "save", "finally", "skip", "start",
                     "saveRunning"} = {}
BY DEF Working, RunLabels, Ending

-----------------------------------------------------------------------------
(* Snapshots *)

LEMMA SnapshotStep == ASSUME IInv, SnapshotInv, [Next]_vars PROVE SnapshotInv'
<1>1. CASE Aside
  BY <1>1, AsideSpares, Places DEF SnapshotInv, Snapshots
<1>2. CASE Crash \/ Restart
  BY <1>2 DEF Crash, Restart, Stop, RunReturn, SnapshotInv
<1>3. CASE UNCHANGED vars
  BY <1>3 DEF SnapshotInv, Snapshots
<1>4. CASE Runner
  <2>1. UNCHANGED reqOf
    BY <1>4 DEF Runner, RunStart, RunSkip, RunSaveSkip, RunMarkRunning, RunSaveRunning,
         RunResolve, RunAcquire, RunWriteReport, RunRegister, RunRegisterFails,
         RunRegistered, RunPlanned, RunCanceled, RunScan, RunWrite, RunAddBundle,
         RunSucceed, RunRaise, RunExcept, RunExceptRegisterFails, RunExceptRegistered,
         RunFail, RunLog, RunSave, RunFinally
  <2>2. CASE RunStart
    BY <2>2 DEF RunStart, SnapshotInv
  <2>3. CASE RunSkip \/ RunSaveSkip \/ RunMarkRunning \/ RunSaveRunning
    BY <2>3 DEF RunSkip, RunSaveSkip, RunMarkRunning, RunSaveRunning, RunReturn, SnapshotInv
  <2>4. CASE RunResolve
    <3>1. rpc' = "scan" => ~ Snapshots
      BY <2>4 DEF RunResolve, NeedsReport, Snapshots
    <3>2. QED BY <2>1, <2>4, <3>1 DEF RunResolve, Snapshots, SnapshotInv
  <2>5. CASE RunAcquire
    <3>1. acquired' /\ Snapshots => rjob \in snaps'
      BY <2>5 DEF RunAcquire
    <3>2. rpc' = "writeReport" /\ rjob' = rjob
      BY <2>5 DEF RunAcquire
    <3>3. QED BY <2>1, <3>1, <3>2 DEF SnapshotInv, Snapshots
  <2>6. CASE RunWriteReport \/ RunRegister
    BY <2>1, <2>6 DEF RunWriteReport, RunRegister, SnapshotInv, Snapshots
  <2>7. CASE RunRegisterFails \/ RunRegistered
    BY <2>1, <2>7 DEF RunRegisterFails, RunRegistered, AfterRegister, SnapshotInv, Snapshots
  <2>8. CASE RunScan
    BY <2>1, <2>8 DEF RunScan, SnapshotInv, Snapshots
  <2>9. CASE RunPlanned \/ RunCanceled \/ RunWrite \/ RunAddBundle \/ RunSucceed \/ RunRaise
    BY <2>9 DEF RunPlanned, RunCanceled, RunWrite, RunAddBundle, RunSucceed, RunRaise,
                SnapshotInv
  <2>10. CASE \/ RunExcept \/ RunExceptRegisterFails \/ RunExceptRegistered
              \/ RunFail \/ RunLog \/ RunSave \/ RunFinally
    BY <2>10 DEF RunExcept, RunExceptRegisterFails, RunExceptRegistered, RunFail, RunLog,
                 RunSave, RunFinally, RunReturn, SnapshotInv
  <2>11. QED BY <1>4, <2>2, <2>3, <2>4, <2>5, <2>6, <2>7, <2>8, <2>9, <2>10 DEF Runner
<1>5. QED BY <1>1, <1>2, <1>3, <1>4 DEF Next, Aside

-----------------------------------------------------------------------------
(* Outputs of the worker *)

LEMMA OutputStep == ASSUME IInv, OutputInv, [Next]_vars PROVE OutputInv'
<1>1. CASE Aside
  <2>1. "report" \in Kinds /\ "bundle" \in Kinds
    BY DEF Kinds
  <2>2. QED BY <1>1, <2>1, AsideSpares, Places DEF OutputInv
<1>2. CASE Crash \/ Restart
  BY <1>2, Places DEF Crash, Restart, Stop, RunReturn, OutputInv
<1>3. CASE UNCHANGED vars
  BY <1>3 DEF OutputInv
<1>4. CASE Runner
  <2>1. CASE RunStart
    BY <2>1, Places DEF RunStart, OutputInv
  <2>2. CASE RunSkip \/ RunSaveSkip \/ RunMarkRunning
    BY <2>2, Places DEF RunSkip, RunSaveSkip, RunMarkRunning, RunReturn, OutputInv
  <2>3. CASE RunSaveRunning
    BY <2>3, Places DEF RunSaveRunning, OutputInv
  <2>4. CASE RunResolve \/ RunAcquire
    BY <2>4, Places DEF RunResolve, RunAcquire, OutputInv
  <2>5. CASE RunWriteReport \/ RunRegister
    <3>1. CASE RunWriteReport
      BY <3>1, Places DEF RunWriteReport, OutputInv
    <3>2. CASE RunRegister
      <4>1. <<rjob, "report">> \in files /\ <<rjob, "report">> \in artCache'
        BY <3>2, Places DEF RunRegister, AddArtifact, OutputInv
      <4>2. rpc' = "registered" /\ UNCHANGED <<rjob, files, report>>
        BY <3>2 DEF RunRegister
      <4>3. QED BY <4>1, <4>2 DEF OutputInv
    <3>3. QED BY <2>5, <3>1, <3>2
  <2>6. CASE RunRegisterFails \/ RunRegistered
    BY <2>6, Places DEF RunRegisterFails, RunRegistered, AfterRegister, OutputInv
  <2>7. CASE RunPlanned \/ RunCanceled \/ RunScan
    BY <2>7, Places DEF RunPlanned, RunCanceled, RunScan, OutputInv
  <2>8. CASE RunWrite \/ RunAddBundle \/ RunSucceed
    BY <2>8, Places DEF RunWrite, RunAddBundle, RunSucceed, AddArtifact, OutputInv
  <2>9. CASE RunRaise \/ RunExcept \/ RunExceptRegisterFails \/ RunExceptRegistered
    BY <2>9, Places
       DEF RunRaise, RunExcept, RunExceptRegisterFails, RunExceptRegistered, AddArtifact,
           OutputInv
  <2>10. CASE RunFail \/ RunLog \/ RunSave \/ RunFinally
    BY <2>10, Places DEF RunFail, RunLog, RunSave, RunFinally, RunReturn, OutputInv
  <2>11. QED BY <1>4, <2>1, <2>2, <2>3, <2>4, <2>5, <2>6, <2>7, <2>8, <2>9, <2>10 DEF Runner
<1>5. QED BY <1>1, <1>2, <1>3, <1>4 DEF Next, Aside

-----------------------------------------------------------------------------
(* Lists *)

\* Saving what the jobs list, or not, adds nothing new to the disk.
LEMMA ListSaved ==
    ASSUME TypeOK', ListInv, UNCHANGED <<gced, artIds, artCache, files, diskArts>>,
           SaveJobs \/ UNCHANGED diskArtIds
    PROVE  ListInv'
<1>1. CASE UNCHANGED diskArtIds
  BY <1>1 DEF ListInv
<1>2. CASE SaveJobs
  <2>1. \A j \in Jobs : diskArtIds'[j] \subseteq artIds[j]
    BY <1>2 DEF SaveJobs
  <2>2. \A j \in Jobs \ gced : \A k \in diskArtIds'[j] : <<j, k>> \in diskArts
    BY <2>1 DEF ListInv
  <2>3. QED BY <2>1, <2>2 DEF ListInv
<1>3. QED BY <1>1, <1>2

\* The worker lists one more of its outputs, which is there, saved or not.
LEMMA ListGrows ==
    ASSUME IInv, ListInv, rpc \in Working, LockFree, NEW k \in Kinds,
           <<rjob, k>> \in artCache \cap files,
           artIds' = [artIds EXCEPT ![rjob] = @ \cup {k}],
           UNCHANGED <<gced, artCache, files, diskArts>>,
           SaveJobs \/ UNCHANGED diskArtIds
    PROVE  ListInv'
<1>1. diskArts = artCache
  BY DEF IInv, FileInv
<1>2. /\ rjob \in Jobs /\ artIds'[rjob] = artIds[rjob] \cup {k}
      /\ \A j \in Jobs \ {rjob} : artIds'[j] = artIds[j]
  BY WorkersJob DEF IInv, TypeOK, StoreTypes
<1>3. \A j \in Jobs \ gced : \A l \in artIds'[j] : <<j, l>> \in artCache \cap files
  BY <1>2 DEF ListInv
<1>4. \A j \in Jobs : diskArtIds'[j] \subseteq artIds'[j]
  <2>1. CASE UNCHANGED diskArtIds
    BY <1>2, <2>1 DEF ListInv
  <2>2. CASE SaveJobs
    BY <2>2 DEF SaveJobs
  <2>3. QED BY <2>1, <2>2
<1>5. QED BY <1>1, <1>3, <1>4 DEF ListInv

\* An artifact more in both caches.
LEMMA ArtifactAdded ==
    ASSUME IInv, ListInv, NEW a, AddArtifact(a),
           UNCHANGED <<gced, artIds, files, diskArtIds>>
    PROVE  ListInv'
BY DEF IInv, FileInv, AddArtifact, ListInv

LEMMA ListStep == ASSUME IInv, ListInv, OutputInv, [Next]_vars PROVE ListInv'
<1>1. TypeOK'
  BY NextIInv DEF IInv
<1>2. ASSUME NEW c \in Clients, CreateCollect(c) PROVE ListInv'
  <2>1. PICK limit \in 0 .. next : RemoveJobs(Collectable(limit))
    BY <1>2 DEF CreateCollect
  <2>2. UNCHANGED <<artIds, diskArtIds, diskArts>>
    BY <1>2 DEF CreateCollect
  <2>3. QED BY <2>1, <2>2 DEF RemoveJobs, ListInv
<1>3. ASSUME NEW c \in Clients, CreateSaveArtifacts(c) PROVE ListInv'
  <2>1. diskArts' = artCache /\ UNCHANGED <<gced, artIds, artCache, files, diskArtIds>>
    BY <1>3 DEF CreateSaveArtifacts
  <2>2. QED BY <2>1 DEF ListInv
<1>4. ASSUME NEW c \in Clients, CreateSaveJobs(c) \/ CreateAdd(c) \/ CancelSave(c)
      PROVE  ListInv'
  BY <1>1, <1>4, ListSaved DEF CreateSaveJobs, CreateAdd, CancelSave, UpdateJob
<1>5. ASSUME NEW c \in Clients,
             \/ CancelRead(c) \/ RestartRequest(c) \/ CreatePrune(c) \/ CreateFind(c)
             \/ CreateReuse(c) \/ CreateNew(c) \/ CreateSubmit(c) \/ CancelWrite(c)
      PROVE  ListInv'
  <2>1. UNCHANGED <<gced, artIds, artCache, files, diskArts, diskArtIds>>
    BY <1>5 DEF CancelRead, RestartRequest, CreatePrune, CreateFind, CreateReuse, CreateNew,
                CreateSubmit, CancelWrite
  <2>2. QED BY <1>1, <2>1, ListSaved
<1>6. CASE Reconcile \/ Serve \/ UNCHANGED vars
  BY <1>1, <1>6, ListSaved DEF Reconcile, Serve, UpdateJob
<1>7. CASE Crash \/ Restart
  <2>1. artIds' = diskArtIds /\ artCache' = diskArts
        /\ UNCHANGED <<gced, files, diskArtIds, diskArts>>
    BY <1>7 DEF Crash, Restart, Stop
  <2>2. QED BY <2>1 DEF ListInv
<1>8. CASE Runner
  <2>1. CASE \/ RunStart \/ RunSkip \/ RunMarkRunning \/ RunResolve \/ RunRegisterFails
             \/ RunPlanned \/ RunCanceled \/ RunRaise \/ RunExceptRegisterFails
             \/ RunFail \/ RunLog \/ RunFinally
    <3>1. UNCHANGED <<gced, artIds, artCache, files, diskArts, diskArtIds>>
      BY <2>1 DEF RunStart, RunSkip, RunMarkRunning, RunResolve, RunRegisterFails,
                  RunPlanned, RunCanceled, RunRaise, RunExceptRegisterFails, RunFail,
                  RunLog, RunFinally
    <3>2. QED BY <1>1, <3>1, ListSaved
  <2>2. CASE RunSaveSkip \/ RunSaveRunning \/ RunAcquire \/ RunScan \/ RunSave
    BY <1>1, <2>2, ListSaved DEF RunSaveSkip, RunSaveRunning, RunAcquire, RunScan, RunSave,
                                 SaveWarnings, UpdateJob
  <2>3. CASE RunWriteReport \/ RunWrite
    BY <2>3 DEF RunWriteReport, RunWrite, ListInv
  <2>4. CASE RunRegister \/ RunAddBundle
    BY <2>4, ArtifactAdded DEF RunRegister, RunAddBundle
  <2>5. CASE RunExcept
    <3>1. CASE report = "written"
      BY <2>5, <3>1, ArtifactAdded DEF RunExcept
    <3>2. CASE report # "written"
      BY <1>1, <2>5, <3>2, ListSaved DEF RunExcept
    <3>3. QED BY <3>1, <3>2
  <2>6. CASE RunRegistered \/ RunExceptRegistered
    <3>1. "report" \in Kinds /\ rpc \in Working /\ <<rjob, "report">> \in artCache \cap files
      BY <2>6, Places DEF RunRegistered, RunExceptRegistered, OutputInv, Kinds
    <3>2. QED BY <2>6, <3>1, ListGrows DEF RunRegistered, RunExceptRegistered, UpdateJob
  <2>7. CASE RunSucceed
    <3>1. /\ rpc \in Working
          /\ artIds' = [artIds EXCEPT ![rjob] = @ \cup {"bundle"}]
          /\ UNCHANGED <<gced, artCache, files, diskArts, diskArtIds>>
          /\ <<rjob, "bundle">> \in artCache \cap files
      BY <2>7, Places DEF RunSucceed, OutputInv
    <3>2. /\ rjob \in Jobs /\ artIds'[rjob] = artIds[rjob] \cup {"bundle"}
          /\ \A j \in Jobs \ {rjob} : artIds'[j] = artIds[j]
      BY <3>1, WorkersJob DEF IInv, TypeOK, StoreTypes
    <3>3. QED BY <3>1, <3>2 DEF ListInv
  <2>8. QED BY <1>8, <2>1, <2>2, <2>3, <2>4, <2>5, <2>6, <2>7 DEF Runner
<1>9. QED BY <1>2, <1>3, <1>4, <1>5, <1>6, <1>7, <1>8 DEF Next, Handler

-----------------------------------------------------------------------------
(* Final statuses *)

\* What a save writes as ended has ended in memory, and nothing ahead has.
LEMMA EndedSaved ==
    ASSUME IInv', SaveJobs
    PROVE  EndedInv'
<1>1. ASSUME NEW j \in Jobs, diskStatus'[j] \in Terminal
      PROVE  status'[j] \notin {"queued", "running"} /\ ~ Ahead(j)'
  <2>1. status'[j] \in Terminal
    BY <1>1 DEF SaveJobs
  <2>2. ~ Ahead(j)'
    BY <1>1, <2>1 DEF IInv, Ahead, InQueue, QueueInv, ClientInv, RunnerInv
  <2>3. QED BY <2>1, <2>2
<1>2. QED BY <1>1 DEF EndedInv

\* Only Job.create puts a job ahead that was not.
LEMMA AheadMoves ==
    ASSUME IInv, [Next]_vars, NEW j \in Jobs, Ahead(j)'
    PROVE  Ahead(j) \/ (next < j /\ next' = j)
<1>1. TypeOK
  BY DEF IInv
<1>2. ASSUME UNCHANGED <<queue, cpc, cjob>>,
             rpc' \in Working \cup {"skip", "start", "saveRunning"} =>
                rpc \in Working \cup {"skip", "start", "saveRunning"} /\ rjob' = rjob
      PROVE  Ahead(j)
  BY <1>2 DEF Ahead, InQueue
<1>3. ASSUME NEW c \in Clients, CreateCollect(c) \/ CancelRead(c) \/ RestartRequest(c) \/ Handler(c)
      PROVE  Ahead(j) \/ (next < j /\ next' = j)
  <2>1. CASE CreateNew(c)
    <3>1. /\ next' = next + 1 /\ next < next' /\ UNCHANGED <<queue, rpc, rjob>>
      BY <1>1, <2>1 DEF CreateNew, TypeOK, StoreTypes
    <3>2. \A d \in Clients : cpc'[d] \in {"add", "submit"} =>
            cjob'[d] = next' \/ (cpc'[d] = cpc[d] /\ cjob'[d] = cjob[d])
      BY <1>1, <2>1 DEF CreateNew, TypeOK, ThreadTypes
    <3>3. QED BY <3>1, <3>2 DEF Ahead, InQueue
  <2>2. CASE CreateSubmit(c)
    <3>1. /\ UNCHANGED <<rpc, rjob>> /\ cpc[c] = "submit"
          /\ queue' = Submitted(cjob[c]) /\ queue \in Seq(Jobs)
      BY <1>1, <2>2 DEF CreateSubmit, TypeOK, ThreadTypes
    <3>2. InQueue(j)' => InQueue(j) \/ j = cjob[c]
      BY <3>1 DEF Submitted, InQueue
    <3>3. \A d \in Clients : cpc'[d] \in {"add", "submit"} => cpc'[d] = cpc[d] /\ cjob'[d] = cjob[d]
      BY <1>1, <2>2 DEF CreateSubmit, Return, TypeOK, ThreadTypes
    <3>4. QED BY <3>1, <3>2, <3>3 DEF Ahead
  <2>3. CASE \/ CreateCollect(c) \/ CancelRead(c) \/ RestartRequest(c) \/ CreatePrune(c)
             \/ CreateFind(c) \/ CreateReuse(c) \/ CreateSaveArtifacts(c) \/ CreateSaveJobs(c)
             \/ CreateAdd(c) \/ CancelWrite(c) \/ CancelSave(c)
    <3>1. UNCHANGED <<queue, rpc, rjob>>
      BY <2>3 DEF CreateCollect, CancelRead, RestartRequest, CreatePrune, CreateFind,
                  CreateReuse, CreateSaveArtifacts, CreateSaveJobs, CreateAdd, CancelWrite,
                  CancelSave
    <3>2. \A d \in Clients : cpc'[d] \in {"add", "submit"} =>
            cpc[d] \in {"add", "submit"} /\ cjob'[d] = cjob[d]
      BY <1>1, <2>3
         DEF CreateCollect, CancelRead, RestartRequest, CreatePrune, CreateFind, CreateReuse,
             CreateSaveArtifacts, CreateSaveJobs, CreateAdd, CancelWrite, CancelSave, Return,
             TypeOK, ThreadTypes
    <3>3. QED BY <3>1, <3>2 DEF Ahead, InQueue
  <2>4. QED BY <1>3, <2>1, <2>2, <2>3 DEF Handler
<1>4. CASE Crash \/ Restart
  <2>1. queue' = << >> /\ rpc' = "idle" /\ cpc' = [c \in Clients |-> "idle"]
    BY <1>4 DEF Crash, Restart, Stop, RunReturn
  <2>2. QED BY <2>1, Places DEF Ahead, InQueue
<1>5. CASE RunStart
  <2>1. /\ UNCHANGED <<cpc, cjob>> /\ queue \in Seq(Jobs)
        /\ queue # << >> /\ queue' = Tail(queue)
        /\ rpc' \in Working \cup {"skip", "start", "saveRunning"} => rjob' = Head(queue)
    BY <1>1, <1>5, Places DEF RunStart, TypeOK, ThreadTypes
  <2>2. InQueue(Head(queue))
    BY <2>1 DEF InQueue
  <2>3. InQueue(j)' => InQueue(j)
    BY <2>1 DEF InQueue
  <2>4. QED BY <2>1, <2>2, <2>3 DEF Ahead
<1>6. CASE Runner /\ ~ RunStart
  <2>1. UNCHANGED <<queue, cpc, cjob>>
    BY <1>6 DEF Runner, RunSkip, RunSaveSkip, RunMarkRunning, RunSaveRunning,
             RunResolve, RunAcquire, RunWriteReport, RunRegister, RunRegisterFails,
             RunRegistered, RunPlanned, RunCanceled, RunScan, RunWrite, RunAddBundle,
             RunSucceed, RunRaise, RunExcept, RunExceptRegisterFails, RunExceptRegistered,
             RunFail, RunLog, RunSave, RunFinally
  <2>2. rpc' \in Working \cup {"skip", "start", "saveRunning"} =>
           rpc \in Working \cup {"skip", "start", "saveRunning"} /\ rjob' = rjob
    BY <1>6, Places DEF Runner, RunSkip, RunSaveSkip, RunMarkRunning, RunSaveRunning,
             RunResolve, RunAcquire, RunWriteReport, RunRegister, RunRegisterFails,
             RunRegistered, RunPlanned, RunCanceled, RunScan, RunWrite, RunAddBundle,
             RunSucceed, RunRaise, RunExcept, RunExceptRegisterFails, RunExceptRegistered,
             RunFail, RunLog, RunSave, RunFinally, RunReturn, AfterRegister
  <2>3. QED BY <1>2, <2>1, <2>2
<1>7. CASE Reconcile \/ Serve \/ UNCHANGED vars
  BY <1>2, <1>7 DEF Reconcile, Serve
<1>8. QED BY <1>3, <1>4, <1>5, <1>6, <1>7 DEF Next

\* Without a save, it is enough that nothing new looks active.
LEMMA EndedStands ==
    ASSUME IInv, EndedInv, [Next]_vars, UNCHANGED diskStatus,
           \A j \in Jobs : status'[j] \in {"queued", "running"} =>
              status[j] \in {"queued", "running"} \/ Ahead(j) \/ next < j
    PROVE  EndedInv'
<1>1. \A j \in Jobs : diskStatus[j] \in Terminal => j <= next /\ ~ Ahead(j)'
  BY AheadMoves DEF EndedInv, IInv, IdInv, TypeOK, StoreTypes
<1>2. QED BY <1>1 DEF EndedInv, IInv, TypeOK, StoreTypes

LEMMA EndedStep == ASSUME IInv, EndedInv, [Next]_vars PROVE EndedInv'
<1>1. IInv'
  BY NextIInv
<1>2. TypeOK
  BY DEF IInv
<1>3. ASSUME NEW c \in Clients, CreateSaveJobs(c) \/ CreateAdd(c) \/ CancelSave(c)
      PROVE  EndedInv'
  BY <1>1, <1>3, EndedSaved DEF CreateSaveJobs, CreateAdd, CancelSave, UpdateJob
<1>4. ASSUME NEW c \in Clients,
             \/ CreateCollect(c) \/ CancelRead(c) \/ RestartRequest(c) \/ CreatePrune(c)
             \/ CreateFind(c) \/ CreateReuse(c) \/ CreateSaveArtifacts(c) \/ CreateSubmit(c)
      PROVE  EndedInv'
  <2>1. UNCHANGED <<status, diskStatus>>
    BY <1>4 DEF CreateCollect, CancelRead, RestartRequest, CreatePrune, CreateFind, CreateReuse,
                CreateSaveArtifacts, CreateSubmit
  <2>2. QED BY <2>1, EndedStands
<1>5. ASSUME NEW c \in Clients, CreateNew(c) PROVE EndedInv'
  <2>1. /\ next < next' /\ UNCHANGED diskStatus
        /\ \A j \in Jobs \ {next'} : status'[j] = status[j]
    BY <1>2, <1>5 DEF CreateNew, TypeOK, StoreTypes
  <2>2. QED BY <2>1, EndedStands
<1>6. ASSUME NEW c \in Clients, CancelWrite(c) PROVE EndedInv'
  <2>1. UNCHANGED diskStatus /\ \A j \in Jobs : status'[j] \in {status[j], "canceling"}
    BY <1>2, <1>6 DEF CancelWrite, TypeOK, StoreTypes
  <2>2. QED BY <2>1, EndedStands
<1>7. CASE Reconcile
  BY <1>1, <1>7, EndedSaved DEF Reconcile, UpdateJob
<1>8. CASE Serve \/ UNCHANGED vars
  BY <1>8, EndedStands DEF Serve
<1>9. CASE Crash \/ Restart
  <2>1. /\ UNCHANGED diskStatus /\ status' = diskStatus /\ queue' = << >>
        /\ rpc' = "idle" /\ cpc' = [c \in Clients |-> "idle"]
    BY <1>9 DEF Crash, Restart, Stop, RunReturn
  <2>2. \A j \in Jobs : ~ Ahead(j)'
    BY <2>1, Places DEF Ahead, InQueue
  <2>3. QED BY <2>1, <2>2 DEF EndedInv
<1>10. CASE Runner
  <2>1. CASE \/ RunSaveSkip \/ RunSaveRunning \/ RunRegistered \/ RunExceptRegistered
             \/ RunSave
    BY <1>1, <2>1, EndedSaved DEF RunSaveSkip, RunSaveRunning, RunRegistered,
                                  RunExceptRegistered, RunSave, UpdateJob
  <2>2. CASE RunMarkRunning
    <3>1. /\ rpc = "start" /\ UNCHANGED diskStatus
          /\ \A j \in Jobs : status'[j] = status[j] \/ j = rjob
      BY <1>2, <2>2 DEF RunMarkRunning, SetStatus, TypeOK, StoreTypes
    <3>2. Ahead(rjob)
      BY <3>1 DEF Ahead
    <3>3. QED BY <3>1, <3>2, EndedStands
  <2>3. CASE RunAcquire \/ RunScan
    BY <1>1, <2>3, EndedSaved, EndedStands DEF RunAcquire, RunScan, SaveWarnings, UpdateJob
  <2>4. CASE \/ RunSkip \/ RunPlanned \/ RunCanceled \/ RunSucceed \/ RunFail
    <3>1. /\ UNCHANGED diskStatus
          /\ \A j \in Jobs : status'[j] = status[j] \/ status'[j] \in Terminal
      BY <1>2, <2>4 DEF RunSkip, RunPlanned, RunCanceled, RunSucceed, RunFail,
                        SetStatus, TypeOK, StoreTypes
    <3>2. \A x \in Terminal : x \notin {"queued", "running"}
      OBVIOUS
    <3>3. QED BY <3>1, <3>2, EndedStands
  <2>5. CASE \/ RunStart \/ RunResolve \/ RunWriteReport \/ RunRegister \/ RunRegisterFails
             \/ RunWrite \/ RunAddBundle \/ RunRaise \/ RunExcept \/ RunExceptRegisterFails
             \/ RunLog \/ RunFinally
    <3>1. UNCHANGED <<status, diskStatus>>
      BY <2>5 DEF RunStart, RunResolve, RunWriteReport, RunRegister, RunRegisterFails, RunWrite,
                  RunAddBundle, RunRaise, RunExcept, RunExceptRegisterFails, RunLog, RunFinally
    <3>2. QED BY <3>1, EndedStands
  <2>6. QED BY <1>10, <2>1, <2>2, <2>3, <2>4, <2>5 DEF Runner
<1>11. QED
  BY <1>3, <1>4, <1>5, <1>6, <1>7, <1>8, <1>9, <1>10 DEF Next, Handler

-----------------------------------------------------------------------------
(* Collected jobs *)

\* Only the worker makes a snapshot, for the job it is in.
LEMMA SnapshotMade ==
    ASSUME IInv, [Next]_vars
    PROVE  snaps' \subseteq snaps \/ (rpc \in Working /\ snaps' \subseteq snaps \cup {rjob})
<1>1. CASE Runner
  BY <1>1, Places DEF Runner, RunStart, RunSkip, RunSaveSkip, RunMarkRunning, RunSaveRunning,
        RunResolve, RunAcquire, RunWriteReport, RunRegister, RunRegisterFails,
        RunRegistered, RunPlanned, RunCanceled, RunScan, RunWrite, RunAddBundle,
        RunSucceed, RunRaise, RunExcept, RunExceptRegisterFails, RunExceptRegistered,
        RunFail, RunLog, RunSave, RunFinally, PruneSnapshots
<1>2. ASSUME NEW c \in Clients,
             CreateCollect(c) \/ CancelRead(c) \/ RestartRequest(c) \/ Handler(c)
      PROVE  snaps' \subseteq snaps
  BY <1>2 DEF CreateCollect, RemoveJobs, CancelRead, RestartRequest, Handler, CreateSaveJobs,
        CreateSaveArtifacts, CreatePrune, PruneSnapshots, CreateFind, CreateReuse, CreateNew,
        CreateAdd, CreateSubmit, CancelWrite, CancelSave
<1>3. CASE Crash \/ Restart \/ Reconcile \/ Serve \/ UNCHANGED vars
  BY <1>3 DEF Crash, Restart, Stop, Reconcile, Serve
<1>4. QED BY <1>1, <1>2, <1>3 DEF Next

LEMMA GoneStep == ASSUME IInv, GoneInv, [Next]_vars PROVE GoneInv'
<1>1. /\ next \in Nat /\ next' \in Nat /\ next <= next'
      /\ gced \subseteq Jobs
  <2>1. next \in Nat /\ next' \in Nat /\ gced \subseteq Jobs
    BY NextIInv, BoundAssumption DEF IInv, TypeOK, StoreTypes
  <2>2. next' = next \/ next' = next + 1
    BY DEF Next, CreateCollect, CancelRead, RestartRequest, Handler, CreateSaveJobs,
           CreateSaveArtifacts, CreatePrune, CreateFind, CreateReuse, CreateNew, CreateAdd,
           CreateSubmit, CancelWrite, CancelSave, Crash, Restart, Stop, Reconcile, Serve,
           Runner, RunStart, RunSkip, RunSaveSkip, RunMarkRunning, RunSaveRunning, RunResolve,
           RunAcquire, RunWriteReport, RunRegister, RunRegisterFails, RunRegistered,
           RunPlanned, RunCanceled, RunScan, RunWrite, RunAddBundle, RunSucceed, RunRaise,
           RunExcept, RunExceptRegisterFails, RunExceptRegistered, RunFail, RunLog, RunSave,
           RunFinally
  <2>3. QED BY <2>1, <2>2
<1>2. \A j \in gced : j <= next' /\ ~ Ahead(j)'
  BY <1>1, AheadMoves DEF GoneInv
<1>3. CustomDir = {} => \A j \in gced : j \notin snaps'
  BY SnapshotMade DEF GoneInv, Ahead
<1>4. CASE gced' \subseteq gced
  BY <1>2, <1>3, <1>4 DEF GoneInv
<1>5. ASSUME NEW c \in Clients, CreateCollect(c) PROVE GoneInv'
  <2>1. PICK limit \in 0 .. next : RemoveJobs(Collectable(limit))
    BY <1>5 DEF CreateCollect
  <2>2. UNCHANGED <<next, status, queue, rpc, rjob>>
    BY <1>5 DEF CreateCollect
  <2>3. gced' = gced \cup Collectable(limit)
        /\ Collectable(limit) \subseteq cached \ ActiveJobs
    BY <2>1 DEF RemoveJobs, Collectable
  <2>4. \A j \in Collectable(limit) : j \in Jobs /\ j <= next /\ ~ Ahead(j)
    BY <2>3, Places
       DEF IInv, IdInv, TypeOK, StoreTypes, ActiveJobs, Ahead, InQueue, ClientInv, QueueInv,
           RunnerInv
  <2>5. \A j \in Collectable(limit) : ~ Ahead(j)'
    BY <2>2, <2>4, AheadMoves
  <2>6. CustomDir = {} => \A j \in Collectable(limit) : j \notin snaps'
    BY <2>1 DEF RemoveJobs, Dir
  <2>7. QED BY <1>2, <1>3, <2>2, <2>3, <2>4, <2>5, <2>6 DEF GoneInv
<1>6. gced' \subseteq gced \/ \E c \in Clients : CreateCollect(c)
  BY DEF Next, CancelRead, RestartRequest, Handler, CreateSaveJobs,
         CreateSaveArtifacts, CreatePrune, CreateFind, CreateReuse, CreateNew, CreateAdd,
         CreateSubmit, CancelWrite, CancelSave, Crash, Restart, Stop, Reconcile, Serve,
         Runner, RunStart, RunSkip, RunSaveSkip, RunMarkRunning, RunSaveRunning, RunResolve,
         RunAcquire, RunWriteReport, RunRegister, RunRegisterFails, RunRegistered,
         RunPlanned, RunCanceled, RunScan, RunWrite, RunAddBundle, RunSucceed, RunRaise,
         RunExcept, RunExceptRegisterFails, RunExceptRegistered, RunFail, RunLog, RunSave,
         RunFinally
<1>7. QED BY <1>4, <1>5, <1>6

-----------------------------------------------------------------------------
(* One client *)

LEMMA DiskSame ==
    ASSUME SameDisk, SameLive', UNCHANGED reqOf, UNCHANGED diskStatus \/ SaveJobs
    PROVE  SameDisk'
<1>1. CASE SaveJobs
  <2>1. \A j \in Jobs : diskStatus'[j] \in Active => Live(j)'
    BY <1>1 DEF SaveJobs, Live
  <2>2. QED BY <2>1 DEF SameDisk, SameLive
<1>2. CASE UNCHANGED diskStatus
  BY <1>2 DEF SameDisk
<1>3. QED BY <1>1, <1>2

\* A step of another thread that activates nothing and removes nothing.
LEMMA SameKept ==
    ASSUME SameInv, UNCHANGED <<reqOf, cpc, cjob, creq>>, cached \subseteq cached',
           UNCHANGED diskStatus \/ SaveJobs, \A j \in Jobs : Live(j)' => Live(j)
    PROVE  SameInv'
<1>1. SameLive' /\ LiveStored'
  BY DEF SameInv, SameLive, LiveStored
<1>2. ClientSees'
  BY DEF SameInv, ClientSees
<1>3. QED BY <1>1, <1>2, DiskSame DEF SameInv

\* A step of the client that leaves jobs and store alone, or saves the store,
\* and after which it relies on nothing.
LEMMA SameClient ==
    ASSUME OneClient, SameInv, NEW c \in Clients, cpc'[c] \notin {"decide", "cancel", "cancelSave"},
           UNCHANGED <<reqOf, status>>, UNCHANGED diskStatus \/ SaveJobs,
           \A j \in Jobs : Live(j) =>
              j \in cached' \/ \E d \in Clients : cpc'[d] = "add" /\ cjob'[d] = j
    PROVE  SameInv'
<1>1. SameLive' /\ LiveStored'
  BY DEF SameInv, SameLive, LiveStored, Live
<1>2. ClientSees'
  BY DEF OneClient, ClientSees
<1>3. QED BY <1>1, <1>2, DiskSame DEF SameInv

LEMMA SameStep == ASSUME OneClient, IInv, SameInv, [Next]_vars PROVE SameInv'
<1>1. TypeOK /\ IInv'
  BY NextIInv DEF IInv
<1>2. CASE Runner
  <2>1. UNCHANGED <<reqOf, cpc, cjob, creq>> /\ cached \subseteq cached'
        /\ (UNCHANGED diskStatus \/ SaveJobs)
    BY <1>2 DEF Runner, RunStart, RunSkip, RunSaveSkip, RunMarkRunning, RunSaveRunning,
        RunResolve, RunAcquire, RunWriteReport, RunRegister, RunRegisterFails,
        RunRegistered, RunPlanned, RunCanceled, RunScan, RunWrite, RunAddBundle,
        RunSucceed, RunRaise, RunExcept, RunExceptRegisterFails, RunExceptRegistered,
        RunFail, RunLog, RunSave, RunFinally, UpdateJob, SaveWarnings
  <2>2. \A j \in Jobs : Live(j)' => Live(j)
    <3>1. CASE RunMarkRunning
      <4>1. rpc = "start" /\ status' = [status EXCEPT ![rjob] = "running"]
        BY <3>1 DEF RunMarkRunning, SetStatus
      <4>2. Live(rjob)
        BY <4>1 DEF IInv, RunnerInv, Live
      <4>3. QED BY <1>1, <4>1, <4>2 DEF Live, TypeOK, StoreTypes
    <3>2. CASE RunSkip \/ RunPlanned \/ RunCanceled \/ RunSucceed \/ RunFail
      <4>1. \E x \in Terminal : status' = [status EXCEPT ![rjob] = x]
        BY <3>2 DEF RunSkip, RunPlanned, RunCanceled, RunSucceed, RunFail, SetStatus
      <4>2. \A x \in Terminal : x \notin Active
        OBVIOUS
      <4>3. QED BY <1>1, <4>1, <4>2 DEF Live, TypeOK, StoreTypes
    <3>3. CASE UNCHANGED status
      BY <3>3 DEF Live
    <3>4. UNCHANGED status \/ RunMarkRunning \/ RunSkip \/ RunPlanned \/ RunCanceled
          \/ RunSucceed \/ RunFail
      BY <1>2 DEF Runner, RunStart, RunSaveSkip, RunSaveRunning, RunResolve, RunAcquire,
          RunWriteReport, RunRegister, RunRegisterFails, RunRegistered, RunScan, RunWrite,
          RunAddBundle, RunRaise, RunExcept, RunExceptRegisterFails, RunExceptRegistered,
          RunLog, RunSave, RunFinally
    <3>5. QED BY <3>1, <3>2, <3>3, <3>4
  <2>3. QED BY <2>1, <2>2, SameKept
<1>3. CASE Reconcile \/ Serve \/ UNCHANGED vars
  <2>1. UNCHANGED <<reqOf, cpc, cjob, creq>> /\ cached \subseteq cached'
        /\ (UNCHANGED diskStatus \/ SaveJobs)
    BY <1>3 DEF Reconcile, Serve, UpdateJob
  <2>2. \A j \in Jobs : Live(j)' => Live(j)
    BY <1>1, <1>3 DEF Reconcile, Serve, Live, TypeOK, StoreTypes
  <2>3. QED BY <2>1, <2>2, SameKept
<1>4. CASE Crash \/ Restart
  <2>1. /\ cached' = {j \in Jobs : diskStatus[j] # "none"}
        /\ status' = diskStatus /\ UNCHANGED <<reqOf, diskStatus>>
        /\ cpc' = [c \in Clients |-> "idle"]
    BY <1>4 DEF Crash, Restart, Stop
  <2>2. SameLive' /\ SameDisk'
    BY <2>1 DEF SameInv, SameDisk, SameLive, Live
  <2>3. LiveStored' /\ ClientSees'
    BY <2>1 DEF LiveStored, Live, ClientSees
  <2>4. QED BY <2>2, <2>3 DEF SameInv
<1>5. ASSUME NEW c \in Clients, RestartRequest(c) PROVE SameInv'
  BY <1>5, SameKept DEF RestartRequest, Live
<1>6. ASSUME NEW c \in Clients, CreateCollect(c) PROVE SameInv'
  <2>1. PICK limit \in 0 .. next : RemoveJobs(Collectable(limit))
    BY <1>6 DEF CreateCollect
  <2>2. Collectable(limit) \subseteq cached \ ActiveJobs /\ cached' = cached \ Collectable(limit)
    BY <2>1 DEF RemoveJobs, Collectable
  <2>3. cpc[c] = "idle" /\ cpc'[c] \in {"prune", "saveJobs"}
        /\ UNCHANGED <<reqOf, status, diskStatus>>
    BY <1>1, <1>6 DEF CreateCollect, TypeOK, ThreadTypes
  <2>4. \A j \in Jobs : Live(j) => j \in cached'
    BY <2>2, <2>3 DEF SameInv, LiveStored, Live, ActiveJobs, OneClient
  <2>5. QED BY <2>3, <2>4, SameClient
<1>7. ASSUME NEW c \in Clients,
             \/ CreateSaveJobs(c) \/ CreateSaveArtifacts(c) \/ CreatePrune(c)
             \/ CreateReuse(c) \/ CreateAdd(c) \/ CreateSubmit(c) \/ CancelSave(c)
      PROVE  SameInv'
  <2>1. /\ cpc'[c] \notin {"decide", "cancel", "cancelSave"}
        /\ UNCHANGED <<reqOf, status>> /\ (UNCHANGED diskStatus \/ SaveJobs)
        /\ cached \subseteq cached' /\ (cpc[c] = "add" => cjob[c] \in cached')
    BY <1>1, <1>7
       DEF CreateSaveJobs, CreateSaveArtifacts, CreatePrune, CreateReuse, CreateAdd,
           CreateSubmit, CancelSave, UpdateJob, Return, TypeOK, ThreadTypes
  <2>2. \A j \in Jobs : Live(j) => j \in cached'
    BY <2>1 DEF SameInv, LiveStored, OneClient
  <2>3. QED BY <2>1, <2>2, SameClient
<1>8. ASSUME NEW c \in Clients, CreateFind(c) PROVE SameInv'
  <2>1. PICK r \in Requests, force \in Forces :
          \E existing \in IF force THEN {NoJob} ELSE FindJob(r) :
             creq' = [creq EXCEPT ![c] = r] /\ cjob' = [cjob EXCEPT ![c] = existing]
    BY <1>8 DEF CreateFind
  <2>2. ~ force
    BY BoundAssumption DEF OneClient
  <2>3. PICK existing \in FindJob(r) :
          creq' = [creq EXCEPT ![c] = r] /\ cjob' = [cjob EXCEPT ![c] = existing]
    BY <2>1, <2>2
  <2>4. cpc[c] = "find" /\ cpc'[c] = "decide" /\ cjob'[c] = existing /\ creq'[c] = r
        /\ UNCHANGED <<reqOf, status, cached, diskStatus>>
    BY <1>1, <1>8, <2>3 DEF CreateFind, TypeOK, ThreadTypes
  <2>5. \A j \in Jobs : Live(j) => j \in ActiveJobs
    BY <2>4 DEF SameInv, LiveStored, OneClient, Live, ActiveJobs
  <2>6. ASSUME NEW j \in Jobs, Live(j), reqOf[j] = r PROVE j = existing
    <3>1. j \in {i \in cached : reqOf[i] = r} \cap ActiveJobs
      BY <2>5, <2>6 DEF ActiveJobs
    <3>2. existing \in {i \in cached : reqOf[i] = r} \cap ActiveJobs
      BY <2>3, <3>1 DEF FindJob, Newest
    <3>3. existing \in Jobs /\ Live(existing) /\ reqOf[existing] = r
      BY <1>1, <3>2 DEF ActiveJobs, Live, TypeOK, StoreTypes
    <3>4. QED BY <2>6, <3>3 DEF SameInv, SameLive
  <2>7. SameLive' /\ SameDisk'
    BY <2>4 DEF SameInv, SameLive, SameDisk, Live
  <2>8. LiveStored' /\ ClientSees'
    BY <2>4, <2>5, <2>6 DEF LiveStored, ClientSees, Live, ActiveJobs, OneClient
  <2>9. QED BY <2>7, <2>8 DEF SameInv
<1>9. ASSUME NEW c \in Clients, CreateNew(c) PROVE SameInv'
  <2>1. /\ cpc[c] = "decide" /\ cpc'[c] = "add" /\ cjob'[c] = next' /\ next' \in Jobs
        /\ next' = next + 1 /\ next < next' /\ ~ Reusable(cjob[c]) /\ UNCHANGED <<cached, diskStatus>>
        /\ reqOf'[next'] = creq[c]
        /\ \A j \in Jobs \ {next'} : reqOf'[j] = reqOf[j] /\ status'[j] = status[j]
    BY <1>1, <1>9, BoundAssumption DEF CreateNew, TypeOK, StoreTypes, ThreadTypes
  <2>2. status[next'] = "none" /\ diskStatus[next'] = "none"
    BY <1>1, <2>1 DEF IInv, IdInv, TypeOK, StoreTypes
  <2>3. \A j \in Jobs : Live(j) => reqOf[j] # creq[c]
    <3>1. SUFFICES ASSUME NEW j \in Jobs, Live(j), reqOf[j] = creq[c] PROVE FALSE
      OBVIOUS
    <3>2. cjob[c] = j
      BY <2>1, <3>1 DEF SameInv, ClientSees
    <3>3. QED BY <2>1, <3>1, <3>2 DEF Reusable, Live
  <2>4. SameLive'
    BY <2>1, <2>3 DEF SameInv, SameLive, Live
  <2>5. SameDisk'
    BY <2>1, <2>2 DEF SameInv, SameDisk
  <2>6. LiveStored' /\ ClientSees'
    BY <2>1 DEF SameInv, LiveStored, ClientSees, Live, OneClient
  <2>7. QED BY <2>4, <2>5, <2>6 DEF SameInv
<1>10. ASSUME NEW c \in Clients, CancelRead(c) PROVE SameInv'
  <2>1. /\ cpc[c] = "idle" /\ cpc'[c] = "cancel" /\ cjob'[c] \in cached /\ Live(cjob'[c])
        /\ UNCHANGED <<reqOf, status, cached, diskStatus>>
    BY <1>1, <1>10 DEF CancelRead, Live, TypeOK, ThreadTypes
  <2>2. cjob'[c] \in Jobs
    BY <1>1, <2>1 DEF TypeOK, StoreTypes
  <2>3. SameLive' /\ SameDisk'
    BY <2>1 DEF SameInv, SameLive, SameDisk, Live
  <2>4. LiveStored' /\ ClientSees'
    BY <2>1, <2>2 DEF SameInv, SameLive, LiveStored, ClientSees, Live, OneClient
  <2>5. QED BY <2>3, <2>4 DEF SameInv
<1>11. ASSUME NEW c \in Clients, CancelWrite(c) PROVE SameInv'
  <2>1. /\ cpc[c] = "cancel" /\ cpc'[c] = "cancelSave" /\ cjob[c] \in cached
        /\ status' = [status EXCEPT ![cjob[c]] = "canceling"]
        /\ UNCHANGED <<reqOf, cjob, cached, diskStatus>>
    BY <1>1, <1>11 DEF CancelWrite, TypeOK, ThreadTypes, SameInv, ClientSees
  <2>2. cjob[c] \in Jobs /\ \A j \in Jobs : Live(j)' => Live(j) \/ j = cjob[c]
    BY <1>1, <2>1 DEF Live, TypeOK, StoreTypes
  <2>3. \A j \in Jobs : Live(j) /\ reqOf[j] = reqOf[cjob[c]] => j = cjob[c]
    BY <2>1 DEF SameInv, ClientSees
  <2>4. SameLive' /\ SameDisk'
    BY <2>1, <2>2, <2>3 DEF SameInv, SameLive, SameDisk
  <2>5. LiveStored' /\ ClientSees'
    BY <2>1, <2>2, <2>3 DEF SameInv, LiveStored, ClientSees, OneClient
  <2>6. QED BY <2>4, <2>5 DEF SameInv
<1>12. QED
  BY <1>2, <1>3, <1>4, <1>5, <1>6, <1>7, <1>8, <1>9, <1>10, <1>11 DEF Next, Handler

-----------------------------------------------------------------------------
(* Cancels *)

\* A stored job that is canceling, and nobody is there to end it.
CancelLost(j) ==
    /\ up /\ j \in cached /\ status[j] = "canceling"
    /\ ~ InQueue(j) /\ ~ Submitting(j) /\ rjob # j

\* The worker takes what the queue gives away.
LEMMA QueueMoves ==
    ASSUME IInv, [Next]_vars, up', NEW j \in Jobs, InQueue(j)
    PROVE  InQueue(j)' \/ rjob' = j
<1>1. queue \in Seq(Jobs)
  BY DEF IInv, TypeOK, ThreadTypes
<1>2. CASE UNCHANGED queue
  BY <1>2 DEF InQueue
<1>3. ASSUME NEW c \in Clients, CreateSubmit(c) PROVE InQueue(j)'
  <2>1. queue' = queue \/ \E k : queue' = Append(queue, k)
    BY <1>3 DEF CreateSubmit, Submitted
  <2>2. QED BY <1>1, <2>1 DEF InQueue
<1>4. CASE RunStart
  <2>1. queue # << >> /\ queue' = Tail(queue) /\ Head(queue) \in cached
    BY <1>1, <1>4 DEF RunStart, IInv, QueueInv
  <2>2. rjob' = Head(queue)
    BY <1>4, <2>1 DEF RunStart
  <2>3. PICK n \in 1 .. Len(queue) : queue[n] = j
    BY DEF InQueue
  <2>4. CASE n = 1
    BY <1>1, <2>1, <2>2, <2>3, <2>4
  <2>5. CASE n # 1
    <3>1. n - 1 \in 1 .. Len(Tail(queue)) /\ Tail(queue)[n - 1] = j
      BY <1>1, <2>1, <2>3, <2>5
    <3>2. QED BY <2>1, <3>1 DEF InQueue
  <2>6. QED BY <2>4, <2>5
<1>5. UNCHANGED queue \/ RunStart \/ \E c \in Clients : CreateSubmit(c)
  BY DEF Next, CreateCollect, CancelRead, RestartRequest, Handler, CreateSaveJobs,
         CreateSaveArtifacts, CreatePrune, CreateFind, CreateReuse, CreateNew, CreateAdd,
         CancelWrite, CancelSave, Crash, Restart, Stop, Reconcile, Serve,
         Runner, RunSkip, RunSaveSkip, RunMarkRunning, RunSaveRunning, RunResolve,
         RunAcquire, RunWriteReport, RunRegister, RunRegisterFails, RunRegistered,
         RunPlanned, RunCanceled, RunScan, RunWrite, RunAddBundle, RunSucceed, RunRaise,
         RunExcept, RunExceptRegisterFails, RunExceptRegistered, RunFail, RunLog, RunSave,
         RunFinally
<1>6. QED BY <1>2, <1>3, <1>4, <1>5

\* It leaves a job at its two ends only.
LEMMA WorkerStays ==
    ASSUME IInv, [Next]_vars, up', rjob \in Jobs, rpc \notin {"saveSkip", "finally"}
    PROVE  rjob' = rjob
<1>1. CASE Runner
  <2>1. CASE RunStart \/ RunSaveSkip \/ RunFinally
    <3>1. rpc = "idle"
      BY <2>1 DEF RunStart, RunSaveSkip, RunFinally
    <3>2. QED BY <3>1 DEF IInv, RunnerInv
  <2>2. CASE ~ (RunStart \/ RunSaveSkip \/ RunFinally)
    BY <1>1, <2>2 DEF Runner, RunSkip, RunMarkRunning, RunSaveRunning,
        RunResolve, RunAcquire, RunWriteReport, RunRegister, RunRegisterFails,
        RunRegistered, RunPlanned, RunCanceled, RunScan, RunWrite, RunAddBundle,
        RunSucceed, RunRaise, RunExcept, RunExceptRegisterFails, RunExceptRegistered,
        RunFail, RunLog, RunSave, AfterRegister
  <2>3. QED BY <2>1, <2>2
<1>2. CASE UNCHANGED rjob
  BY <1>2
<1>3. Runner \/ UNCHANGED rjob
  BY DEF Next, CreateCollect, CancelRead, RestartRequest, Handler, CreateSaveJobs,
         CreateSaveArtifacts, CreatePrune, CreateFind, CreateReuse, CreateNew, CreateAdd,
         CreateSubmit, CancelWrite, CancelSave, Crash, Restart, Stop, Reconcile, Serve
<1>4. QED BY <1>1, <1>2, <1>3

-----------------------------------------------------------------------------
(* A process that lives *)

LEMMA SteadyStep ==
    ASSUME IInv, SteadyInv, [Next]_vars, ~ CanCrash, ~ CanRestart, ~ CanFail
    PROVE  SteadyInv'
<1>1. ~ restarting' /\ ~ Crash /\ ~ Restart
  <2>1. ~ Crash /\ ~ Restart
    BY DEF Crash, Restart, SteadyInv
  <2>2. ASSUME NEW c \in Clients,
               CreateCollect(c) \/ CancelRead(c) \/ RestartRequest(c) \/ Handler(c)
        PROVE  UNCHANGED restarting
    BY <2>2 DEF procVars, CreateCollect, CancelRead, RestartRequest, Handler, CreateSaveJobs,
                CreateSaveArtifacts, CreatePrune, CreateFind, CreateReuse, CreateNew,
                CreateAdd, CreateSubmit, CancelWrite, CancelSave
  <2>3. ASSUME Runner PROVE UNCHANGED restarting
    BY <2>3 DEF Runner, RunStart, RunSkip, RunSaveSkip, RunMarkRunning, RunSaveRunning,
         RunResolve, RunAcquire, RunWriteReport, RunRegister, RunRegisterFails,
         RunRegistered, RunPlanned, RunCanceled, RunScan, RunWrite, RunAddBundle,
         RunSucceed, RunRaise, RunExcept, RunExceptRegisterFails, RunExceptRegistered,
         RunFail, RunLog, RunSave, RunFinally
  <2>4. ASSUME Reconcile \/ Serve \/ UNCHANGED vars PROVE UNCHANGED restarting
    BY <2>4 DEF Reconcile, Serve
  <2>5. QED BY <2>1, <2>2, <2>3, <2>4 DEF Next, SteadyInv
<1> DEFINE Due(a) == \/ a[1] \in cached /\ a[2] \in artIds[a[1]]
                     \/ a = <<rjob, "report">> /\ rpc \in {"registered", "exceptRegistered"}
                     \/ a = <<rjob, "bundle">> /\ rpc = "succeed"
           Kept(j) == \/ artIds[j] # {}
                      \/ rjob = j /\ rpc \in {"register", "registered"}
<1>2. /\ \A a \in artCache : Due(a)
      /\ \A j \in Jobs \ gced : <<j, "report">> \in files => Kept(j)
      /\ TypeOK
  BY DEF SteadyInv, IInv
<1>3. SUFFICES /\ \A a \in artCache' : Due(a)'
               /\ \A j \in Jobs \ gced' : <<j, "report">> \in files' => Kept(j)'
  BY <1>1 DEF SteadyInv
<1>4. ASSUME UNCHANGED <<artIds, rpc, rjob>>, artCache' \subseteq artCache,
             files' \subseteq files, cached \subseteq cached', gced \subseteq gced'
      PROVE  /\ \A a \in artCache' : Due(a)'
             /\ \A j \in Jobs \ gced' : <<j, "report">> \in files' => Kept(j)'
  BY <1>2, <1>4
<1>5. ASSUME NEW c \in Clients, CreateCollect(c)
      PROVE  /\ \A a \in artCache' : Due(a)'
             /\ \A j \in Jobs \ gced' : <<j, "report">> \in files' => Kept(j)'
  <2>1. PICK limit \in 0 .. next : RemoveJobs(Collectable(limit))
    BY <1>5 DEF CreateCollect
  <2>2. UNCHANGED <<artIds, rpc, rjob>>
    BY <1>5 DEF CreateCollect
  <2>3. \A a \in artCache' : Due(a)'
    BY <1>2, <2>1, <2>2 DEF RemoveJobs
  <2>4. QED BY <1>2, <2>1, <2>2, <2>3 DEF RemoveJobs
<1>6. ASSUME NEW c \in Clients, CancelRead(c) \/ RestartRequest(c) \/ Handler(c)
      PROVE  /\ \A a \in artCache' : Due(a)'
             /\ \A j \in Jobs \ gced' : <<j, "report">> \in files' => Kept(j)'
  <2>1. UNCHANGED <<artIds, rpc, rjob, artCache, files, gced>> /\ cached \subseteq cached'
    BY <1>6 DEF CancelRead, RestartRequest, Handler, CreateSaveJobs, CreateSaveArtifacts,
                CreatePrune, CreateFind, CreateReuse, CreateNew, CreateAdd, CreateSubmit,
                CancelWrite, CancelSave, UpdateJob
  <2>2. QED BY <1>4, <2>1
<1>7. CASE Reconcile \/ Serve \/ UNCHANGED vars
  <2>1. UNCHANGED <<artIds, rpc, rjob, artCache, files, gced>> /\ cached \subseteq cached'
    BY <1>7 DEF Reconcile, Serve, UpdateJob
  <2>2. QED BY <1>4, <2>1
<1>8. CASE Runner
  <2>1. ASSUME UNCHANGED <<artIds, artCache, files, gced>>, cached \subseteq cached',
               rpc \notin {"register", "registered", "exceptRegistered", "succeed"}
        PROVE  /\ \A a \in artCache' : Due(a)'
               /\ \A j \in Jobs \ gced' : <<j, "report">> \in files' => Kept(j)'
    BY <1>2, <2>1
  <2>2. CASE \/ RunStart \/ RunSkip \/ RunSaveSkip \/ RunMarkRunning \/ RunSaveRunning
             \/ RunResolve \/ RunAcquire \/ RunPlanned \/ RunCanceled \/ RunScan
             \/ RunRaise \/ RunFail \/ RunLog \/ RunSave \/ RunFinally
    <3>1. /\ UNCHANGED <<artIds, artCache, files, gced>> /\ cached \subseteq cached'
          /\ rpc \notin {"register", "registered", "exceptRegistered", "succeed"}
      BY <2>2 DEF RunStart, RunSkip, RunSaveSkip, RunMarkRunning, RunSaveRunning, RunResolve,
                  RunAcquire, RunPlanned, RunCanceled, RunScan, RunRaise, RunFail, RunLog,
                  RunSave, RunFinally, SaveWarnings, UpdateJob
    <3>2. QED BY <2>1, <3>1
  <2>3. CASE RunWriteReport
    BY <1>2, <2>3 DEF RunWriteReport
  <2>4. CASE RunWrite
    BY <1>2, <2>4 DEF RunWrite
  <2>5. CASE RunRegister
    BY <1>2, <2>5 DEF RunRegister, AddArtifact
  <2>6. CASE RunAddBundle
    BY <1>2, <2>6 DEF RunAddBundle, AddArtifact
  <2>7. CASE RunExcept
    BY <1>2, <2>7 DEF RunExcept, AddArtifact
  <2>8. CASE RunRegistered \/ RunExceptRegistered
    <3>1. rjob \in Jobs
      BY <2>8, WorkersJob, Places DEF RunRegistered, RunExceptRegistered
    <3>2. /\ artIds'[rjob] = artIds[rjob] \cup {"report"} /\ rjob' = rjob
          /\ \A j \in Jobs \ {rjob} : artIds'[j] = artIds[j]
          /\ cached' = cached \cup {rjob} /\ UNCHANGED <<artCache, files, gced>>
          /\ rpc \in {"registered", "exceptRegistered"}
      <4>1. CASE RunRegistered
        BY <1>2, <3>1, <4>1 DEF RunRegistered, AfterRegister, UpdateJob, TypeOK, StoreTypes
      <4>2. CASE RunExceptRegistered
        BY <1>2, <3>1, <4>2 DEF RunExceptRegistered, UpdateJob, TypeOK, StoreTypes
      <4>3. QED BY <2>8, <4>1, <4>2
    <3>3. \A a \in artCache : a[1] \in Jobs
      BY <1>2 DEF TypeOK, StoreTypes, Artifacts
    <3>4. \A a \in artCache' : Due(a)'
      BY <1>2, <3>1, <3>2, <3>3
    <3>5. QED BY <1>2, <3>2, <3>4
  <2>9. CASE RunSucceed
    <3>1. rjob \in Jobs /\ rjob \in cached
      BY <2>9, WorkersJob, Places DEF RunSucceed, ActiveJobs
    <3>2. /\ artIds'[rjob] = artIds[rjob] \cup {"bundle"} /\ rjob' = rjob
          /\ \A j \in Jobs \ {rjob} : artIds'[j] = artIds[j]
          /\ rpc = "succeed" /\ UNCHANGED <<cached, artCache, files, gced>>
      BY <1>2, <2>9, <3>1 DEF RunSucceed, TypeOK, StoreTypes
    <3>3. \A a \in artCache : a[1] \in Jobs
      BY <1>2 DEF TypeOK, StoreTypes, Artifacts
    <3>4. \A a \in artCache' : Due(a)'
      BY <1>2, <3>1, <3>2, <3>3
    <3>5. QED BY <1>2, <3>2, <3>4
  <2>10. ~ RunRegisterFails /\ ~ RunExceptRegisterFails
    BY DEF RunRegisterFails, RunExceptRegisterFails
  <2>11. QED BY <1>8, <2>2, <2>3, <2>4, <2>5, <2>6, <2>7, <2>8, <2>9, <2>10 DEF Runner
<1>9. QED BY <1>1, <1>5, <1>6, <1>7, <1>8 DEF Next

-----------------------------------------------------------------------------
(* Theorems *)

LEMMA InitFInv == Init => FInv /\ SteadyInv
<1>1. SUFFICES ASSUME Init PROVE FInv /\ SteadyInv
  OBVIOUS
<1>2. SnapshotInv /\ OutputInv
  BY <1>1, Places DEF Init, SnapshotInv, OutputInv
<1>3. ListInv
  BY <1>1 DEF Init, ListInv
<1>4. EndedInv
  BY <1>1 DEF Init, EndedInv
<1>5. SteadyInv
  BY <1>1 DEF Init, SteadyInv
<1>6. QED BY <1>2, <1>3, <1>4, <1>5 DEF FInv

\* What IInv says of the threads makes FInv inductive: snapshots, lists,
\* outputs and final statuses, through crashes and restarts.
THEOREM FilesInductive == Spec => []FInv
<1>1. IInv /\ FInv /\ [Next]_vars => FInv'
  BY SnapshotStep, ListStep, OutputStep, EndedStep DEF FInv
<1>2. Init => FInv
  BY InitFInv
<1>3. QED BY <1>1, <1>2, Inductive, PTL DEF Spec

\* No retention, of whichever thread, takes the snapshot that the worker scans
\* (cleanup_source_snapshots, jobstore.py:329).
THEOREM ScansHaveSnapshots == Spec => []ScannedSnapshotKept
<1>1. FInv => ScannedSnapshotKept
  BY DEF FInv, SnapshotInv, ScannedSnapshotKept
<1>2. QED BY <1>1, FilesInductive, PTL

\* What a job that was never collected lists is registered and has its file,
\* also after the process died between two saves (jobstore.py:384).
THEOREM ListedIsThere == Spec => []ListedArtifactsExist
<1>1. IInv /\ FInv => ListedArtifactsExist
  BY DEF IInv, TypeOK, StoreTypes, FInv, ListInv, ListedArtifactsExist
<1>2. QED BY <1>1, Inductive, FilesInductive, PTL

\* A job whose end is in jobs.json is not attempted again, whatever crashes
\* (submit_job and _mark_persisted_active_jobs_terminal).
THEOREM NothingIsAttemptedTwice == Spec => NoSecondAttempt
<1>1. ASSUME IInv, FInv, [Next]_vars,
             NEW j \in Jobs, diskStatus[j] \in Terminal,
             diskStatus'[j] \in {"queued", "running"}
      PROVE  FALSE
  <2>1. status[j] \notin {"queued", "running"} /\ ~ Ahead(j)
    BY <1>1 DEF FInv, EndedInv
  <2>2. diskStatus'[j] # diskStatus[j]
    BY <1>1
  <2>3. diskStatus'[j] \in {status[j], "failed", "none"}
    <3>1. ASSUME SaveJobs, UNCHANGED status \/ Reconcile
          PROVE  diskStatus'[j] \in {status[j], "failed", "none"}
      <4>1. diskStatus'[j] \in {status'[j], "none"}
        BY <3>1 DEF SaveJobs
      <4>2. status'[j] \in {status[j], "failed"}
        BY <1>1, <3>1 DEF Reconcile, IInv, TypeOK, StoreTypes
      <4>3. QED BY <4>1, <4>2
    <3>2. (SaveJobs /\ (UNCHANGED status \/ Reconcile)) \/ UNCHANGED diskStatus
      <4>1. CASE Runner
        BY <4>1 DEF Runner, RunStart, RunSkip, RunSaveSkip, RunMarkRunning, RunSaveRunning,
             RunResolve, RunAcquire, RunWriteReport, RunRegister, RunRegisterFails,
             RunRegistered, RunPlanned, RunCanceled, RunScan, RunWrite, RunAddBundle,
             RunSucceed, RunRaise, RunExcept, RunExceptRegisterFails, RunExceptRegistered,
             RunFail, RunLog, RunSave, RunFinally, SaveWarnings, UpdateJob
      <4>2. ASSUME NEW c \in Clients,
                   CreateCollect(c) \/ CancelRead(c) \/ RestartRequest(c) \/ Handler(c)
            PROVE  (SaveJobs /\ UNCHANGED status) \/ UNCHANGED diskStatus
        BY <4>2 DEF CreateCollect, CancelRead, RestartRequest, Handler, CreateSaveJobs,
             CreateSaveArtifacts, CreatePrune, CreateFind, CreateReuse, CreateNew,
             CreateAdd, CreateSubmit, CancelWrite, CancelSave, UpdateJob
      <4>3. CASE Crash \/ Restart \/ Reconcile \/ Serve \/ UNCHANGED vars
        BY <4>3 DEF Crash, Restart, Stop, Reconcile, Serve, UpdateJob
      <4>4. QED BY <1>1, <4>1, <4>2, <4>3 DEF Next
    <3>3. QED BY <2>2, <3>1, <3>2
  <2>4. QED BY <1>1, <2>1, <2>3
<1>2. IInv /\ FInv /\ [Next]_vars =>
        [\A j \in Jobs : diskStatus[j] \in Terminal =>
              diskStatus'[j] \notin {"queued", "running"}]_vars
  BY <1>1
<1>3. QED BY <1>2, Inductive, FilesInductive, PTL DEF Spec, NoSecondAttempt

\* While the process lives and registering does not fail, every artifact has a
\* job that lists it or is about to (runner.py:970).
THEOREM NoArtifactIsOrphaned ==
    ASSUME ~ CanCrash, ~ CanRestart, ~ CanFail
    PROVE  Spec => []NoOrphanArtifact
<1>1. IInv /\ SteadyInv /\ [Next]_vars => SteadyInv'
  BY SteadyStep
<1>2. Init => SteadyInv
  BY InitFInv
<1>3. SteadyInv => NoOrphanArtifact
  BY DEF SteadyInv, NoOrphanArtifact
<1>4. QED BY <1>1, <1>2, <1>3, Inductive, PTL DEF Spec

\* And every report that was written is listed once its job has ended
\* (runner.py:676, _register_pre_pull_report_artifact_once).
THEOREM ReportsAreKept ==
    ASSUME ~ CanCrash, ~ CanRestart, ~ CanFail
    PROVE  Spec => []EvidenceKept
<1>1. IInv /\ SteadyInv /\ [Next]_vars => SteadyInv'
  BY SteadyStep
<1>2. Init => SteadyInv
  BY InitFInv
<1>3. IInv /\ SteadyInv => EvidenceKept
  <2>1. SUFFICES ASSUME IInv, SteadyInv, NEW j \in cached \ gced, status[j] \in Terminal,
                        <<j, "report">> \in files
                 PROVE  artIds[j] # {}
    BY DEF EvidenceKept
  <2>2. j \in Jobs \ gced
    BY <2>1 DEF IInv, TypeOK, StoreTypes
  <2>3. ~ (rjob = j /\ rpc \in {"register", "registered"})
    BY <2>1, Places DEF IInv, RunnerInv
  <2>4. QED BY <2>1, <2>2, <2>3 DEF SteadyInv
<1>4. QED BY <1>1, <1>2, <1>3, Inductive, PTL DEF Spec

\* A job that garbage collection has removed is not run, queued or waited for
\* again, although a cancel that comes late may store it once more (jobstore.py:162).
THEOREM CollectedStaysGone == Spec => []GoneInv
<1>1. IInv /\ GoneInv /\ [Next]_vars => GoneInv'
  BY GoneStep
<1>2. Init => GoneInv
  BY DEF Init, GoneInv
<1>3. QED BY <1>1, <1>2, Inductive, PTL DEF Spec

\* Where no request has a merges directory of its own, a removed job leaves no
\* snapshot behind (_remove_job_internal, jobstore.py:229): the custom directory
\* is all that the run jobs_snapshot_left needs.
THEOREM SnapshotsGoWithJobs ==
    ASSUME CustomDir = {}
    PROVE  Spec => DeletedWithSnapshot
<1>1. GoneInv' => (\A j \in Jobs : j \in gced' \ gced => j \notin snaps')
  BY DEF GoneInv
<1>2. QED BY <1>1, CollectedStaysGone, PTL DEF Spec, DeletedWithSnapshot

\* One client that does not force a new job finds the active job of its request
\* (find_job_by_hash before add_job, job_router.py:83): it takes two clients at
\* once, or force_new, to have two identical active jobs.
THEOREM IdenticalNeedTwoClients ==
    ASSUME OneClient
    PROVE  Spec => []ActiveJobsDiffer
<1>1. IInv /\ SameInv /\ [Next]_vars => SameInv'
  BY SameStep
<1>2. Init => SameInv
  BY DEF Init, SameInv, SameLive, SameDisk, LiveStored, ClientSees, Live
<1>3. IInv /\ SameInv => ActiveJobsDiffer
  BY DEF IInv, TypeOK, StoreTypes, SameInv, SameLive, Live, ActiveJobs, ActiveJobsDiffer
<1>4. QED BY <1>1, <1>2, <1>3, Inductive, PTL DEF Spec

\* A cancel of a job in the queue or in the worker is never lost (job_router.py:123
\* against runner.py:290): only one that comes before submit_job, or after the
\* worker has set the final status, leaves a job canceling with nobody to end it.
THEOREM CancelsInTimeAreSeen ==
    Spec => [][\A j \in Jobs : CancelLost(j)' /\ ~ CancelLost(j) =>
                 \/ Submitting(j)
                 \/ status[j] \in Terminal \/ j \notin cached
                 \/ rjob = j /\ rpc \in {"saveSkip", "finally"}]_vars
<1>1. ASSUME IInv, [Next]_vars, NEW j \in Jobs, CancelLost(j)', ~ CancelLost(j),
             ~ Submitting(j), status[j] \notin Terminal, j \in cached,
             ~ (rjob = j /\ rpc \in {"saveSkip", "finally"})
      PROVE  FALSE
  <2>1. up' /\ status'[j] = "canceling" /\ ~ InQueue(j)' /\ rjob' # j
    BY <1>1 DEF CancelLost
  <2>2. up
    <3>1. SUFFICES ASSUME ~ up PROVE FALSE
      OBVIOUS
    <3>2. Serve
      <4>1. ~ (Runner \/ UNCHANGED vars)
        BY <2>1, <3>1
           DEF Runner, RunStart, RunSkip, RunSaveSkip, RunMarkRunning, RunSaveRunning,
               RunResolve, RunAcquire, RunWriteReport, RunRegister, RunRegisterFails,
               RunRegistered, RunPlanned, RunCanceled, RunScan, RunWrite, RunAddBundle,
               RunSucceed, RunRaise, RunExcept, RunExceptRegisterFails, RunExceptRegistered,
               RunFail, RunLog, RunSave, RunFinally
      <4>2. \A c \in Clients :
              ~ (CreateCollect(c) \/ CancelRead(c) \/ RestartRequest(c) \/ Handler(c))
        BY <2>1, <3>1
           DEF CreateCollect, CancelRead, RestartRequest, Handler, CreateSaveJobs,
               CreateSaveArtifacts, CreatePrune, CreateFind, CreateReuse, CreateNew,
               CreateAdd, CreateSubmit, CancelWrite, CancelSave
      <4>3. ~ (Crash \/ Restart \/ Reconcile)
        BY <2>1, <3>1 DEF Crash, Restart, Stop, Reconcile
      <4>4. QED BY <1>1, <4>1, <4>2, <4>3 DEF Next
    <3>3. j \in ActiveJobs
      BY <1>1, <2>1, <3>2 DEF Serve, ActiveJobs
    <3>4. QED BY <3>2, <3>3 DEF Serve
  <2>3. status[j] \in {"queued", "running", "canceling"}
    BY <1>1 DEF IInv, TypeOK, StoreTypes, IdInv
  <2>4. InQueue(j) \/ rjob = j
    BY <1>1, <2>2, <2>3
       DEF CancelLost, IInv, QueuedInv, QueuedTracked, RunningInv, RunningTracked
  <2>5. CASE InQueue(j)
    BY <1>1, <2>1, <2>5, QueueMoves
  <2>6. CASE rjob = j
    BY <1>1, <2>1, <2>6, WorkerStays
  <2>7. QED BY <2>4, <2>5, <2>6
<1>2. IInv /\ [Next]_vars =>
        [\A j \in Jobs : CancelLost(j)' /\ ~ CancelLost(j) =>
            \/ Submitting(j)
            \/ status[j] \in Terminal \/ j \notin cached
            \/ rjob = j /\ rpc \in {"saveSkip", "finally"}]_vars
  BY <1>1
<1>3. QED BY <1>2, Inductive, PTL DEF Spec
=============================================================================
