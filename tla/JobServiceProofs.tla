--------------------------- MODULE JobServiceProofs ---------------------------
(***************************************************************************)
(* Safety of the job subsystem for every number of clients, requests and   *)
(* jobs.  The properties of JobService are not inductive by themselves:    *)
(* what they say of the store depends on where every client thread and the *)
(* worker are.  IInv adds that.                                            *)
(***************************************************************************)
EXTENDS JobService, TLAPS

Saving == {"saveSkip", "saveRunning", "log", "save"}

\* Ids are given out once; a stored job has a status.
IdInv ==
    /\ \A j \in cached : j <= next /\ status[j] # "none"
    /\ \A j \in Jobs : status[j] # "none" \/ diskStatus[j] # "none" => j <= next

\* Where a client thread is tells what it may assume of its job: before
\* add_job nobody else knows it, before submit_job the executor does not have it.
ClientInv ==
    /\ \A c \in Clients :
         /\ cpc[c] \in {"add", "submit", "cancel", "cancelSave"} =>
               cjob[c] \in Jobs /\ status[cjob[c]] # "none"
         /\ cpc[c] = "add" => status[cjob[c]] = "queued" /\ cjob[c] \notin cached
         /\ cpc[c] = "submit" =>
               cjob[c] \in cached /\ status[cjob[c]] \in {"queued", "canceling"}
         /\ cpc[c] \in {"add", "submit"} => ~ InQueue(cjob[c]) /\ cjob[c] # rjob
    /\ \A c, d \in Clients :
         c # d /\ cpc[c] \in {"add", "submit"} /\ cjob[c] = cjob[d] =>
            cpc[d] \notin {"add", "submit"}
            /\ (cpc[c] = "add" => cpc[d] \notin {"cancel", "cancelSave"})

\* The executor's queue: each job once, stored and not begun.
QueueInv ==
    /\ \A m, n \in 1 .. Len(queue) : queue[m] = queue[n] => m = n
    /\ \A n \in 1 .. Len(queue) :
          /\ queue[n] # rjob
          /\ queue[n] \in cached
          /\ status[queue[n]] \in {"queued", "canceling"}

\* The worker and its job.
RunnerInv ==
    /\ rpc = "idle" <=> rjob = NoJob
    /\ rpc = "skip" => rjob \in cached /\ status[rjob] = "canceling"
    /\ rpc = "start" => rjob \in cached /\ status[rjob] \in {"queued", "canceling"}
    /\ rpc \in Working \cup {"saveRunning"} =>
          rjob \in cached /\ status[rjob] \in {"running", "canceling"}
    /\ rpc \in {"saveSkip", "log", "save", "finally"} =>
          status[rjob] \in Terminal \cup {"canceling"}

\* Jobs outside the store are new or have ended; before init_service has
\* finished no thread runs.
StoreInv ==
    /\ \A j \in Jobs : status[j] \in {"queued", "running"} =>
          j \in cached \/ \E c \in Clients : cpc[c] = "add" /\ cjob[c] = j
    /\ ~ up => /\ \A c \in Clients : cpc[c] = "idle"
               /\ rpc = "idle"
               /\ queue = << >>

\* The lock is held over the two saves of cleanup_jobs and nowhere else.
LockInv ==
    \A c \in Clients : lock = c <=> cpc[c] \in {"saveJobs", "saveArts"}

\* A status that differs from jobs.json has a thread about to save it, except
\* while cleanup_jobs is between its removal and its first save.
FileInv ==
    /\ LockFree => diskArts = artCache
    /\ LockFree \/ cpc[lock] = "saveArts" =>
        /\ \A j \in Jobs : j \in cached <=> diskStatus[j] # "none"
        /\ \A j \in cached :
              \/ diskStatus[j] = status[j]
              \/ rjob = j /\ rpc \in Saving
              \/ \E c \in Clients : cpc[c] = "cancelSave" /\ cjob[c] = j

QueuedInv == up => \A j \in cached : QueuedTracked(j)
RunningInv == up => \A j \in cached : RunningTracked(j)

IInv ==
    /\ TypeOK
    /\ IdInv
    /\ ClientInv
    /\ QueueInv
    /\ RunnerInv
    /\ StoreInv
    /\ LockInv
    /\ FileInv
    /\ QueuedInv
    /\ RunningInv

-----------------------------------------------------------------------------
(* Abbreviations that every step needs *)

USE DEF vars, jobVars, memVars, diskVars, runVars, clientVars, procVars
USE DEF Jobs, NoJob, Active, Terminal, Stopping, Status, LockFree
USE DEF Goto, At, RunGoto, RunUnchanged

\* What _save_jobs leaves in jobs.json agrees with the cache.
LEMMA SavedFiles ==
    ASSUME StoreTypes', \A j \in cached' : status'[j] # "none", SaveJobs
    PROVE  /\ diskStatus' \in [Jobs -> Status \cup {"none"}]
           /\ diskArtIds' \in [Jobs -> SUBSET Kinds]
           /\ \A j \in Jobs : j \in cached' <=> diskStatus'[j] # "none"
           /\ \A j \in cached' : diskStatus'[j] = status'[j]
BY DEF SaveJobs, StoreTypes

\* Saving the cache of unchanged statuses restores what FileInv says.
LEMMA Saved ==
    ASSUME IInv, StoreTypes', SaveJobs, LockFree,
           \A j \in cached' : status[j] # "none",
           UNCHANGED <<next, status, diskArts, artCache, lock>>
    PROVE  /\ diskStatus' \in [Jobs -> Status \cup {"none"}]
           /\ diskArtIds' \in [Jobs -> SUBSET Kinds]
           /\ IdInv' /\ FileInv'
<1>1. \A j \in cached' : status'[j] # "none"
  OBVIOUS
<1>2. \A j \in Jobs : status[j] # "none" => j <= next
  BY DEF IInv, IdInv
<1>3. IdInv'
  BY <1>1, <1>2, SavedFiles DEF IdInv, StoreTypes
<1>4. FileInv'
  BY <1>1, SavedFiles DEF IInv, FileInv, StoreTypes
<1>5. QED BY <1>1, <1>3, <1>4, SavedFiles

\* A step of the worker inside its job that changes no status and no queue.
LEMMA WorkerMoves ==
    ASSUME IInv, TypeOK', FileInv', IdInv',
           rpc \in Working \cup {"saveRunning"}, rpc' \in Working,
           UNCHANGED <<next, status, cached, queue, rjob, cpc, cjob, up, lock>>
    PROVE  IInv'
<1>1. ClientInv' /\ QueueInv' /\ LockInv'
  BY DEF IInv, ClientInv, QueueInv, LockInv, InQueue
<1>2. RunnerInv'
  BY DEF IInv, RunnerInv, Working, RunLabels, Ending
<1>3. StoreInv'
  BY DEF IInv, StoreInv, Working, Ending
<1>4. QueuedInv'
  BY DEF IInv, QueuedInv, QueuedTracked, InQueue, Submitting, Working, Ending
<1>5. RunningInv'
  BY DEF IInv, RunningInv, RunningTracked, Working, Ending
<1>6. QED BY <1>1, <1>2, <1>3, <1>4, <1>5 DEF IInv

\* update_job by the worker inside its job: the job is in the cache already.
LEMMA WorkerSaves ==
    ASSUME IInv, rpc \in Working \cup {"saveRunning"}, UpdateJob(rjob), UNCHANGED status,
           StoreTypes', UNCHANGED <<next, diskArts, artCache, lock>>
    PROVE  /\ cached' = cached
           /\ diskStatus' \in [Jobs -> Status \cup {"none"}]
           /\ diskArtIds' \in [Jobs -> SUBSET Kinds]
           /\ IdInv' /\ FileInv'
<1>1. cached' = cached /\ SaveJobs /\ LockFree
  BY DEF IInv, RunnerInv, UpdateJob
<1>2. \A j \in cached' : status[j] # "none"
  BY <1>1 DEF IInv, IdInv
<1>3. QED BY <1>1, <1>2, Saved

\* The worker sets the final status of its job.
LEMMA WorkerEnds ==
    ASSUME IInv, TypeOK',
           rpc \in Working \cup {"skip"}, rpc' \in {"saveSkip", "log", "save"},
           NEW s \in Terminal, SetStatus(s),
           UNCHANGED <<next, cached, queue, rjob, cpc, cjob, up, lock, diskStatus,
                       diskArts, artCache>>
    PROVE  IInv'
<1>1. rjob \in cached /\ rjob \in Jobs /\ status[rjob] \in {"running", "canceling"}
  BY DEF IInv, RunnerInv, TypeOK, StoreTypes
<1>2. status'[rjob] = s /\ \A j \in Jobs : j # rjob => status'[j] = status[j]
  BY <1>1 DEF SetStatus, IInv, TypeOK, StoreTypes
<1>3. IdInv'
  BY <1>1, <1>2 DEF IInv, IdInv, TypeOK, StoreTypes
<1>4. ClientInv'
  BY <1>1, <1>2 DEF IInv, ClientInv, InQueue, TypeOK, StoreTypes
<1>5. QueueInv'
  BY <1>1, <1>2 DEF IInv, QueueInv, TypeOK, StoreTypes
<1>6. RunnerInv'
  BY <1>1, <1>2 DEF IInv, RunnerInv, Working, RunLabels, Ending
<1>7. StoreInv'
  BY <1>1, <1>2 DEF IInv, StoreInv, Working, Ending
<1>8. LockInv'
  BY DEF IInv, LockInv
<1>9. FileInv'
  BY <1>1, <1>2 DEF IInv, FileInv, Saving, TypeOK, StoreTypes
<1>10. QueuedInv'
  BY <1>1, <1>2 DEF IInv, QueuedInv, QueuedTracked, InQueue, Submitting, TypeOK,
                    StoreTypes, Working, Ending
<1>11. RunningInv'
  BY <1>1, <1>2 DEF IInv, RunningInv, RunningTracked, TypeOK, StoreTypes
<1>12. QED
  BY <1>3, <1>4, <1>5, <1>6, <1>7, <1>8, <1>9, <1>10, <1>11 DEF IInv

-----------------------------------------------------------------------------
(* The worker's steps *)

\* The executor hands over the oldest submitted job: by QueueInv it is stored,
\* not begun, and in no other place (runner.py:290).
LEMMA RunStartStep == ASSUME IInv, RunStart PROVE IInv'
<1>1. PICK j \in Jobs :
        /\ queue # << >> /\ queue \in Seq(Jobs) /\ rpc = "idle" /\ rjob = NoJob
        /\ j = Head(queue) /\ j = queue[1]
        /\ j \in cached /\ status[j] \in {"queued", "canceling"}
  <2>1. queue # << >> /\ queue \in Seq(Jobs) /\ rpc = "idle" /\ rjob = NoJob
    BY DEF RunStart, IInv, TypeOK, ThreadTypes, RunnerInv
  <2>2. Head(queue) = queue[1] /\ 1 \in 1 .. Len(queue)
    BY <2>1
  <2>3. QED BY <2>1, <2>2 DEF IInv, TypeOK, StoreTypes, QueueInv
<1>2. /\ rjob' = j
      /\ rpc' = IF status[j] \in Stopping THEN "skip" ELSE "start"
      /\ queue' = Tail(queue)
  BY <1>1 DEF RunStart
<1>3. /\ queue' \in Seq(Jobs)
      /\ Len(queue') = Len(queue) - 1
      /\ \A n \in 1 .. Len(queue') : queue'[n] = queue[n + 1]
  BY <1>1, <1>2
<1>4. /\ \A k : InQueue(k)' => InQueue(k)
      /\ \A k : InQueue(k) => InQueue(k)' \/ k = j
      /\ ~ InQueue(j)'
  <2>1. \A k : InQueue(k)' => InQueue(k)
    BY <1>1, <1>3 DEF InQueue
  <2>2. ASSUME NEW k, NEW n \in 1 .. Len(queue), queue[n] = k, k # j PROVE InQueue(k)'
    <3>1. n # 1 /\ n - 1 \in 1 .. Len(queue') /\ n = (n - 1) + 1
      BY <1>1, <1>3, <2>2
    <3>2. QED BY <1>3, <2>2, <3>1 DEF InQueue
  <2>3. ~ InQueue(j)'
    <3>1. SUFFICES ASSUME NEW n \in 1 .. Len(queue'), queue'[n] = j PROVE FALSE
      BY DEF InQueue
    <3>2. n + 1 \in 1 .. Len(queue) /\ 1 \in 1 .. Len(queue) /\ n + 1 # 1
          /\ queue[n + 1] = queue[1]
      BY <1>1, <1>3, <3>1
    <3>3. QED BY <3>2 DEF IInv, QueueInv
  <2>4. QED BY <2>1, <2>2, <2>3 DEF InQueue
<1>5. TypeOK'
  BY <1>1, <1>2, <1>3
     DEF RunStart, IInv, TypeOK, StoreTypes, FileTypes, ThreadTypes, RunLabels
<1>6. ClientInv'
  <2>1. \A c \in Clients : cpc[c] \in {"add", "submit"} => cjob[c] # j
    BY <1>1 DEF IInv, ClientInv, InQueue
  <2>2. QED BY <1>2, <1>4, <2>1 DEF RunStart, IInv, ClientInv
<1>7. QueueInv'
  <2>1. \A n \in 1 .. Len(queue') : n + 1 \in 1 .. Len(queue)
    BY <1>1, <1>3
  <2>2. \A m, n \in 1 .. Len(queue') : queue'[m] = queue'[n] => m = n
    BY <1>1, <1>3, <2>1 DEF IInv, QueueInv
  <2>3. \A n \in 1 .. Len(queue') : queue'[n] # j
    BY <1>4 DEF InQueue
  <2>4. QED BY <1>2, <1>3, <2>1, <2>2, <2>3 DEF RunStart, IInv, QueueInv
<1>8. IdInv' /\ RunnerInv' /\ LockInv'
  BY <1>1, <1>2
     DEF RunStart, IInv, IdInv, RunnerInv, LockInv, Working, RunLabels, Ending
<1>9. StoreInv' /\ RunningInv'
  BY <1>1, <1>2 DEF RunStart, IInv, StoreInv, RunningInv, RunningTracked, Ending
<1>10. FileInv'
  BY <1>1, <1>2 DEF RunStart, IInv, FileInv, Saving
<1>11. QueuedInv'
  BY <1>1, <1>2, <1>4 DEF RunStart, IInv, QueuedInv, QueuedTracked, Submitting
<1>12. QED BY <1>5, <1>6, <1>7, <1>8, <1>9, <1>10, <1>11 DEF IInv

\* A job cancelled before its turn ends without having run (runner.py:295).
LEMMA RunSkipStep == ASSUME IInv, RunSkip PROVE IInv'
<1>1. rjob \in Jobs
  BY DEF RunSkip, IInv, RunnerInv, TypeOK, StoreTypes
<1>2. TypeOK'
  BY <1>1 DEF RunSkip, SetStatus, IInv, TypeOK, StoreTypes, FileTypes, ThreadTypes,
         RunLabels
<1>3. QED BY <1>2, WorkerEnds DEF RunSkip

\* The write of "running" may follow a cancel that came after the check
\* (runner.py:302).
LEMMA RunMarkRunningStep == ASSUME IInv, RunMarkRunning PROVE IInv'
<1>1. /\ rpc = "start" /\ rpc' = "saveRunning" /\ rjob \in cached /\ rjob \in Jobs
      /\ status[rjob] \in {"queued", "canceling"}
  BY DEF RunMarkRunning, IInv, RunnerInv, TypeOK, StoreTypes
<1>2. status'[rjob] = "running" /\ \A j \in Jobs : j # rjob => status'[j] = status[j]
  BY <1>1 DEF RunMarkRunning, SetStatus, IInv, TypeOK, StoreTypes
<1>3. TypeOK'
  BY <1>1 DEF RunMarkRunning, SetStatus, IInv, TypeOK, StoreTypes, FileTypes,
         ThreadTypes,
              RunLabels
<1>4. IdInv' /\ LockInv'
  BY <1>1, <1>2 DEF RunMarkRunning, IInv, IdInv, LockInv, TypeOK, StoreTypes
<1>5. ClientInv'
  BY <1>1, <1>2 DEF RunMarkRunning, IInv, ClientInv, InQueue, TypeOK, StoreTypes
<1>6. QueueInv'
  BY <1>1, <1>2 DEF RunMarkRunning, IInv, QueueInv, TypeOK, StoreTypes
<1>7. RunnerInv' /\ RunningInv'
  BY <1>1, <1>2
     DEF RunMarkRunning, IInv, RunnerInv, RunningInv, RunningTracked, Working, Ending,
                    TypeOK, StoreTypes
<1>8. StoreInv'
  BY <1>1, <1>2 DEF RunMarkRunning, IInv, StoreInv
<1>9. FileInv'
  BY <1>1, <1>2 DEF RunMarkRunning, IInv, FileInv, Saving, TypeOK, StoreTypes
<1>10. QueuedInv'
  BY <1>1, <1>2
     DEF RunMarkRunning, IInv, QueuedInv, QueuedTracked, InQueue, Submitting, TypeOK,
                    StoreTypes
<1>11. QED BY <1>3, <1>4, <1>5, <1>6, <1>7, <1>8, <1>9, <1>10 DEF IInv

\* A step of the worker inside its job that saves no status.
LEMMA WorkerQuiet ==
    ASSUME IInv, TypeOK', rpc \in Working, rpc' \in Working,
           LockFree => diskArts' = artCache',
           UNCHANGED <<next, status, cached, queue, rjob, cpc, cjob, up, lock,
                       diskStatus>>
    PROVE  IInv'
<1>1. IdInv'
  BY DEF IInv, IdInv
<1>2. FileInv'
  BY DEF IInv, FileInv, Working, RunLabels, Ending, Saving
<1>3. QED BY <1>1, <1>2, WorkerMoves

\* Inside a job the worker's job is a job.
LEMMA WorkedJob ==
    ASSUME IInv, rpc # "idle"
    PROVE  rjob \in Jobs /\ <<rjob, "report">> \in Artifacts
           /\ <<rjob, "bundle">> \in Artifacts
BY DEF IInv, RunnerInv, TypeOK, ThreadTypes, Artifacts, Kinds

\* The worker's steps inside its job that save no status.
LEMMA RunQuietStep ==
    ASSUME IInv,
           \/ RunResolve \/ RunWriteReport \/ RunRegister \/ RunRegisterFails
           \/ RunWrite \/ RunAddBundle \/ RunRaise \/ RunExcept
           \/ RunExceptRegisterFails
    PROVE  IInv'
<1>1. CASE RunResolve
  <2>1. rpc \in Working /\ rpc' \in Working
    BY <1>1 DEF RunResolve, Working, RunLabels, Ending
  <2>2. TypeOK'
    BY <1>1, <2>1, WorkedJob
       DEF RunResolve, WriteLog, IInv, TypeOK, StoreTypes, FileTypes, ThreadTypes,
           Working, RunLabels, Ending
  <2>3. QED BY <1>1, <2>1, <2>2, WorkerQuiet DEF RunResolve, WriteLog, IInv, FileInv
<1>2. CASE RunWriteReport
  <2>1. rpc \in Working /\ rpc' \in Working
    BY <1>2 DEF RunWriteReport, Working, RunLabels, Ending
  <2>2. TypeOK'
    BY <1>2, <2>1, WorkedJob
       DEF RunWriteReport, IInv, TypeOK, StoreTypes, FileTypes, ThreadTypes, Working,
           RunLabels, Ending
  <2>3. QED BY <1>2, <2>1, <2>2, WorkerQuiet DEF RunWriteReport, IInv, FileInv
<1>3. CASE RunRegister
  <2>1. rpc \in Working /\ rpc' \in Working
    BY <1>3 DEF RunRegister, Working, RunLabels, Ending
  <2>2. TypeOK'
    BY <1>3, <2>1, WorkedJob
       DEF RunRegister, AddArtifact, IInv, TypeOK, StoreTypes, FileTypes, ThreadTypes,
           Working, RunLabels, Ending
  <2>3. QED BY <1>3, <2>1, <2>2, WorkerQuiet DEF RunRegister, AddArtifact, IInv, FileInv
<1>4. CASE RunRegisterFails
  <2>1. rpc \in Working /\ rpc' \in Working
    BY <1>4 DEF RunRegisterFails, AfterRegister, Working, RunLabels, Ending
  <2>2. TypeOK'
    BY <1>4, <2>1, WorkedJob
       DEF RunRegisterFails, AfterRegister, IInv, TypeOK, StoreTypes, FileTypes,
           ThreadTypes, Working, RunLabels, Ending
  <2>3. QED BY <1>4, <2>1, <2>2, WorkerQuiet
               DEF RunRegisterFails, AfterRegister, IInv, FileInv
<1>5. CASE RunWrite
  <2>1. rpc \in Working /\ rpc' \in Working
    BY <1>5 DEF RunWrite, Working, RunLabels, Ending
  <2>2. TypeOK'
    BY <1>5, <2>1, WorkedJob
       DEF RunWrite, IInv, TypeOK, StoreTypes, FileTypes, ThreadTypes, Working,
           RunLabels, Ending
  <2>3. QED BY <1>5, <2>1, <2>2, WorkerQuiet DEF RunWrite, IInv, FileInv
<1>6. CASE RunAddBundle
  <2>1. rpc \in Working /\ rpc' \in Working
    BY <1>6 DEF RunAddBundle, Working, RunLabels, Ending
  <2>2. TypeOK'
    BY <1>6, <2>1, WorkedJob
       DEF RunAddBundle, AddArtifact, IInv, TypeOK, StoreTypes, FileTypes,
           ThreadTypes, Working, RunLabels, Ending
  <2>3. QED BY <1>6, <2>1, <2>2, WorkerQuiet
               DEF RunAddBundle, AddArtifact, IInv, FileInv
<1>7. CASE RunRaise
  <2>1. rpc \in Working /\ rpc' \in Working
    BY <1>7 DEF RunRaise, Working, RunLabels, Ending
  <2>2. TypeOK'
    BY <1>7, <2>1, WorkedJob
       DEF RunRaise, IInv, TypeOK, StoreTypes, FileTypes, ThreadTypes, Working,
           RunLabels, Ending
  <2>3. QED BY <1>7, <2>1, <2>2, WorkerQuiet DEF RunRaise, IInv, FileInv
<1>8. CASE RunExcept
  <2>1. rpc \in Working /\ rpc' \in Working
    BY <1>8 DEF RunExcept, Working, RunLabels, Ending
  <2>2. TypeOK'
    <3>1. CASE report = "written"
      <4>1. artCache' \subseteq Artifacts /\ diskArts' \subseteq Artifacts
        BY <1>8, <2>1, <3>1, WorkedJob
           DEF RunExcept, AddArtifact, IInv, TypeOK, StoreTypes, Working, RunLabels,
               Ending
      <4>2. QED BY <1>8, <3>1, <4>1
                   DEF RunExcept, IInv, TypeOK, StoreTypes, FileTypes, ThreadTypes,
                       RunLabels
    <3>2. CASE report # "written"
      BY <1>8, <3>2
         DEF RunExcept, IInv, TypeOK, StoreTypes, FileTypes, ThreadTypes, RunLabels
    <3>3. QED BY <3>1, <3>2
  <2>3. QED BY <1>8, <2>1, <2>2, WorkerQuiet DEF RunExcept, AddArtifact, IInv, FileInv
<1>9. CASE RunExceptRegisterFails
  <2>1. rpc \in Working /\ rpc' \in Working
    BY <1>9 DEF RunExceptRegisterFails, Working, RunLabels, Ending
  <2>2. TypeOK'
    BY <1>9, <2>1, WorkedJob
       DEF RunExceptRegisterFails, IInv, TypeOK, StoreTypes, FileTypes, ThreadTypes,
           Working, RunLabels, Ending
  <2>3. QED BY <1>9, <2>1, <2>2, WorkerQuiet DEF RunExceptRegisterFails, IInv, FileInv
<1>10. QED BY <1>1, <1>2, <1>3, <1>4, <1>5, <1>6, <1>7, <1>8, <1>9

\* The save of "running" (runner.py:304).
LEMMA RunSaveRunningStep == ASSUME IInv, RunSaveRunning PROVE IInv'
<1>1. rpc \in Working \cup {"saveRunning"} /\ rpc' \in Working
      /\ rjob \in cached /\ rjob \in Jobs
  BY DEF RunSaveRunning, IInv, RunnerInv, TypeOK, StoreTypes, Working, RunLabels, Ending
<1>2. StoreTypes'
  BY <1>1 DEF RunSaveRunning, UpdateJob, Kinds, IInv, TypeOK, StoreTypes
<1>3. /\ cached' = cached
      /\ diskStatus' \in [Jobs -> Status \cup {"none"}]
      /\ diskArtIds' \in [Jobs -> SUBSET Kinds]
      /\ IdInv' /\ FileInv'
  BY <1>1, <1>2, WorkerSaves DEF RunSaveRunning
<1>4. TypeOK'
  BY <1>1, <1>2, <1>3
     DEF RunSaveRunning, IInv, TypeOK, StoreTypes, FileTypes, ThreadTypes, RunLabels
<1>5. QED BY <1>1, <1>3, <1>4, WorkerMoves DEF RunSaveRunning

\* The early registration of a report ends with update_job (runner.py:174).
LEMMA RunRegisteredStep == ASSUME IInv, RunRegistered PROVE IInv'
<1>1. rpc \in Working \cup {"saveRunning"} /\ rpc' \in Working
      /\ rjob \in cached /\ rjob \in Jobs
  BY DEF RunRegistered, AfterRegister, IInv, RunnerInv, TypeOK, StoreTypes, Working,
         RunLabels, Ending
<1>2. StoreTypes'
  BY <1>1 DEF RunRegistered, UpdateJob, Kinds, IInv, TypeOK, StoreTypes
<1>3. /\ cached' = cached
      /\ diskStatus' \in [Jobs -> Status \cup {"none"}]
      /\ diskArtIds' \in [Jobs -> SUBSET Kinds]
      /\ IdInv' /\ FileInv'
  BY <1>1, <1>2, WorkerSaves DEF RunRegistered
<1>4. TypeOK'
  BY <1>1, <1>2, <1>3
     DEF RunRegistered, AfterRegister, IInv, TypeOK, StoreTypes, FileTypes,
         ThreadTypes, RunLabels
<1>5. QED BY <1>1, <1>3, <1>4, WorkerMoves DEF RunRegistered, AfterRegister

\* So does the registration in the except handler (runner.py:1006).
LEMMA RunExceptRegisteredStep == ASSUME IInv, RunExceptRegistered PROVE IInv'
<1>1. rpc \in Working \cup {"saveRunning"} /\ rpc' \in Working
      /\ rjob \in cached /\ rjob \in Jobs
  BY DEF RunExceptRegistered, IInv, RunnerInv, TypeOK, StoreTypes, Working, RunLabels,
         Ending
<1>2. StoreTypes'
  BY <1>1 DEF RunExceptRegistered, UpdateJob, Kinds, IInv, TypeOK, StoreTypes
<1>3. /\ cached' = cached
      /\ diskStatus' \in [Jobs -> Status \cup {"none"}]
      /\ diskArtIds' \in [Jobs -> SUBSET Kinds]
      /\ IdInv' /\ FileInv'
  BY <1>1, <1>2, WorkerSaves DEF RunExceptRegistered
<1>4. TypeOK'
  BY <1>1, <1>2, <1>3
     DEF RunExceptRegistered, IInv, TypeOK, StoreTypes, FileTypes, ThreadTypes,
         RunLabels
<1>5. QED BY <1>1, <1>3, <1>4, WorkerMoves DEF RunExceptRegistered

\* Acquisition and pre-pull save the job only when they add warnings.
LEMMA RunAcquireStep == ASSUME IInv, RunAcquire PROVE IInv'
<1>1. rpc \in Working \cup {"saveRunning"} /\ rpc' \in Working
      /\ rjob \in cached /\ rjob \in Jobs
  BY DEF RunAcquire, IInv, RunnerInv, TypeOK, StoreTypes, Working, RunLabels, Ending
<1>2. StoreTypes'
  BY <1>1 DEF RunAcquire, SaveWarnings, UpdateJob, IInv, TypeOK, StoreTypes
<1>3. /\ cached' = cached
      /\ diskStatus' \in [Jobs -> Status \cup {"none"}]
      /\ diskArtIds' \in [Jobs -> SUBSET Kinds]
      /\ IdInv' /\ FileInv'
  <2>1. CASE UpdateJob(rjob)
    BY <1>1, <1>2, <2>1, WorkerSaves DEF RunAcquire
  <2>2. CASE UNCHANGED <<cached, diskStatus, diskArtIds>>
    BY <1>1, <2>2
       DEF RunAcquire, IInv, TypeOK, FileTypes, IdInv, FileInv, Working, RunLabels,
           Ending, Saving
  <2>3. QED BY <2>1, <2>2 DEF RunAcquire, SaveWarnings
<1>4. TypeOK'
  BY <1>1, <1>2, <1>3
     DEF RunAcquire, IInv, TypeOK, StoreTypes, FileTypes, ThreadTypes, RunLabels
<1>5. QED BY <1>1, <1>3, <1>4, WorkerMoves DEF RunAcquire

\* So does the scan.
LEMMA RunScanStep == ASSUME IInv, RunScan PROVE IInv'
<1>1. rpc \in Working \cup {"saveRunning"} /\ rpc' \in Working
      /\ rjob \in cached /\ rjob \in Jobs
  BY DEF RunScan, IInv, RunnerInv, TypeOK, StoreTypes, Working, RunLabels, Ending
<1>2. StoreTypes'
  BY <1>1 DEF RunScan, SaveWarnings, UpdateJob, IInv, TypeOK, StoreTypes
<1>3. /\ cached' = cached
      /\ diskStatus' \in [Jobs -> Status \cup {"none"}]
      /\ diskArtIds' \in [Jobs -> SUBSET Kinds]
      /\ IdInv' /\ FileInv'
  <2>1. CASE UpdateJob(rjob)
    BY <1>1, <1>2, <2>1, WorkerSaves DEF RunScan
  <2>2. CASE UNCHANGED <<cached, diskStatus, diskArtIds>>
    BY <1>1, <2>2
       DEF RunScan, IInv, TypeOK, FileTypes, IdInv, FileInv, Working, RunLabels,
           Ending, Saving
  <2>3. QED BY <2>1, <2>2 DEF RunScan, SaveWarnings
<1>4. TypeOK'
  BY <1>1, <1>2, <1>3
     DEF RunScan, IInv, TypeOK, StoreTypes, FileTypes, ThreadTypes, RunLabels
<1>5. QED BY <1>1, <1>3, <1>4, WorkerMoves DEF RunScan

\* The four places that set the final status of a job that has run.
LEMMA RunEndStep ==
    ASSUME IInv, RunPlanned \/ RunCanceled \/ RunSucceed \/ RunFail
    PROVE  IInv'
<1>1. CASE RunPlanned
  <2>1. rpc \in Working /\ rpc' \in {"log", "save"}
    BY <1>1 DEF RunPlanned, Working, RunLabels, Ending
  <2>2. TypeOK'
    BY <1>1, <2>1, WorkedJob
       DEF RunPlanned, SetStatus, IInv, TypeOK, StoreTypes, FileTypes, ThreadTypes,
           Working, RunLabels, Ending
  <2>3. QED BY <1>1, <2>1, <2>2, WorkerEnds DEF RunPlanned
<1>2. CASE RunCanceled
  <2>1. rpc \in Working /\ rpc' \in {"log", "save"}
    BY <1>2 DEF RunCanceled, Working, RunLabels, Ending
  <2>2. TypeOK'
    BY <1>2, <2>1, WorkedJob
       DEF RunCanceled, SetStatus, WriteLog, IInv, TypeOK, StoreTypes, FileTypes,
           ThreadTypes, Working, RunLabels, Ending
  <2>3. QED BY <1>2, <2>1, <2>2, WorkerEnds DEF RunCanceled
<1>3. CASE RunSucceed
  <2>1. rpc \in Working /\ rpc' \in {"log", "save"}
    BY <1>3 DEF RunSucceed, Working, RunLabels, Ending
  <2>2. TypeOK'
    BY <1>3, <2>1, WorkedJob
       DEF RunSucceed, SetStatus, Kinds, IInv, TypeOK, StoreTypes, FileTypes,
           ThreadTypes, Working, RunLabels, Ending
  <2>3. QED BY <1>3, <2>1, <2>2, WorkerEnds DEF RunSucceed
<1>4. CASE RunFail
  <2>1. rpc \in Working /\ rpc' \in {"log", "save"}
    BY <1>4 DEF RunFail, Working, RunLabels, Ending
  <2>2. TypeOK'
    BY <1>4, <2>1, WorkedJob
       DEF RunFail, SetStatus, IInv, TypeOK, StoreTypes, FileTypes, ThreadTypes,
           Working, RunLabels, Ending
  <2>3. QED BY <1>4, <2>1, <2>2, WorkerEnds DEF RunFail
<1>5. QED BY <1>1, <1>2, <1>3, <1>4

\* The log line between the final status and its save.
LEMMA RunLogStep == ASSUME IInv, RunLog PROVE IInv'
<1>1. rjob \in Jobs /\ rpc = "log" /\ rpc' = "save"
      /\ UNCHANGED <<next, status, cached, queue, rjob, cpc, cjob, up, lock, diskStatus,
                     diskArts, artCache>>
  BY WorkedJob DEF RunLog
<1>2. TypeOK'
  BY <1>1 DEF RunLog, WriteLog, IInv, TypeOK, StoreTypes, FileTypes, ThreadTypes,
         RunLabels
<1>3. IdInv' /\ QueueInv' /\ LockInv' /\ StoreInv'
  BY <1>1 DEF IInv, IdInv, QueueInv, LockInv, StoreInv
<1>4. RunnerInv' /\ RunningInv'
  BY <1>1 DEF IInv, RunnerInv, RunningInv, RunningTracked, Working, RunLabels, Ending
<1>5. ClientInv' /\ QueuedInv'
  BY <1>1 DEF IInv, ClientInv, QueuedInv, QueuedTracked, InQueue, Submitting
<1>6. FileInv'
  BY <1>1 DEF IInv, FileInv, Saving
<1>7. QED BY <1>2, <1>3, <1>4, <1>5, <1>6 DEF IInv

\* The worker saves a job that has ended, or leaves it.
LEMMA WorkerLeaves ==
    ASSUME IInv, TypeOK', IdInv', FileInv',
           rpc \in {"saveSkip", "save", "finally"},
           cached' = cached \/ cached' = cached \cup {rjob},
           \/ rpc' = "idle" /\ rjob' = NoJob
           \/ rpc' = "finally" /\ rjob' = rjob,
           UNCHANGED <<next, status, queue, cpc, cjob, up, lock>>
    PROVE  IInv'
<1>1. rjob \in Jobs /\ status[rjob] \in Terminal \cup {"canceling"}
  BY DEF IInv, RunnerInv, TypeOK, ThreadTypes
<1>2. ClientInv'
  <2>1. \A c \in Clients : cpc[c] \in {"add", "submit"} =>
            /\ cjob[c] \in Jobs /\ cjob[c] # rjob /\ ~ InQueue(cjob[c])
    BY DEF IInv, ClientInv
  <2>2. \A c \in Clients : cpc[c] \in {"add", "submit"} =>
            cjob'[c] # rjob' /\ ~ InQueue(cjob[c])'
    BY <2>1 DEF InQueue
  <2>3. \A c \in Clients : cpc[c] = "add" => cjob[c] \notin cached'
    BY <2>1 DEF IInv, ClientInv
  <2>4. QED BY <2>2, <2>3 DEF IInv, ClientInv
<1>3. QueueInv'
  <2>1. \A n \in 1 .. Len(queue) : queue[n] # NoJob /\ queue[n] # rjob'
    BY DEF IInv, QueueInv, TypeOK, StoreTypes
  <2>2. QED BY <2>1 DEF IInv, QueueInv
<1>4. RunnerInv'
  BY <1>1 DEF IInv, RunnerInv, Working, RunLabels, Ending
<1>5. StoreInv'
  BY <1>1 DEF IInv, StoreInv
<1>6. LockInv'
  BY DEF IInv, LockInv
<1>7. QueuedInv'
  BY <1>1 DEF IInv, QueuedInv, QueuedTracked, InQueue, Submitting
<1>8. RunningInv'
  BY <1>1 DEF IInv, RunningInv, RunningTracked, Ending
<1>9. QED BY <1>2, <1>3, <1>4, <1>5, <1>6, <1>7, <1>8 DEF IInv

\* The final save and the end of _run_job.
LEMMA RunLeaveStep ==
    ASSUME IInv, RunSaveSkip \/ RunSave \/ RunFinally
    PROVE  IInv'
<1>1. CASE RunSaveSkip \/ RunSave
  <2>1. /\ rpc \in {"saveSkip", "save"} /\ rjob \in Jobs /\ status[rjob] # "none"
        /\ cached' = cached \cup {rjob} /\ SaveJobs /\ LockFree
    BY <1>1 DEF RunSaveSkip, RunSave, UpdateJob, IInv, RunnerInv, TypeOK, ThreadTypes
  <2>2. StoreTypes'
    BY <1>1, <2>1 DEF RunSaveSkip, RunSave, IInv, TypeOK, StoreTypes
  <2>3. \A j \in cached' : status[j] # "none"
    BY <2>1 DEF IInv, IdInv
  <2>4. /\ diskStatus' \in [Jobs -> Status \cup {"none"}]
        /\ diskArtIds' \in [Jobs -> SUBSET Kinds]
        /\ IdInv' /\ FileInv'
    BY <1>1, <2>1, <2>2, <2>3, Saved DEF RunSaveSkip, RunSave
  <2>5. TypeOK'
    BY <1>1, <2>2, <2>4 DEF RunSaveSkip, RunSave, RunReturn, IInv, TypeOK, FileTypes,
                            ThreadTypes, RunLabels
  <2>6. QED
    BY <1>1, <2>1, <2>4, <2>5, WorkerLeaves DEF RunSaveSkip, RunSave, RunReturn
<1>2. CASE RunFinally
  <2>1. StoreTypes' /\ FileTypes'
    BY <1>2 DEF RunFinally, PruneSnapshots, IInv, TypeOK, StoreTypes, FileTypes
  <2>2. ThreadTypes'
    BY <1>2 DEF RunFinally, RunReturn, IInv, TypeOK, ThreadTypes, RunLabels
  <2>3. IdInv' /\ FileInv'
    BY <1>2 DEF RunFinally, RunReturn, IInv, IdInv, FileInv, Saving
  <2>4. QED
    BY <1>2, <2>1, <2>2, <2>3, WorkerLeaves DEF RunFinally, RunReturn, TypeOK
<1>3. QED BY <1>1, <1>2

-----------------------------------------------------------------------------
(* The client threads' steps *)

\* Where a client thread neither holds the lock nor relies on a job.
FreeLabels == {"idle", "prune", "find", "decide"}

\* A client's step that touches neither the store nor its files.
LEMMA ClientMoves ==
    ASSUME IInv, TypeOK', NEW c \in Clients, NEW l \in FreeLabels,
           up, cpc[c] \in FreeLabels, Goto(c, l),
           \A d \in Clients \ {c} : cjob'[d] = cjob[d],
           UNCHANGED <<next, status, cached, queue, rjob, rpc, up, lock, diskStatus,
                       diskArts, artCache>>
    PROVE  IInv'
<1>1. /\ cpc[c] \in FreeLabels /\ cpc'[c] \in FreeLabels
      /\ \A d \in Clients \ {c} : cpc'[d] = cpc[d]
  BY DEF IInv, TypeOK, ThreadTypes
<1>2. IdInv' /\ QueueInv' /\ RunnerInv' /\ RunningInv'
  BY DEF IInv, IdInv, QueueInv, RunnerInv, RunningInv, RunningTracked
<1>3. ClientInv'
  BY <1>1 DEF IInv, ClientInv, InQueue, FreeLabels
<1>4. StoreInv'
  BY <1>1 DEF IInv, StoreInv, FreeLabels
<1>5. LockInv'
  BY <1>1 DEF IInv, LockInv, FreeLabels
<1>6. FileInv'
  BY <1>1 DEF IInv, FileInv, FreeLabels, LockInv, TypeOK, StoreTypes
<1>7. QueuedInv'
  BY <1>1 DEF IInv, QueuedInv, QueuedTracked, InQueue, Submitting, FreeLabels
<1>8. QED BY <1>2, <1>3, <1>4, <1>5, <1>6, <1>7 DEF IInv

\* A thread is somewhere only after init_service.
LEMMA BusyClient ==
    ASSUME IInv, NEW c \in Clients, cpc[c] # "idle"
    PROVE  up
BY DEF IInv, StoreInv

\* The middle of create_job: pruning, the search for an identical job, its reuse.
LEMMA CreateQuietStep ==
    ASSUME IInv, NEW c \in Clients, CreatePrune(c) \/ CreateFind(c) \/ CreateReuse(c)
    PROVE  IInv'
<1>1. CASE CreatePrune(c)
  <2>1. TypeOK'
    BY <1>1 DEF CreatePrune, PruneSnapshots, IInv, TypeOK, StoreTypes, FileTypes,
           ThreadTypes,
                ClientLabels
  <2>2. QED BY <1>1, <2>1, BusyClient, ClientMoves DEF CreatePrune, FreeLabels
<1>2. CASE CreateFind(c)
  <2>1. \A r : FindJob(r) \subseteq Jobs \cup {NoJob}
    BY DEF FindJob, Newest, ActiveJobs, IInv, TypeOK, StoreTypes
  <2>2. PICK r \in Requests, j \in Jobs \cup {NoJob} :
          creq' = [creq EXCEPT ![c] = r] /\ cjob' = [cjob EXCEPT ![c] = j]
    BY <1>2, <2>1 DEF CreateFind
  <2>3. TypeOK'
    BY <1>2, <2>2
       DEF CreateFind, IInv, TypeOK, StoreTypes, FileTypes, ThreadTypes, ClientLabels
  <2>4. \A d \in Clients \ {c} : cjob'[d] = cjob[d]
    BY <2>2 DEF IInv, TypeOK, ThreadTypes
  <2>5. QED BY <1>2, <2>3, <2>4, BusyClient, ClientMoves DEF CreateFind, FreeLabels
<1>3. CASE CreateReuse(c)
  <2>1. TypeOK'
    BY <1>3 DEF CreateReuse, Return, IInv, TypeOK, StoreTypes, FileTypes, ThreadTypes,
                ClientLabels
  <2>2. \A d \in Clients \ {c} : cjob'[d] = cjob[d]
    BY <1>3 DEF CreateReuse, Return, IInv, TypeOK, ThreadTypes
  <2>3. QED BY <1>3, <2>1, <2>2, BusyClient, ClientMoves
               DEF CreateReuse, Return, FreeLabels
<1>4. QED BY <1>1, <1>2, <1>3

\* A restart request only schedules the restart (app.py:620).
LEMMA RestartRequestStep ==
    ASSUME IInv, NEW c \in Clients, RestartRequest(c)
    PROVE  IInv'
<1>1. TypeOK'
  BY DEF RestartRequest, IInv, TypeOK, StoreTypes, FileTypes, ThreadTypes
<1>2. Goto(c, cpc[c])
  BY DEF RestartRequest, IInv, TypeOK, ThreadTypes
<1>3. QED BY <1>1, <1>2, ClientMoves DEF RestartRequest, FreeLabels

\* Job.create: a new id, known to one thread.
LEMMA CreateNewStep == ASSUME IInv, NEW c \in Clients, CreateNew(c) PROVE IInv'
<1>1. PICK j \in Jobs :
        /\ j = next + 1 /\ next' = j /\ next \in Nat
        /\ reqOf' = [reqOf EXCEPT ![j] = creq[c]]
        /\ status' = [status EXCEPT ![j] = "queued"]
        /\ cjob' = [cjob EXCEPT ![c] = j]
  <2>1. next \in Nat /\ next + 1 \in Jobs
    BY BoundAssumption DEF CreateNew, IInv, TypeOK, StoreTypes
  <2>2. QED BY <2>1 DEF CreateNew
<1>2. /\ j \notin cached /\ status[j] = "none" /\ diskStatus[j] = "none"
      /\ status'[j] = "queued" /\ \A k \in Jobs : k # j => status'[k] = status[k]
  BY <1>1 DEF IInv, IdInv, TypeOK, StoreTypes
<1>3. /\ cpc[c] = "decide" /\ cpc'[c] = "add" /\ cjob'[c] = j
      /\ \A d \in Clients \ {c} : cpc'[d] = cpc[d] /\ cjob'[d] = cjob[d]
  BY <1>1 DEF CreateNew, IInv, TypeOK, ThreadTypes
<1>4. ~ InQueue(j) /\ j # rjob
  BY <1>2 DEF IInv, QueueInv, RunnerInv, InQueue, Working, RunLabels, Ending, TypeOK,
         ThreadTypes
<1>5. \A d \in Clients :
        cpc[d] \in {"add", "submit", "cancel", "cancelSave"} => cjob[d] # j
  BY <1>2 DEF IInv, ClientInv
<1>6. TypeOK'
  BY <1>1 DEF CreateNew, IInv, TypeOK, StoreTypes, FileTypes, ThreadTypes, ClientLabels
<1>7. IdInv'
  BY <1>1, <1>2 DEF CreateNew, IInv, IdInv, TypeOK, StoreTypes
<1>8. ClientInv'
  <2>1. /\ ~ InQueue(j)' /\ cached' = cached /\ rjob' = rjob
        /\ \A k : InQueue(k)' <=> InQueue(k)
    BY <1>4 DEF CreateNew, InQueue
  <2>2. QED BY <1>2, <1>3, <1>4, <1>5, <2>1 DEF IInv, ClientInv, TypeOK, ThreadTypes
<1>9. QueueInv' /\ RunnerInv'
  BY <1>1, <1>2, <1>4 DEF CreateNew, IInv, QueueInv, RunnerInv, TypeOK, StoreTypes
<1>10. StoreInv'
  BY <1>2, <1>3, BusyClient DEF CreateNew, IInv, StoreInv
<1>11. LockInv'
  BY <1>3 DEF CreateNew, IInv, LockInv
<1>12. FileInv'
  BY <1>2, <1>3 DEF CreateNew, IInv, FileInv, LockInv, TypeOK, StoreTypes
<1>13. QueuedInv' /\ RunningInv'
  BY <1>2, <1>3
     DEF CreateNew, IInv, QueuedInv, QueuedTracked, RunningInv, RunningTracked,
                    InQueue, Submitting, TypeOK, StoreTypes
<1>14. QED
  BY <1>6, <1>7, <1>8, <1>9, <1>10, <1>11, <1>12, <1>13 DEF IInv

\* add_job: the job enters the cache and jobs.json in one step.
LEMMA CreateAddStep == ASSUME IInv, NEW c \in Clients, CreateAdd(c) PROVE IInv'
<1>1. PICK j \in Jobs :
        /\ j = cjob[c] /\ cpc[c] = "add" /\ status[j] = "queued" /\ j # rjob
        /\ j \notin cached /\ ~ InQueue(j)
  BY DEF CreateAdd, IInv, ClientInv
<1>2. cached' = cached \cup {j} /\ SaveJobs /\ LockFree /\ UNCHANGED status
  BY <1>1 DEF CreateAdd, UpdateJob
<1>3. /\ cpc'[c] = "submit" /\ cjob' = cjob
      /\ \A d \in Clients \ {c} : cpc'[d] = cpc[d]
  BY DEF CreateAdd, IInv, TypeOK, ThreadTypes
<1>4. StoreTypes'
  BY <1>1, <1>2 DEF CreateAdd, IInv, TypeOK, StoreTypes
<1>5. \A k \in cached' : status[k] # "none"
  BY <1>1, <1>2 DEF IInv, IdInv
<1>6. /\ diskStatus' \in [Jobs -> Status \cup {"none"}]
      /\ diskArtIds' \in [Jobs -> SUBSET Kinds]
      /\ IdInv' /\ FileInv'
  BY <1>2, <1>4, <1>5, Saved DEF CreateAdd
<1>7. TypeOK'
  BY <1>4, <1>6 DEF CreateAdd, IInv, TypeOK, FileTypes, ThreadTypes, ClientLabels
<1>8. \A k : InQueue(k)' <=> InQueue(k)
  BY DEF CreateAdd, InQueue
<1>9. ClientInv'
  <2>1. ~ InQueue(j)' /\ rjob' = rjob
    BY <1>1 DEF CreateAdd, InQueue
  <2>2. \A d \in Clients \ {c} : cpc[d] \in {"add", "submit"} => cjob[d] # j
    BY <1>1 DEF IInv, ClientInv
  <2>3. \A d \in Clients : cpc[d] \in {"add", "submit"} => ~ InQueue(cjob[d])'
    BY DEF CreateAdd, IInv, ClientInv, InQueue
  <2>4. QED BY <1>1, <1>2, <1>3, <2>1, <2>2, <2>3 DEF IInv, ClientInv
<1>10. QueueInv' /\ RunnerInv' /\ RunningInv'
  BY <1>1, <1>2 DEF CreateAdd, IInv, QueueInv, RunnerInv, RunningInv, RunningTracked
<1>11. StoreInv'
  BY <1>1, <1>2, <1>3, BusyClient DEF CreateAdd, IInv, StoreInv
<1>12. LockInv'
  BY <1>1, <1>3 DEF CreateAdd, IInv, LockInv
<1>13. QueuedInv'
  BY <1>1, <1>2, <1>3 DEF CreateAdd, IInv, QueuedInv, QueuedTracked, InQueue, Submitting
<1>14. QED BY <1>6, <1>7, <1>9, <1>10, <1>11, <1>12, <1>13 DEF IInv

\* submit_job: a job that is still queued enters the executor's queue, and no
\* other thread submits it.
LEMMA CreateSubmitStep == ASSUME IInv, NEW c \in Clients, CreateSubmit(c) PROVE IInv'
<1>1. PICK j \in Jobs :
        /\ j = cjob[c] /\ cpc[c] = "submit" /\ j \in cached /\ j # rjob /\ j # NoJob
        /\ status[j] \in {"queued", "canceling"} /\ ~ InQueue(j)
  BY DEF CreateSubmit, IInv, ClientInv
<1>2. /\ cpc'[c] = "idle" /\ cjob'[c] = NoJob
      /\ \A d \in Clients \ {c} : cpc'[d] = cpc[d] /\ cjob'[d] = cjob[d]
  BY DEF CreateSubmit, Return, IInv, TypeOK, ThreadTypes
<1>3. /\ queue' \in Seq(Jobs)
      /\ \/ status[j] # "queued" /\ queue' = queue
         \/ /\ Len(queue') = Len(queue) + 1 /\ queue'[Len(queue) + 1] = j
            /\ \A n \in 1 .. Len(queue) : queue'[n] = queue[n]
  <2>1. queue \in Seq(Jobs)
    BY DEF IInv, TypeOK, ThreadTypes
  <2>2. CASE status[j] = "queued"
    <3>1. queue' = Append(queue, j)
      BY <1>1, <2>2 DEF CreateSubmit, Submitted
    <3>2. QED BY <2>1, <3>1
  <2>3. CASE status[j] # "queued"
    BY <1>1, <2>1, <2>3 DEF CreateSubmit, Submitted
  <2>4. QED BY <2>2, <2>3
<1>4. /\ \A k : InQueue(k) => InQueue(k)'
      /\ \A k : InQueue(k)' => InQueue(k) \/ k = j
      /\ status[j] = "queued" => InQueue(j)'
  <2>1. Len(queue) \in Nat
    BY DEF IInv, TypeOK, ThreadTypes
  <2>2. QED BY <1>3, <2>1 DEF InQueue
<1>5. TypeOK'
  BY <1>3 DEF CreateSubmit, Return, IInv, TypeOK, StoreTypes, FileTypes, ThreadTypes,
              ClientLabels
<1>6. ClientInv'
  <2>1. \A d \in Clients \ {c} : cpc[d] \in {"add", "submit"} => cjob[d] # j
    BY <1>1 DEF IInv, ClientInv
  <2>2. \A d \in Clients : cpc'[d] \in {"add", "submit"} => ~ InQueue(cjob[d])'
    BY <1>2, <1>4, <2>1 DEF IInv, ClientInv
  <2>3. QED BY <1>1, <1>2, <2>2 DEF CreateSubmit, IInv, ClientInv
<1>7. QueueInv'
  <2>1. Len(queue) \in Nat /\ \A n \in 1 .. Len(queue) : queue[n] # j
    BY <1>1 DEF InQueue, IInv, TypeOK, ThreadTypes
  <2>2. CASE queue' = queue
    BY <2>2 DEF CreateSubmit, IInv, QueueInv
  <2>3. CASE queue' # queue
    <3>1. \A n \in 1 .. Len(queue') :
             \/ n \in 1 .. Len(queue) /\ queue'[n] = queue[n]
             \/ n = Len(queue) + 1 /\ queue'[n] = j
      <4>1. /\ Len(queue') = Len(queue) + 1 /\ queue'[Len(queue) + 1] = j
            /\ \A n \in 1 .. Len(queue) : queue'[n] = queue[n]
        BY <1>3, <2>3
      <4>2. QED BY <2>1, <4>1
    <3>2. \A m, n \in 1 .. Len(queue') : queue'[m] = queue'[n] => m = n
      BY <2>1, <3>1 DEF IInv, QueueInv
    <3>3. QED BY <1>1, <3>1, <3>2 DEF CreateSubmit, IInv, QueueInv
  <2>4. QED BY <2>2, <2>3
<1>8. IdInv' /\ RunnerInv' /\ RunningInv'
  BY DEF CreateSubmit, IInv, IdInv, RunnerInv, RunningInv, RunningTracked
<1>9. StoreInv'
  BY <1>1, <1>2, BusyClient DEF CreateSubmit, IInv, StoreInv
<1>10. LockInv'
  BY <1>1, <1>2 DEF CreateSubmit, IInv, LockInv
<1>11. FileInv'
  BY <1>1, <1>2 DEF CreateSubmit, IInv, FileInv
<1>12. QueuedInv'
  <2>1. \A k \in Jobs : k # j /\ Submitting(k) => Submitting(k)'
    BY <1>1, <1>2 DEF Submitting
  <2>2. QED
    BY <1>1, <1>4, <2>1, BusyClient
       DEF CreateSubmit, IInv, QueuedInv, QueuedTracked, TypeOK,
                                        StoreTypes
<1>13. QED
  BY <1>5, <1>6, <1>7, <1>8, <1>9, <1>10, <1>11, <1>12 DEF IInv

\* cancel_job finds a stored job that is queued or running (job_router.py:132).
LEMMA CancelReadStep == ASSUME IInv, NEW c \in Clients, CancelRead(c) PROVE IInv'
<1>1. PICK j \in Jobs :
        /\ j \in cached /\ status[j] \in {"queued", "running"}
        /\ cjob' = [cjob EXCEPT ![c] = j] /\ cpc[c] = "idle" /\ up
  BY DEF CancelRead, IInv, TypeOK, StoreTypes
<1>2. /\ cpc'[c] = "cancel" /\ cjob'[c] = j
      /\ \A d \in Clients \ {c} : cpc'[d] = cpc[d] /\ cjob'[d] = cjob[d]
  BY <1>1 DEF CancelRead, IInv, TypeOK, ThreadTypes
<1>3. TypeOK'
  BY <1>1 DEF CancelRead, IInv, TypeOK, StoreTypes, FileTypes, ThreadTypes, ClientLabels
<1>4. ClientInv'
  <2>1. \A k : InQueue(k)' <=> InQueue(k)
    BY DEF CancelRead, InQueue
  <2>2. \A d \in Clients : cpc[d] = "add" => cjob[d] # j
    BY <1>1 DEF IInv, ClientInv
  <2>3. \A d \in Clients : cpc'[d] \in {"add", "submit"} => ~ InQueue(cjob[d])'
    BY <1>2, <2>1 DEF IInv, ClientInv
  <2>4. QED BY <1>1, <1>2, <2>2, <2>3 DEF CancelRead, IInv, ClientInv
<1>5. IdInv' /\ QueueInv' /\ RunnerInv' /\ RunningInv'
  BY DEF CancelRead, IInv, IdInv, QueueInv, RunnerInv, RunningInv, RunningTracked
<1>6. StoreInv'
  BY <1>1, <1>2 DEF CancelRead, IInv, StoreInv
<1>7. LockInv'
  BY <1>1, <1>2 DEF CancelRead, IInv, LockInv
<1>8. FileInv'
  BY <1>1, <1>2 DEF CancelRead, IInv, FileInv
<1>9. QueuedInv'
  BY <1>1, <1>2 DEF CancelRead, IInv, QueuedInv, QueuedTracked, InQueue, Submitting
<1>10. QED BY <1>3, <1>4, <1>5, <1>6, <1>7, <1>8, <1>9 DEF IInv

\* It overwrites whatever the status has become since (job_router.py:133).
LEMMA CancelWriteStep == ASSUME IInv, NEW c \in Clients, CancelWrite(c) PROVE IInv'
<1>1. PICK j \in Jobs : j = cjob[c] /\ cpc[c] = "cancel" /\ status[j] # "none"
  BY DEF CancelWrite, IInv, ClientInv
<1>2. /\ cpc'[c] = "cancelSave" /\ cjob' = cjob
      /\ \A d \in Clients \ {c} : cpc'[d] = cpc[d]
  BY <1>1 DEF CancelWrite, IInv, TypeOK, ThreadTypes
<1>3. status'[j] = "canceling" /\ \A k \in Jobs : k # j => status'[k] = status[k]
  BY <1>1 DEF CancelWrite, IInv, TypeOK, StoreTypes
<1>4. TypeOK'
  BY <1>1 DEF CancelWrite, IInv, TypeOK, StoreTypes, FileTypes, ThreadTypes,
         ClientLabels
<1>5. IdInv'
  BY <1>1, <1>3 DEF CancelWrite, IInv, IdInv, TypeOK, StoreTypes
<1>6. ClientInv'
  <2>1. \A d \in Clients : cpc[d] = "add" => cjob[d] # j
    BY <1>1 DEF IInv, ClientInv
  <2>2. \A d \in Clients : cpc[d] \in {"add", "submit"} => ~ InQueue(cjob[d])'
    BY DEF CancelWrite, IInv, ClientInv, InQueue
  <2>3. QED BY <1>1, <1>2, <1>3, <2>1, <2>2 DEF CancelWrite, IInv, ClientInv
<1>7. QueueInv'
  BY <1>3 DEF CancelWrite, IInv, QueueInv, TypeOK, StoreTypes
<1>8. RunnerInv'
  BY <1>3 DEF CancelWrite, IInv, RunnerInv, Working, RunLabels, Ending, TypeOK,
         ThreadTypes
<1>9. StoreInv'
  BY <1>1, <1>2, <1>3, BusyClient DEF CancelWrite, IInv, StoreInv
<1>10. LockInv'
  BY <1>1, <1>2 DEF CancelWrite, IInv, LockInv
<1>11. FileInv'
  BY <1>1, <1>2, <1>3 DEF CancelWrite, IInv, FileInv, LockInv, TypeOK, StoreTypes
<1>12. QueuedInv' /\ RunningInv'
  BY <1>1, <1>2, <1>3 DEF CancelWrite, IInv, QueuedInv, QueuedTracked, RunningInv,
                          RunningTracked, InQueue, Submitting, TypeOK, StoreTypes
<1>13. QED
  BY <1>4, <1>5, <1>6, <1>7, <1>8, <1>9, <1>10, <1>11, <1>12 DEF IInv

\* Its save may put a removed job back into the store.
LEMMA CancelSaveStep == ASSUME IInv, NEW c \in Clients, CancelSave(c) PROVE IInv'
<1>1. PICK j \in Jobs :
        /\ j = cjob[c] /\ cpc[c] = "cancelSave" /\ status[j] # "none"
        /\ cached' = cached \cup {j} /\ SaveJobs /\ LockFree
  BY DEF CancelSave, UpdateJob, IInv, ClientInv
<1>2. /\ cpc'[c] = "idle" /\ cjob'[c] = NoJob
      /\ \A d \in Clients \ {c} : cpc'[d] = cpc[d] /\ cjob'[d] = cjob[d]
  BY DEF CancelSave, Return, IInv, TypeOK, ThreadTypes
<1>3. StoreTypes'
  BY <1>1 DEF CancelSave, IInv, TypeOK, StoreTypes
<1>4. \A k \in cached' : status[k] # "none"
  BY <1>1 DEF IInv, IdInv
<1>5. /\ diskStatus' \in [Jobs -> Status \cup {"none"}]
      /\ diskArtIds' \in [Jobs -> SUBSET Kinds]
      /\ IdInv' /\ FileInv'
  BY <1>1, <1>3, <1>4, Saved DEF CancelSave
<1>6. TypeOK'
  BY <1>3, <1>5
     DEF CancelSave, Return, IInv, TypeOK, FileTypes, ThreadTypes, ClientLabels
<1>7. \A d \in Clients : cpc[d] = "add" => cjob[d] # j
  BY <1>1 DEF IInv, ClientInv
<1>8. ClientInv'
  <2>1. \A d \in Clients : cpc'[d] \in {"add", "submit"} => ~ InQueue(cjob[d])'
    BY <1>2 DEF CancelSave, IInv, ClientInv, InQueue
  <2>2. QED BY <1>1, <1>2, <1>7, <2>1 DEF CancelSave, IInv, ClientInv
<1>9. QueueInv' /\ RunnerInv'
  BY <1>1 DEF CancelSave, IInv, QueueInv, RunnerInv
<1>10. StoreInv'
  BY <1>1, <1>2, BusyClient DEF CancelSave, IInv, StoreInv
<1>11. LockInv'
  BY <1>1, <1>2 DEF CancelSave, IInv, LockInv
<1>12. j \in cached \/ status[j] \notin {"queued", "running"}
  BY <1>7 DEF IInv, StoreInv
<1>13. QueuedInv' /\ RunningInv'
  BY <1>1, <1>2, <1>12, BusyClient
     DEF CancelSave, IInv, QueuedInv, QueuedTracked, RunningInv,
                          RunningTracked, InQueue, Submitting
<1>14. QED BY <1>5, <1>6, <1>8, <1>9, <1>10, <1>11, <1>13 DEF IInv

\* cleanup_jobs removes only jobs that are not active, so nothing that a thread,
\* the queue or the worker relies on leaves the store.
LEMMA CreateCollectStep == ASSUME IInv, NEW c \in Clients, CreateCollect(c) PROVE IInv'
<1>1. PICK gone \in SUBSET (cached \ ActiveJobs) :
        /\ RemoveJobs(gone)
        /\ IF gone = {} THEN Goto(c, "prune") /\ UNCHANGED lock
                        ELSE Goto(c, "saveJobs") /\ lock' = c
  BY DEF CreateCollect, Collectable
<1>2. /\ cached' = cached \ gone /\ artCache' \subseteq artCache
      /\ \A j \in gone : status[j] \notin Active
  BY <1>1 DEF RemoveJobs, ActiveJobs
<1>3. /\ up /\ LockFree /\ cpc[c] = "idle" /\ cpc'[c] \in {"prune", "saveJobs"}
      /\ \A d \in Clients \ {c} : cpc'[d] = cpc[d]
  BY <1>1 DEF CreateCollect, IInv, TypeOK, ThreadTypes
<1>4. TypeOK'
  <2>1. StoreTypes' /\ FileTypes'
    BY <1>1, <1>2 DEF CreateCollect, RemoveJobs, IInv, TypeOK, StoreTypes, FileTypes
  <2>2. ThreadTypes'
    BY <1>1 DEF CreateCollect, IInv, TypeOK, ThreadTypes, ClientLabels
  <2>3. QED BY <2>1, <2>2 DEF TypeOK
<1>5. IdInv'
  BY <1>2 DEF CreateCollect, IInv, IdInv
<1>6. ClientInv'
  <2>1. \A d \in Clients : cpc[d] \in {"add", "submit"} => ~ InQueue(cjob[d])'
    BY DEF CreateCollect, IInv, ClientInv, InQueue
  <2>2. QED BY <1>2, <1>3, <2>1 DEF CreateCollect, IInv, ClientInv
<1>7. QueueInv' /\ RunnerInv'
  BY <1>2 DEF CreateCollect, IInv, QueueInv, RunnerInv
<1>8. StoreInv'
  BY <1>2, <1>3 DEF CreateCollect, IInv, StoreInv
<1>9. LockInv'
  BY <1>1, <1>3, NoClientAssumption DEF IInv, LockInv, TypeOK, ThreadTypes
<1>10. FileInv'
  <2>1. CASE gone = {}
    <3>1. cached' = cached /\ artCache' = artCache /\ lock' = lock
      BY <1>1, <2>1 DEF RemoveJobs
    <3>2. QED BY <1>3, <3>1 DEF CreateCollect, IInv, FileInv
  <2>2. CASE gone # {}
    <3>1. lock' = c /\ cpc'[c] = "saveJobs"
      BY <1>1, <2>2 DEF IInv, TypeOK, ThreadTypes
    <3>2. QED BY <3>1, NoClientAssumption DEF FileInv
  <2>3. QED BY <2>1, <2>2
<1>11. QueuedInv' /\ RunningInv'
  BY <1>2, <1>3
     DEF CreateCollect, IInv, QueuedInv, QueuedTracked, RunningInv, RunningTracked,
                    InQueue, Submitting
<1>12. QED BY <1>4, <1>5, <1>6, <1>7, <1>8, <1>9, <1>10, <1>11 DEF IInv

\* The two saves at the end of cleanup_jobs, under the lock.
LEMMA CreateSaveStep ==
    ASSUME IInv, NEW c \in Clients, CreateSaveJobs(c) \/ CreateSaveArtifacts(c)
    PROVE  IInv'
<1>1. /\ cpc[c] \in {"saveJobs", "saveArts"} /\ cpc'[c] \in {"saveArts", "prune"}
      /\ lock = c /\ lock # NoClient /\ cjob' = cjob
      /\ \A d \in Clients \ {c} :
            cpc'[d] = cpc[d] /\ cpc[d] \notin {"saveJobs", "saveArts"}
  BY NoClientAssumption DEF CreateSaveJobs, CreateSaveArtifacts, IInv, LockInv, TypeOK,
                            ThreadTypes
<1>2. TypeOK' /\ FileInv' /\ IdInv' /\ LockInv'
  <2>1. CASE CreateSaveJobs(c)
    <3>1. StoreTypes' /\ \A j \in cached' : status'[j] # "none"
      BY <2>1 DEF CreateSaveJobs, IInv, IdInv, TypeOK, StoreTypes
    <3>2. SaveJobs /\ cpc'[c] = "saveArts" /\ cpc[c] = "saveJobs" /\ UNCHANGED lock
      BY <2>1 DEF CreateSaveJobs, IInv, TypeOK, ThreadTypes
    <3>3. TypeOK'
      BY <2>1, <3>1, <3>2, SavedFiles DEF CreateSaveJobs, IInv, TypeOK, FileTypes,
                                          ThreadTypes, ClientLabels
    <3>4. IdInv'
      BY <2>1, <3>1, <3>2, SavedFiles DEF CreateSaveJobs, IInv, IdInv, StoreTypes
    <3>5. FileInv'
      BY <1>1, <3>1, <3>2, SavedFiles DEF FileInv, StoreTypes
    <3>6. LockInv'
      BY <1>1, <3>2 DEF IInv, LockInv
    <3>7. QED BY <3>3, <3>4, <3>5, <3>6
  <2>2. CASE CreateSaveArtifacts(c)
    <3>1. cpc'[c] = "prune" /\ cpc[c] = "saveArts" /\ lock' = NoClient
      BY <2>2 DEF CreateSaveArtifacts, IInv, TypeOK, ThreadTypes
    <3>2. TypeOK'
      BY <2>2 DEF CreateSaveArtifacts, IInv, TypeOK, StoreTypes, FileTypes, ThreadTypes,
                  ClientLabels
    <3>3. IdInv'
      BY <2>2 DEF CreateSaveArtifacts, IInv, IdInv
    <3>4. FileInv'
      BY <1>1, <2>2, <3>1 DEF CreateSaveArtifacts, IInv, FileInv
    <3>5. LockInv'
      BY <1>1, <3>1, NoClientAssumption DEF LockInv
    <3>6. QED BY <3>2, <3>3, <3>4, <3>5
  <2>3. QED BY <2>1, <2>2
<1>3. UNCHANGED <<status, cached, queue, rjob, rpc, up>>
  BY DEF CreateSaveJobs, CreateSaveArtifacts
<1>4. ClientInv'
  <2>1. \A d \in Clients : cpc[d] \in {"add", "submit"} => ~ InQueue(cjob[d])'
    BY <1>1, <1>3 DEF IInv, ClientInv, InQueue
  <2>2. QED BY <1>1, <1>3, <2>1 DEF IInv, ClientInv
<1>5. QueueInv' /\ RunnerInv' /\ RunningInv'
  BY <1>3 DEF IInv, QueueInv, RunnerInv, RunningInv, RunningTracked
<1>6. StoreInv'
  BY <1>1, <1>3, BusyClient DEF IInv, StoreInv
<1>7. QueuedInv'
  BY <1>1, <1>3 DEF IInv, QueuedInv, QueuedTracked, InQueue, Submitting
<1>8. QED BY <1>2, <1>4, <1>5, <1>6, <1>7 DEF IInv

-----------------------------------------------------------------------------
(* The process *)

\* A crash or a restart leaves only the two files, and they hold only jobs
\* that were given out.
LEMMA StopStep == ASSUME IInv, Stop PROVE IInv'
<1>1. /\ cached' = {j \in Jobs : diskStatus[j] # "none"}
      /\ status' = diskStatus /\ artIds' = diskArtIds /\ artCache' = diskArts
      /\ lock' = NoClient /\ queue' = << >> /\ rpc' = "idle" /\ rjob' = NoJob
      /\ up' = FALSE /\ \A c \in Clients : cpc'[c] = "idle"
      /\ UNCHANGED <<next, diskStatus, diskArts>>
  BY DEF Stop, RunReturn
<1>2. StoreTypes' /\ FileTypes'
  BY <1>1 DEF Stop, IInv, TypeOK, StoreTypes, FileTypes
<1>3. ThreadTypes'
  <2>1. /\ rpc' \in RunLabels /\ rjob' \in Jobs \cup {NoJob}
        /\ report' \in {"none", "written", "registered"} /\ acquired' \in BOOLEAN
        /\ up' \in BOOLEAN /\ restarting' \in BOOLEAN
    BY <1>1 DEF Stop, RunReturn, RunLabels
  <2>2. cpc' \in [Clients -> ClientLabels]
    BY DEF Stop, ClientLabels
  <2>3. cjob' \in [Clients -> Jobs \cup {NoJob}]
    BY DEF Stop
  <2>4. creq' \in [Clients -> Requests \cup {NoRequest}]
    BY DEF Stop
  <2>5. queue' \in Seq(Jobs)
    BY <1>1
  <2>6. QED BY <2>1, <2>2, <2>3, <2>4, <2>5 DEF ThreadTypes
<1>4. IdInv'
  BY <1>1 DEF IInv, IdInv
<1>5. ClientInv' /\ QueueInv' /\ StoreInv' /\ QueuedInv' /\ RunningInv'
  BY <1>1 DEF ClientInv, QueueInv, StoreInv, QueuedInv, RunningInv, IInv, TypeOK,
         FileTypes
<1>6. RunnerInv'
  BY <1>1 DEF RunnerInv, Working, Ending
<1>7. LockInv'
  BY <1>1, NoClientAssumption DEF LockInv
<1>8. FileInv'
  BY <1>1 DEF FileInv
<1>9. QED BY <1>2, <1>3, <1>4, <1>5, <1>6, <1>7, <1>8 DEF IInv, TypeOK

\* The startup reconciliation fails one persisted active job after another.
LEMMA ReconcileStep == ASSUME IInv, Reconcile PROVE IInv'
<1>1. PICK j \in Jobs :
        /\ j \in cached /\ status' = [status EXCEPT ![j] = "failed"]
        /\ logs' = logs \cup {j}
        /\ UpdateJob(j)
  BY DEF Reconcile, Newest, ActiveJobs, IInv, TypeOK, StoreTypes
<1>2. /\ ~ up /\ cached' = cached /\ SaveJobs /\ LockFree
      /\ UNCHANGED <<next, queue, rpc, rjob, cpc, cjob, up, lock, artCache, diskArts>>
  BY <1>1 DEF Reconcile, UpdateJob
<1>3. /\ status'[j] = "failed" /\ \A k \in Jobs : k # j => status'[k] = status[k]
  BY <1>1 DEF IInv, TypeOK, StoreTypes
<1>4. StoreTypes' /\ \A k \in cached' : status'[k] # "none"
  BY <1>1, <1>2, <1>3 DEF Reconcile, IInv, IdInv, TypeOK, StoreTypes
<1>5. TypeOK'
  BY <1>1, <1>2, <1>4, SavedFiles DEF Reconcile, IInv, TypeOK, FileTypes, ThreadTypes
<1>6. IdInv'
  BY <1>1, <1>2, <1>3, <1>4, SavedFiles DEF IInv, IdInv, StoreTypes
<1>7. FileInv'
  BY <1>2, <1>4, SavedFiles DEF IInv, FileInv, StoreTypes
<1>8. \A c \in Clients : cpc'[c] = "idle"
  BY <1>2 DEF IInv, StoreInv
<1>9. queue' = << >> /\ rpc' = "idle" /\ rjob' = NoJob
  BY <1>2 DEF IInv, StoreInv, RunnerInv
<1>10. ClientInv' /\ QueueInv' /\ QueuedInv' /\ RunningInv'
  BY <1>2, <1>8, <1>9 DEF ClientInv, QueueInv, QueuedInv, RunningInv
<1>11. RunnerInv'
  BY <1>9 DEF RunnerInv, Working, Ending
<1>12. StoreInv'
  BY <1>2, <1>3, <1>8, <1>9 DEF IInv, StoreInv
<1>13. LockInv'
  BY <1>2 DEF IInv, LockInv
<1>14. QED BY <1>5, <1>6, <1>7, <1>10, <1>11, <1>12, <1>13 DEF IInv

\* init_service returns when no job is active.
LEMMA ServeStep == ASSUME IInv, Serve PROVE IInv'
<1>1. TypeOK'
  BY DEF Serve, IInv, TypeOK, StoreTypes, FileTypes, ThreadTypes
<1>2. QueuedInv' /\ RunningInv'
  BY DEF Serve, ActiveJobs, IInv, QueuedInv, QueuedTracked, RunningInv, RunningTracked
<1>3. IdInv' /\ QueueInv' /\ RunnerInv' /\ LockInv' /\ FileInv'
  BY DEF Serve, IInv, IdInv, QueueInv, RunnerInv, LockInv, FileInv
<1>4. ClientInv' /\ StoreInv'
  BY DEF Serve, IInv, ClientInv, StoreInv, InQueue
<1>5. QED BY <1>1, <1>2, <1>3, <1>4 DEF IInv

-----------------------------------------------------------------------------
(* The inductive invariant *)

\* The service starts with empty caches and files.
LEMMA InitIInv == ASSUME Init PROVE IInv
<1>1. StoreTypes /\ FileTypes
  BY BoundAssumption DEF Init, StoreTypes, FileTypes
<1>2. ThreadTypes
  <2>1. /\ rpc \in RunLabels /\ rjob \in Jobs \cup {NoJob}
        /\ report \in {"none", "written", "registered"} /\ acquired \in BOOLEAN
        /\ up \in BOOLEAN /\ restarting \in BOOLEAN
    BY DEF Init, RunLabels
  <2>2. cpc \in [Clients -> ClientLabels]
    BY DEF Init, ClientLabels
  <2>3. /\ cjob \in [Clients -> Jobs \cup {NoJob}]
        /\ creq \in [Clients -> Requests \cup {NoRequest}]
    BY DEF Init
  <2>4. queue \in Seq(Jobs)
    BY DEF Init
  <2>5. QED BY <2>1, <2>2, <2>3, <2>4 DEF ThreadTypes
<1>3. IdInv /\ ClientInv /\ QueueInv /\ StoreInv /\ QueuedInv /\ RunningInv
  BY DEF Init, IdInv, ClientInv, QueueInv, StoreInv, QueuedInv, RunningInv
<1>4. RunnerInv
  BY DEF Init, RunnerInv, Working, Ending
<1>5. LockInv /\ FileInv
  BY NoClientAssumption DEF Init, LockInv, FileInv
<1>6. QED BY <1>1, <1>2, <1>3, <1>4, <1>5 DEF IInv, TypeOK

\* Every step of the worker thread.
LEMMA RunnerStep == ASSUME IInv, Runner PROVE IInv'
BY RunStartStep, RunSkipStep, RunMarkRunningStep, RunQuietStep, RunSaveRunningStep,
   RunRegisteredStep, RunExceptRegisteredStep, RunAcquireStep, RunScanStep, RunEndStep,
   RunLeaveStep, RunLogStep
   DEF Runner

\* Every step of a handler that has begun.
LEMMA HandlerStep == ASSUME IInv, NEW c \in Clients, Handler(c) PROVE IInv'
BY CreateSaveStep, CreateQuietStep, CreateNewStep, CreateAddStep, CreateSubmitStep,
   CancelWriteStep, CancelSaveStep
   DEF Handler

\* Nothing changes.
LEMMA StutterStep == ASSUME IInv, UNCHANGED vars PROVE IInv'
<1>1. TypeOK'
  BY DEF IInv, TypeOK, StoreTypes, FileTypes, ThreadTypes
<1>2. IdInv' /\ QueueInv' /\ RunnerInv' /\ LockInv' /\ FileInv' /\ StoreInv'
  BY DEF IInv, IdInv, QueueInv, RunnerInv, LockInv, FileInv, StoreInv
<1>3. ClientInv' /\ QueuedInv' /\ RunningInv'
  BY DEF IInv, ClientInv, QueuedInv, QueuedTracked, RunningInv, RunningTracked, InQueue,
         Submitting
<1>4. QED BY <1>1, <1>2, <1>3 DEF IInv

\* Every step of the service preserves the invariant.
LEMMA NextIInv == ASSUME IInv, [Next]_vars PROVE IInv'
BY RunnerStep, HandlerStep, CreateCollectStep, CancelReadStep, RestartRequestStep,
   StopStep,
   ReconcileStep, ServeStep, StutterStep
   DEF Next, Crash, Restart

\* The inductive invariant of the job subsystem (jobstore.py, runner.py,
\* job_router.py, app.py).
THEOREM Inductive == Spec => []IInv
<1>1. Init => IInv
  BY InitIInv
<1>2. IInv /\ [Next]_vars => IInv'
  BY NextIInv
<1>3. QED BY <1>1, <1>2, PTL DEF Spec

\* Every variable keeps its type, so every job id that a thread, the executor
\* or a state file holds is one that Job.create has given out a place for.
THEOREM TypeCorrect == Spec => []TypeOK
<1>1. IInv => TypeOK
  BY DEF IInv
<1>2. QED BY <1>1, Inductive, PTL

\* Whatever creates, cancels, submits, crashes and restarts interleave, a job
\* that the store calls queued or running is on its way through the executor
\* (submit_job and _run_job, runner.py).
THEOREM NoJobIsForgotten == Spec => []NoJobForgotten
<1>1. IInv => NoJobForgotten
  BY DEF IInv, QueuedInv, RunningInv, NoJobForgotten
<1>2. QED BY <1>1, Inductive, PTL

\* submit_job gives the executor a job once, and nobody ends it while it waits.
THEOREM NoJobIsRunTwice == Spec => []NoJobRunsTwice
<1>1. IInv => NoJobRunsTwice
  BY DEF IInv, QueueInv, NoJobRunsTwice
<1>2. QED BY <1>1, Inductive, PTL

\* cleanup_jobs never takes the job the worker is in out of the store, so that
\* _run_job may read it again (runner.py:861).
THEOREM WorkedJobStaysStored == Spec => []WorkedJobIsStored
<1>1. IInv => WorkedJobIsStored
  BY DEF IInv, RunnerInv, WorkedJobIsStored
<1>2. QED BY <1>1, Inductive, PTL

\* jobs.json and artifacts.json agree with the caches whenever nobody is
\* inside a save (_save_jobs, _save_artifacts).
THEOREM StateFilesAreCurrent == Spec => []StateFilesCurrent
<1>1. IInv => StateFilesCurrent
  BY DEF IInv, FileInv, Saving, StateFilesCurrent
<1>2. QED BY <1>1, Inductive, PTL
=============================================================================
