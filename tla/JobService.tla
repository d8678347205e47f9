------------------------------- MODULE JobService -------------------------------
(***************************************************************************)
(* The job subsystem of the RepoGround service (merger/repoground/service):*)
(* the endpoints that create and cancel jobs (job_router.py), the job store*)
(* with its caches and its two state files (jobstore.py), the one-worker   *)
(* runner (runner.py) and the startup reconciliation (app.py).             *)
(*                                                                         *)
(* get_job returns the store's own Job object, so every thread reads and   *)
(* writes the status of a job without a lock; only the dictionaries and    *)
(* the files are under JobStore._lock.  A step below is what one thread    *)
(* does between two points where another thread can act.                   *)
(***************************************************************************)
EXTENDS Naturals, Sequences, FiniteSets

CONSTANTS
    Clients,      \* HTTP worker threads that run the synchronous endpoints
    NoClient,     \* "the store lock is free"
    Requests,     \* requests up to content_hash: equal requests, equal hash
    NoRequest,
    SourceMode,   \* [Requests -> effective source mode]
    PlanOnly,     \* requests with plan_only
    CustomDir,    \* requests whose merges_dir is not the hub's default
    Forces,       \* values of force_new that clients send
    MaxJobs,      \* bound: jobs ever created
    GcMaxJobs,    \* REPOGROUND_GC_MAX_JOBS
    CanCrash,     \* whether the process may die at any point
    CanFail,      \* whether registering a report may fail
    CanRestart    \* whether POST /api/admin/restart is enabled

Modes == {"local_current", "local_ff", "remote_snapshot"}

ASSUME NoClientAssumption == NoClient \notin Clients
ASSUME RequestAssumption ==
    /\ NoRequest \notin Requests
    /\ SourceMode \in [Requests -> Modes]
    /\ PlanOnly \subseteq Requests
    /\ CustomDir \subseteq Requests
    /\ \A r \in PlanOnly : SourceMode[r] # "local_ff"
ASSUME BoundAssumption ==
    /\ MaxJobs \in Nat
    /\ GcMaxJobs \in Nat
    /\ Forces \subseteq BOOLEAN
    /\ CanCrash \in BOOLEAN
    /\ CanFail \in BOOLEAN
    /\ CanRestart \in BOOLEAN

Jobs     == 1 .. MaxJobs     \* ids in the order of created_at
NoJob    == 0
Active   == {"queued", "running", "canceling"}
Terminal == {"succeeded", "failed", "canceled"}
Stopping == {"canceled", "canceling"}
Status   == Active \cup Terminal
Kinds    == {"report", "bundle"}     \* the artifacts a job can register

VARIABLES
    next,        \* how many jobs Job.create has made
    reqOf,       \* the request of every job
    status,      \* Job.status, the live object shared by all threads
    artIds,      \* Job.artifact_ids, by kind
    cached,      \* keys of JobStore._jobs_cache
    artCache,    \* keys of JobStore._artifacts_cache
    diskStatus,  \* jobs.json: status by job, "none" when it is not listed
    diskArtIds,  \* jobs.json: artifact_ids
    diskArts,    \* artifacts.json
    files,       \* report and bundle files in the merges directories
    logs,        \* jobs whose log file exists
    snaps,       \* jobs with a source snapshot in their merges directory
    lock,        \* holder of JobStore._lock, over more than one step
    queue,       \* the executor's FIFO of submitted jobs
    rpc, rjob,   \* the worker thread: where it is, in which job
    report,      \* its *_report_path / *_artifact_registered locals
    acquired,    \* its source acquisition had no failure
    cpc,         \* where each client thread is
    cjob, creq,  \* its local job id and request
    up,          \* init_service has finished
    restarting,  \* a restart of the unit is scheduled
    gced         \* history: jobs cleanup_jobs has removed

jobVars    == <<next, reqOf, gced>>
memVars    == <<status, artIds, cached, artCache>>
diskVars   == <<diskStatus, diskArtIds, diskArts, files, logs, snaps>>
runVars    == <<queue, rpc, rjob, report, acquired>>
clientVars == <<cpc, cjob, creq>>
procVars   == <<up, restarting>>
vars == <<jobVars, memVars, diskVars, lock, runVars, clientVars, procVars>>

-----------------------------------------------------------------------------
(* The store *)

Artifacts  == Jobs \X Kinds
LockFree   == lock = NoClient

\* Mutant: a job being cancelled does not count as active.
ActiveNotCanceling == {j \in cached : status[j] \in {"queued", "running"}}
ActiveJobs == {j \in cached : status[j] \in Active}
Dir(j)     == IF reqOf[j] \in CustomDir THEN "custom" ELSE "default"

\* _save_jobs: the whole cache, through a temporary file and a rename.
SaveJobs ==
    /\ diskStatus' = [j \in Jobs |-> IF j \in cached' THEN status'[j] ELSE "none"]
    /\ diskArtIds' = [j \in Jobs |-> IF j \in cached' THEN artIds'[j] ELSE {}]

\* Mutant: only the cache is updated.
UpdateJobUnsaved(j) ==
    LockFree /\ cached' = cached \cup {j} /\ UNCHANGED <<diskStatus, diskArtIds>>

\* update_job: also puts the job back when it was removed in the meantime.
UpdateJob(j) ==
    /\ LockFree
    /\ cached' = cached \cup {j}
    /\ SaveJobs

\* Mutant: only the state file is updated.
AddArtifactUncached(a) ==
    LockFree /\ diskArts' = diskArts \cup {a} /\ UNCHANGED artCache

\* add_artifact
AddArtifact(a) ==
    /\ LockFree
    /\ artCache' = artCache \cup {a}
    /\ diskArts' = artCache'

\* Mutant: no job's snapshot is protected.
PruneAnySnapshot(dir) ==
    /\ LockFree
    /\ \E removable \in SUBSET {j \in snaps : Dir(j) = dir} : snaps' = snaps \ removable

\* prune_source_snapshots: which unprotected snapshots go depends on their
\* number, age and size; any of them may.
PruneSnapshots(dir) ==
    /\ LockFree
    /\ \E removable \in SUBSET {j \in snaps : Dir(j) = dir /\ j \notin ActiveJobs} :
          snaps' = snaps \ removable

Init ==
    /\ next = 0
    /\ reqOf = [j \in Jobs |-> NoRequest]
    /\ status = [j \in Jobs |-> "none"]
    /\ artIds = [j \in Jobs |-> {}]
    /\ cached = {}
    /\ artCache = {}
    /\ diskStatus = status
    /\ diskArtIds = artIds
    /\ diskArts = {}
    /\ files = {}
    /\ logs = {}
    /\ snaps = {}
    /\ lock = NoClient
    /\ queue = << >>
    /\ rpc = "idle"
    /\ rjob = NoJob
    /\ report = "none"
    /\ acquired = FALSE
    /\ cpc = [c \in Clients |-> "idle"]
    /\ cjob = [c \in Clients |-> NoJob]
    /\ creq = [c \in Clients |-> NoRequest]
    /\ up = TRUE
    /\ restarting = FALSE
    /\ gced = {}

-----------------------------------------------------------------------------
(* POST /api/jobs *)

Goto(c, label) == cpc' = [cpc EXCEPT ![c] = label]
Return(c) ==
    /\ Goto(c, "idle")
    /\ cjob' = [cjob EXCEPT ![c] = NoJob]
    /\ creq' = [creq EXCEPT ![c] = NoRequest]

\* The jobs cleanup_jobs drops when the age limit lies after job `limit`:
\* finished jobs that are too old, then the oldest finished ones for which the
\* active jobs leave no room.
Collectable(limit) ==
    LET finished == {j \in cached \ ActiveJobs : j > limit}
        taken    == Cardinality(ActiveJobs)
        newer(j) == Cardinality({k \in finished : k > j})
    IN  {j \in cached \ ActiveJobs : j <= limit}
          \cup {j \in finished : taken + newer(j) >= GcMaxJobs}

\* Mutant: the artifact records stay.
RemoveJobsOnly(gone) ==
    /\ UNCHANGED <<artCache, files>>
    /\ snaps' = snaps \ gone /\ logs' = logs \ gone
    /\ cached' = cached \ gone /\ gced' = gced \cup gone

\* _remove_job_internal for every job of `gone`: memory and files, no save yet.
\* The snapshot is only looked for under the hub's default merges directory.
RemoveJobs(gone) ==
    LET listed == {a \in artCache : a[1] \in gone /\ a[2] \in artIds[a[1]]}
    IN  /\ artCache' = artCache \ listed
        /\ files' = files \ listed
        /\ snaps' = snaps \ {j \in gone : Dir(j) = "default"}
        /\ logs' = logs \ gone
        /\ cached' = cached \ gone
        /\ gced' = gced \cup gone

\* Requests that may still make a job.
Creating == {c \in Clients :
    cpc[c] \in {"saveJobs", "saveArts", "prune", "find", "decide"}}

\* A request arrives and its handler runs cleanup_jobs, which keeps the lock
\* until both state files are saved.
CreateCollect(c) ==
    /\ up /\ cpc[c] = "idle" /\ LockFree
    /\ next + Cardinality(Creating) < MaxJobs
    /\ \E limit \in 0 .. next :
         LET gone == Collectable(limit)
         IN  /\ RemoveJobs(gone)
             /\ IF gone = {}
                THEN Goto(c, "prune") /\ UNCHANGED lock
                ELSE Goto(c, "saveJobs") /\ lock' = c
    /\ UNCHANGED <<next, reqOf, status, artIds, diskStatus, diskArtIds, diskArts,
                   runVars, cjob, creq, procVars>>

CreateSaveJobs(c) ==
    /\ cpc[c] = "saveJobs"
    /\ UNCHANGED memVars
    /\ SaveJobs
    /\ Goto(c, "saveArts")
    /\ UNCHANGED <<jobVars, diskArts, files, logs, snaps, lock, runVars, cjob, creq,
                   procVars>>

\* Mutant: the lock is not released.
CreateSaveArtifactsLocked(c) ==
    /\ cpc[c] = "saveArts"
    /\ diskArts' = artCache
    /\ Goto(c, "prune")
    /\ UNCHANGED <<jobVars, memVars, diskStatus, diskArtIds, files, logs, snaps, lock,
                   runVars, cjob, creq, procVars>>

CreateSaveArtifacts(c) ==
    /\ cpc[c] = "saveArts"
    /\ diskArts' = artCache
    /\ lock' = NoClient
    /\ Goto(c, "prune")
    /\ UNCHANGED <<jobVars, memVars, diskStatus, diskArtIds, files, logs, snaps,
                   runVars, cjob, creq, procVars>>

\* _cleanup_source_snapshots_after_gc
CreatePrune(c) ==
    /\ cpc[c] = "prune"
    /\ PruneSnapshots("default")
    /\ Goto(c, "find")
    /\ UNCHANGED <<jobVars, memVars, diskStatus, diskArtIds, diskArts, files, logs,
                   lock, runVars, cjob, creq, procVars>>

\* The newest of a set of jobs, as a set with at most one element.
Newest(S) == {j \in S : \A k \in S : k <= j}

\* find_job_by_hash: the newest active job of this hash, else the newest one.
FindJob(r) ==
    LET same   == {j \in cached : reqOf[j] = r}
        active == same \cap ActiveJobs
    IN  IF same = {} THEN {NoJob}
        ELSE IF active # {} THEN Newest(active) ELSE Newest(same)

\* The request only matters from here on; with force_new what is found is
\* ignored.
CreateFind(c) ==
    /\ cpc[c] = "find" /\ LockFree
    /\ \E r \in Requests, force \in Forces :
          \E existing \in IF force THEN {NoJob} ELSE FindJob(r) :
             /\ creq' = [creq EXCEPT ![c] = r]
             /\ cjob' = [cjob EXCEPT ![c] = existing]
    /\ Goto(c, "decide")
    /\ UNCHANGED <<jobVars, memVars, diskVars, lock, runVars, procVars>>

\* The status is read again, outside the lock.  _reuse_succeeded_job refuses
\* the modes whose result depends on a remote.
Reusable(j) ==
    /\ j # NoJob
    /\ \/ status[j] \in Active
       \/ status[j] = "succeeded" /\ SourceMode[reqOf[j]] = "local_current"

CreateReuse(c) ==
    /\ cpc[c] = "decide"
    /\ Reusable(cjob[c])
    /\ Return(c)
    /\ UNCHANGED <<jobVars, memVars, diskVars, lock, runVars, procVars>>

\* Job.create: a new object that nobody else can see yet.
CreateNew(c) ==
    /\ cpc[c] = "decide"
    /\ ~ Reusable(cjob[c])
    /\ next < MaxJobs
    /\ next' = next + 1
    /\ reqOf' = [reqOf EXCEPT ![next'] = creq[c]]
    /\ status' = [status EXCEPT ![next'] = "queued"]
    /\ cjob' = [cjob EXCEPT ![c] = next']
    /\ Goto(c, "add")
    /\ UNCHANGED <<gced, artIds, cached, artCache, diskVars, lock, runVars, creq,
                   procVars>>

\* add_job
CreateAdd(c) ==
    /\ cpc[c] = "add"
    /\ UNCHANGED <<status, artIds, artCache>>
    /\ UpdateJob(cjob[c])
    /\ Goto(c, "submit")
    /\ UNCHANGED <<jobVars, diskArts, files, logs, snaps, lock, runVars, cjob, creq,
                   procVars>>

\* Mutants: the executor never gets the job; it gets the job twice.
SubmittedNever(j) == queue
SubmittedTwice(j) == queue \o <<j, j>>

\* submit_job: a job that is no longer queued is not handed to the executor.
Submitted(j) ==
    IF j \in cached /\ status[j] = "queued" THEN Append(queue, j) ELSE queue

CreateSubmit(c) ==
    /\ cpc[c] = "submit" /\ LockFree
    /\ queue' = Submitted(cjob[c])
    /\ Return(c)
    /\ UNCHANGED <<jobVars, memVars, diskVars, lock, rpc, rjob, report, acquired, procVars>>

-----------------------------------------------------------------------------
(* POST /api/jobs/{job_id}/cancel: the check, the write and the save are
   three steps. *)

CancelRead(c) ==
    /\ up /\ cpc[c] = "idle" /\ LockFree
    /\ \E j \in cached :
          /\ status[j] \in {"queued", "running"}
          /\ cjob' = [cjob EXCEPT ![c] = j]
    /\ Goto(c, "cancel")
    /\ UNCHANGED <<jobVars, memVars, diskVars, lock, runVars, creq, procVars>>

CancelWrite(c) ==
    /\ cpc[c] = "cancel"
    /\ status' = [status EXCEPT ![cjob[c]] = "canceling"]
    /\ Goto(c, "cancelSave")
    /\ UNCHANGED <<jobVars, artIds, cached, artCache, diskVars, lock, runVars, cjob,
                   creq, procVars>>

CancelSave(c) ==
    /\ cpc[c] = "cancelSave"
    /\ UNCHANGED <<status, artIds, artCache>>
    /\ UpdateJob(cjob[c])
    /\ Return(c)
    /\ UNCHANGED <<jobVars, diskArts, files, logs, snaps, lock, runVars, procVars>>

\* POST /api/admin/restart: refused while a job of the store is active.
RestartRequest(c) ==
    /\ CanRestart
    /\ up /\ cpc[c] = "idle" /\ LockFree
    /\ ActiveJobs = {}
    /\ restarting' = TRUE
    /\ UNCHANGED <<jobVars, memVars, diskVars, lock, runVars, clientVars, up>>

-----------------------------------------------------------------------------
(* The worker thread: _run_job *)

At(label)      == rpc = label
RunGoto(label) == rpc' = label /\ UNCHANGED <<rjob, acquired>>
RunReturn      ==
    rpc' = "idle" /\ rjob' = NoJob /\ report' = "none" /\ acquired' = FALSE
RunUnchanged   == UNCHANGED <<jobVars, lock, queue, clientVars, procVars>>
\* Mutants: two spellings of one status; a failure that sets no status.
SetStatusSpelled(s) ==
    status' = [status EXCEPT ![rjob] = IF s = "canceled" THEN "cancelled" ELSE s]
SetStatusNotFailed(s) ==
    status' = [status EXCEPT ![rjob] = IF s = "failed" THEN @ ELSE s]
SetStatus(s)   == status' = [status EXCEPT ![rjob] = s]
WriteLog       == logs' = logs \cup {rjob}
NeedsReport    == SourceMode[reqOf[rjob]] # "local_current"
Snapshots      == SourceMode[reqOf[rjob]] = "remote_snapshot"
                  /\ reqOf[rjob] \notin PlanOnly

\* update_job for collected warnings, or no warning and no save.
SaveWarnings ==
    \/ UpdateJob(rjob)
    \/ UNCHANGED <<cached, diskStatus, diskArtIds>>

\* The executor hands over the next job; it has been cancelled, or it starts,
\* or it is gone.
RunStart ==
    /\ At("idle") /\ queue # << >> /\ LockFree
    /\ queue' = Tail(queue)
    /\ IF Head(queue) \notin cached
       THEN UNCHANGED <<rpc, rjob>>
       ELSE /\ rjob' = Head(queue)
            /\ rpc' = IF status[Head(queue)] \in Stopping
                      THEN "skip" ELSE "start"
    /\ UNCHANGED <<jobVars, memVars, diskVars, lock, report, acquired, clientVars,
                   procVars>>

RunSkip ==
    /\ At("skip")
    /\ SetStatus("canceled")
    /\ RunGoto("saveSkip")
    /\ UNCHANGED <<artIds, cached, artCache, diskVars, report>>
    /\ RunUnchanged

RunSaveSkip ==
    /\ At("saveSkip")
    /\ UNCHANGED <<status, artIds, artCache>>
    /\ UpdateJob(rjob)
    /\ RunReturn
    /\ UNCHANGED <<diskArts, files, logs, snaps>>
    /\ RunUnchanged

\* The status that was checked in RunStart may have become "canceling".
RunMarkRunning ==
    /\ At("start")
    /\ SetStatus("running")
    /\ RunGoto("saveRunning")
    /\ UNCHANGED <<artIds, cached, artCache, diskVars, report>>
    /\ RunUnchanged

RunSaveRunning ==
    /\ At("saveRunning")
    /\ UNCHANGED <<status, artIds, artCache>>
    /\ UpdateJob(rjob)
    /\ RunGoto("resolve")
    /\ UNCHANGED <<diskArts, files, logs, snaps, report>>
    /\ RunUnchanged

\* Hub, repositories, merges directory and source mode.
RunResolve ==
    /\ At("resolve")
    /\ LockFree
    /\ WriteLog
    /\ RunGoto(IF NeedsReport THEN "acquire" ELSE "scan")
    /\ UNCHANGED <<memVars, diskStatus, diskArtIds, diskArts, files, snaps, report>>
    /\ RunUnchanged

\* materialize_remote_snapshot for every source, or the pre-pull plan and
\* apply of local_ff.  Without a failure every source has its snapshot; with
\* one, some may.
RunAcquire ==
    /\ At("acquire")
    /\ UNCHANGED <<status, artIds, artCache>>
    /\ SaveWarnings
    /\ acquired' \in BOOLEAN
    /\ \/ snaps' = IF Snapshots THEN snaps \cup {rjob} ELSE snaps
       \/ ~ acquired' /\ UNCHANGED snaps
    /\ rpc' = "writeReport"
    /\ UNCHANGED <<rjob, diskArts, files, logs, report>>
    /\ RunUnchanged

\* Mutant: the report is left for the bundle to list.
RunWriteReportOnly ==
    /\ At("writeReport")
    /\ files' = files \cup {<<rjob, "report">>}
    /\ report' = "written"
    /\ RunGoto("scan")
    /\ UNCHANGED <<memVars, diskStatus, diskArtIds, diskArts, logs, snaps>>
    /\ RunUnchanged

RunWriteReport ==
    /\ At("writeReport")
    /\ files' = files \cup {<<rjob, "report">>}
    /\ report' = "written"
    /\ RunGoto("register")
    /\ UNCHANGED <<memVars, diskStatus, diskArtIds, diskArts, logs, snaps>>
    /\ RunUnchanged

\* What follows the early registration of the report: failures raise, a
\* plan-only run is already done.
AfterRegister ==
    RunGoto(CASE ~ acquired                 -> "except"
              [] reqOf[rjob] \in PlanOnly   -> "planned"
              [] OTHER                      -> "scan")

\* _register_*_report_artifact_once: a failure is logged and swallowed.
RunRegister ==
    /\ At("register")
    /\ AddArtifact(<<rjob, "report">>)
    /\ RunGoto("registered")
    /\ UNCHANGED <<status, artIds, cached, diskStatus, diskArtIds, files, logs, snaps,
                   report>>
    /\ RunUnchanged

RunRegisterFails ==
    /\ At("register")
    /\ CanFail
    /\ AfterRegister
    /\ UNCHANGED <<memVars, diskVars, report>>
    /\ RunUnchanged

RunRegistered ==
    /\ At("registered")
    /\ artIds' = [artIds EXCEPT ![rjob] = @ \cup {"report"}]
    /\ report' = "registered"
    /\ UNCHANGED <<status, artCache>>
    /\ UpdateJob(rjob)
    /\ AfterRegister
    /\ UNCHANGED <<diskArts, files, logs, snaps>>
    /\ RunUnchanged

\* remote_snapshot with plan_only ends before the scan.
RunPlanned ==
    /\ At("planned")
    /\ SetStatus("succeeded")
    /\ RunGoto("log")
    /\ UNCHANGED <<artIds, cached, artCache, diskVars, report>>
    /\ RunUnchanged

\* The cancel check before each source and before the write.
RunCanceled ==
    /\ At("scan") \/ At("write")
    /\ LockFree
    /\ rjob \in cached /\ status[rjob] \in Stopping
    /\ SetStatus("canceled")
    /\ WriteLog
    /\ RunGoto("save")
    /\ UNCHANGED <<artIds, cached, artCache, diskStatus, diskArtIds, diskArts, files,
                   snaps, report>>
    /\ RunUnchanged

\* Scanning the sources; the last of them leads to the write.
RunScan ==
    /\ At("scan")
    /\ rjob \in cached => status[rjob] \notin Stopping
    /\ UNCHANGED <<status, artIds, artCache>>
    /\ SaveWarnings
    /\ RunGoto("write")
    /\ UNCHANGED <<diskArts, files, logs, snaps, report>>
    /\ RunUnchanged

\* write_reports_v2 has no effect that a failure would leave registered.
RunWrite ==
    /\ At("write")
    /\ LockFree
    /\ rjob \in cached /\ status[rjob] \notin Stopping
    /\ files' = files \cup {<<rjob, "bundle">>}
    /\ RunGoto("addBundle")
    /\ UNCHANGED <<memVars, diskStatus, diskArtIds, diskArts, logs, snaps, report>>
    /\ RunUnchanged

RunAddBundle ==
    /\ At("addBundle")
    /\ AddArtifact(<<rjob, "bundle">>)
    /\ RunGoto("succeed")
    /\ UNCHANGED <<status, artIds, cached, diskStatus, diskArtIds, files, logs, snaps,
                   report>>
    /\ RunUnchanged

\* The bundle lists a report that is not registered yet.
RunSucceed ==
    /\ At("succeed")
    /\ artIds' = [artIds EXCEPT ![rjob] = @ \cup {"bundle"}]
    /\ report' = IF report = "written" THEN "registered" ELSE report
    /\ SetStatus("succeeded")
    /\ RunGoto("log")
    /\ UNCHANGED <<cached, artCache, diskVars>>
    /\ RunUnchanged

\* Any statement of the try block may raise.
RunRaise ==
    /\ rpc \in {"resolve", "acquire", "writeReport", "scan", "write", "addBundle"}
    /\ RunGoto("except")
    /\ UNCHANGED <<memVars, diskVars, report>>
    /\ RunUnchanged

\* The handler tries once more to register a report that is written only.
RunExcept ==
    /\ At("except")
    /\ IF report = "written" THEN AddArtifact(<<rjob, "report">>)
                             ELSE UNCHANGED <<artCache, diskArts>>
    /\ RunGoto(IF report = "written" THEN "exceptRegistered" ELSE "fail")
    /\ UNCHANGED <<status, artIds, cached, diskStatus, diskArtIds, files, logs, snaps,
                   report>>
    /\ RunUnchanged

RunExceptRegisterFails ==
    /\ At("except") /\ report = "written"
    /\ CanFail
    /\ RunGoto("fail")
    /\ UNCHANGED <<memVars, diskVars, report>>
    /\ RunUnchanged

RunExceptRegistered ==
    /\ At("exceptRegistered")
    /\ artIds' = [artIds EXCEPT ![rjob] = @ \cup {"report"}]
    /\ report' = "registered"
    /\ UNCHANGED <<status, artCache>>
    /\ UpdateJob(rjob)
    /\ RunGoto("fail")
    /\ UNCHANGED <<diskArts, files, logs, snaps>>
    /\ RunUnchanged

RunFail ==
    /\ At("fail")
    /\ SetStatus("failed")
    /\ RunGoto("log")
    /\ UNCHANGED <<artIds, cached, artCache, diskVars, report>>
    /\ RunUnchanged

\* log(): creates the file when it is not there.
RunLog ==
    /\ At("log")
    /\ LockFree
    /\ WriteLog
    /\ RunGoto("save")
    /\ UNCHANGED <<memVars, diskStatus, diskArtIds, diskArts, files, snaps, report>>
    /\ RunUnchanged

RunSave ==
    /\ At("save")
    /\ UNCHANGED <<status, artIds, artCache>>
    /\ UpdateJob(rjob)
    /\ RunGoto("finally")
    /\ UNCHANGED <<diskArts, files, logs, snaps, report>>
    /\ RunUnchanged

RunFinally ==
    /\ At("finally")
    /\ PruneSnapshots(Dir(rjob))
    /\ RunReturn
    /\ UNCHANGED <<memVars, diskStatus, diskArtIds, diskArts, files, logs>>
    /\ RunUnchanged

Runner ==
    \/ RunStart \/ RunSkip \/ RunSaveSkip \/ RunMarkRunning \/ RunSaveRunning
    \/ RunResolve \/ RunAcquire \/ RunWriteReport \/ RunRegister
    \/ RunRegisterFails \/ RunRegistered \/ RunPlanned \/ RunCanceled \/ RunScan
    \/ RunWrite \/ RunAddBundle \/ RunSucceed \/ RunRaise \/ RunExcept
    \/ RunExceptRegisterFails \/ RunExceptRegistered \/ RunFail \/ RunLog \/ RunSave
    \/ RunFinally

-----------------------------------------------------------------------------
(* The process *)

\* Whatever stops the process loses its memory; JobStore._load reads the two
\* state files of the last completed renames.
Stop ==
    /\ cached' = {j \in Jobs : diskStatus[j] # "none"}
    /\ status' = diskStatus
    /\ artIds' = diskArtIds
    /\ artCache' = diskArts
    /\ lock' = NoClient
    /\ queue' = << >>
    /\ RunReturn
    /\ cpc' = [c \in Clients |-> "idle"]
    /\ cjob' = [c \in Clients |-> NoJob]
    /\ creq' = [c \in Clients |-> NoRequest]
    /\ up' = FALSE
    /\ restarting' = FALSE
    /\ UNCHANGED <<jobVars, diskVars>>

Crash == CanCrash /\ Stop

\* The transient unit of _schedule_service_restart fires.
Restart == restarting /\ Stop

\* _mark_persisted_active_jobs_terminal, one job after another, newest first,
\* before anything is served.
Reconcile ==
    /\ ~ up
    /\ \E j \in Newest(ActiveJobs) :
          /\ status' = [status EXCEPT ![j] = "failed"]
          /\ logs' = logs \cup {j}
          /\ UNCHANGED <<artIds, artCache>>
          /\ UpdateJob(j)
    /\ UNCHANGED <<jobVars, diskArts, files, snaps, lock, runVars, clientVars, procVars>>

Serve ==
    /\ ~ up /\ ActiveJobs = {}
    /\ up' = TRUE
    /\ UNCHANGED <<jobVars, memVars, diskVars, lock, runVars, clientVars, restarting>>

\* What a client thread does once it has begun.
Handler(c) ==
    \/ CreateSaveJobs(c) \/ CreateSaveArtifacts(c) \/ CreatePrune(c) \/ CreateFind(c)
    \/ CreateReuse(c) \/ CreateNew(c) \/ CreateAdd(c) \/ CreateSubmit(c)
    \/ CancelWrite(c) \/ CancelSave(c)

Next ==
    \/ \E c \in Clients :
          \/ CreateCollect(c) \/ CancelRead(c) \/ RestartRequest(c)
          \/ Handler(c)
    \/ Runner
    \/ Crash \/ Restart \/ Reconcile \/ Serve

Spec == Init /\ [][Next]_vars

\* A handler that has begun and the worker thread are scheduled until they
\* return; clients are free to send nothing.
Fairness ==
    /\ \A c \in Clients : WF_vars(Handler(c))
    /\ WF_vars(Runner)
    /\ WF_vars(Reconcile \/ Serve)

FairSpec == Spec /\ Fairness

-----------------------------------------------------------------------------
(* Properties *)

RunLabels ==
    {"idle", "skip", "saveSkip", "start", "saveRunning", "resolve", "acquire",
     "writeReport", "register", "registered", "planned", "scan", "write", "addBundle",
     "succeed", "except", "exceptRegistered", "fail", "log", "save", "finally"}
ClientLabels ==
    {"idle", "saveJobs", "saveArts", "prune", "find", "decide", "add", "submit",
     "cancel", "cancelSave"}

StoreTypes ==
    /\ next \in 0 .. MaxJobs
    /\ reqOf \in [Jobs -> Requests \cup {NoRequest}]
    /\ status \in [Jobs -> Status \cup {"none"}]
    /\ artIds \in [Jobs -> SUBSET Kinds]
    /\ cached \subseteq Jobs
    /\ artCache \subseteq Artifacts
    /\ lock \in Clients \cup {NoClient}
    /\ gced \subseteq Jobs

FileTypes ==
    /\ diskStatus \in [Jobs -> Status \cup {"none"}]
    /\ diskArtIds \in [Jobs -> SUBSET Kinds]
    /\ diskArts \subseteq Artifacts
    /\ files \subseteq Artifacts
    /\ logs \subseteq Jobs
    /\ snaps \subseteq Jobs

ThreadTypes ==
    /\ queue \in Seq(Jobs)
    /\ rpc \in RunLabels
    /\ rjob \in Jobs \cup {NoJob}
    /\ report \in {"none", "written", "registered"}
    /\ acquired \in BOOLEAN
    /\ cpc \in [Clients -> ClientLabels]
    /\ cjob \in [Clients -> Jobs \cup {NoJob}]
    /\ creq \in [Clients -> Requests \cup {NoRequest}]
    /\ up \in BOOLEAN
    /\ restarting \in BOOLEAN

\* Every variable of the service has its type: the store (jobstore.py), its
\* files, and the threads that use it.
TypeOK == StoreTypes /\ FileTypes /\ ThreadTypes

InQueue(j)    == \E n \in 1 .. Len(queue) : queue[n] = j
Submitting(j) == \E c \in Clients : cpc[c] = "submit" /\ cjob[c] = j
\* The worker is in job j and has not set its final status yet.
Ending  == {"idle", "saveSkip", "log", "save", "finally"}
Working == RunLabels \ (Ending \cup {"skip", "start", "saveRunning"})

QueuedTracked(j) ==
    status[j] = "queued" =>
        InQueue(j) \/ Submitting(j) \/ (rpc = "start" /\ rjob = j)
RunningTracked(j) == status[j] = "running" => rjob = j /\ rpc \notin Ending

\* A job the store calls queued will reach the worker, and one it calls
\* running is the one in the worker: no interleaving of create, cancel and
\* submit_job leaves a job behind in one of these two states.
NoJobForgotten ==
    up => \A j \in cached : QueuedTracked(j) /\ RunningTracked(j)

\* No job is handed to the executor twice, and none that has ended waits there.
NoJobRunsTwice ==
    /\ \A m, n \in 1 .. Len(queue) : queue[m] = queue[n] => m = n
    /\ \A n \in 1 .. Len(queue) :
          /\ queue[n] # rjob
          /\ status[queue[n]] \in {"queued", "canceling"}

\* While the worker is in a job, garbage collection leaves the job in the
\* store, and nothing but the worker ends it: the get_job before the write
\* (runner.py:861) cannot return None.
WorkedJobIsStored ==
    rpc \in Working =>
        rjob \in cached /\ status[rjob] \in {"running", "canceling"}

\* With no save under way the two state files agree with the caches: each
\* status that differs has a thread that is about to save it.
StateFilesCurrent ==
    LockFree =>
        /\ diskArts = artCache
        /\ \A j \in Jobs : j \in cached <=> diskStatus[j] # "none"
        /\ \A j \in cached :
              \/ diskStatus[j] = status[j]
              \/ rjob = j /\ rpc \in {"saveSkip", "saveRunning", "log", "save"}
              \/ \E c \in Clients : cpc[c] = "cancelSave" /\ cjob[c] = j

\* The snapshot that a job scans is not pruned under it, whoever prunes.
ScannedSnapshotKept ==
    rpc \in {"scan", "write"} /\ Snapshots => rjob \in snaps

\* What a finished job lists exists: the artifact is registered and its file
\* is there, unless garbage collection has removed the job before.
ListedArtifactsExist ==
    LockFree => \A j \in cached \ gced : \A k \in artIds[j] :
        <<j, k>> \in artCache \cap files

\* Early registration (docs/service-api.md:431): a report that was written is
\* still listed when the job has ended, however it ended.
EvidenceKept ==
    \A j \in cached \ gced :
        status[j] \in Terminal /\ <<j, "report">> \in files =>
            artIds[j] # {}

\* An artifact in the store belongs to a job that lists it or will.
NoOrphanArtifact ==
    LockFree => \A a \in artCache :
        \/ a[1] \in cached /\ a[2] \in artIds[a[1]]
        \/ a[1] = rjob /\ rpc \in {"registered", "exceptRegistered", "succeed"}

\* A persisted final status is never followed by another attempt.
NoSecondAttempt ==
    [][\A j \in Jobs : diskStatus[j] \in Terminal =>
            diskStatus'[j] \notin {"queued", "running"}]_vars

\* models.py:241: "'canceling' = user requested cancel, runner hasn't stopped yet".
CancelingIsTracked ==
    up => \A j \in cached : status[j] = "canceling" =>
        InQueue(j) \/ Submitting(j) \/ rjob = j

\* docs/service-api.md:414: an identical active job is always reusable.
ActiveJobsDiffer ==
    \A j, k \in ActiveJobs : reqOf[j] = reqOf[k] => j = k

\* docs/blueprints/rlens-source-acquisition-blueprint.md:170: "deleting a job
\* also removes exactly that job's snapshot root".
DeletedWithSnapshot == [][\A j \in Jobs : j \in gced' \ gced => j \notin snaps']_vars

\* A job that runs ends.
RunningJobEnds == \A j \in Jobs : status[j] = "running" ~> status[j] \in Terminal

\* A queued job does not stay queued.
QueuedJobLeaves == \A j \in Jobs : status[j] = "queued" ~> status[j] # "queued"

\* Every request is answered: in particular, no handler keeps the lock.
HandlersReturn == \A c \in Clients : cpc[c] # "idle" ~> cpc[c] = "idle"
=============================================================================
