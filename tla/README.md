# A TLA+ verification of RepoGround

RepoGround (`src/merger/repoground`) turns code repositories into bundles for
language models: it acquires sources, scans and merges them, writes reports and
bundles, publishes them, and serves queries over them. Most of it is sequential text
processing. Its logic of control, where threads, processes and crashes meet, is in the
service (`service/`) and in the few core modules that install and publish files. This
project models that part, checks it with TLC on small instances and proves its safety
with TLAPS for all instances.

File names without a directory are those of `src/merger/repoground/service/`.

## 1. Inventory

### Components that keep state

| Component | State | Operations | What is hard | What makes it correct | Module |
|---|---|---|---|---|---|
| Jobs: store, requests, worker (`jobstore.py`, `job_router.py`, `runner.py`, `models.py`) | job and artifact caches, `jobs.json`, `artifacts.json`, log files, reports and bundles, source snapshots, the executor's queue | create (with collection and reuse), cancel, run, register a report early, prune snapshots, remove | handlers and worker share live `Job` objects without a lock; check and act are separate; two state files; failures half way | no job forgotten or run twice, none collected under the worker, files and caches agree, evidence kept | `JobService` |
| Start and restart (`app.py`) | whether requests are served; a scheduled restart | admin restart, load, reconciliation of active jobs | death between any two writes; restart decided a second before it happens | what ended is not attempted again; nothing looks active for ever | `JobService` |
| Log streams (`job_router.py:137-216`, `jobstore.py`) | log file, subscriber callbacks, one generator per stream | subscribe, read, wait, resume, end, disconnect | lines written between read and wait; reconnects; removal under the stream | ids in order with no gap, no lost wake-up, no callback left behind | `LogStream` |
| Query artifacts and their retention (`query_artifact_store.py`, `runtime_artifact_gc_*.py`) | store file, cache per process, plans, transactions, receipts, lock file | store, plan, apply, replay, recover | several processes; a crash between transaction, effect and receipt; stale caches; changed evidence | a plan takes effect at most once and whole; nothing deleted comes back; a plan releases what the budgets ask for | `RetentionGC`, `RetentionLedger` |
| Rooted filesystem (`core/rooted_filesystem.py`) | files under a root | atomic replace, exclusive create, lock | what is left by a crash between two system calls | old or new content, never a mixture | inside `RetentionGC` |
| Bundle generations (`core/bundle_generation.py`) | generation directories, pointer (symlink or JSON), lane lock | collect, install, switch, verify, roll back | failure or death between installation, switch and verification; damage and moves from outside the lock | the pointer always names a complete generation; a failure restores what was captured and overwrites nobody | `BundleGeneration` |
| Latest-complete publication (`core/latest_complete.py`) | registry, directory lock | build, decide, replace, revalidate | publishers in any order, clocks that disagree, failing syncs, power failures | the registry never goes back; what was acknowledged stays; receipts are true | `LatestComplete`, `LatestRegister` |
| Pre-pull (`repo_sync.py`, its use in `runner.py`) | the user's checkouts | plan, apply | HEAD, upstream and files move between plan and application; several repositories | a failed plan moves nothing; a scan sees what was fetched; local files stay | `RepoSync` |
| Source acquisition (`source_acquisition.py`) | snapshot directories | materialize, prune | prune by age, count and bytes | protected snapshots stay | outcome and protection in `JobService` |
| External manifests (`core/external_manifest_*.py`) | generations, pointer | install, switch | as bundle generations | as bundle generations | no |
| Event handoff (`core/event_handoff.py`) | outbox, lock file | append once | duplicates | every event once | no |
| Incremental snapshots (`retrieval/incremental_snapshot.py`) | snapshots, pointer | install, switch | as bundle generations | as bundle generations | no |
| Fleet publication (`scripts/ops/repoground-publish-fleet`) | build roots, quarantine | build, publish, recover | a 7400-line script over many repositories | records agree with directories | no |
| Atlas scans (`atlas_router.py`, `atlas/`) | scan files or SQLite rows | start, finish, list | scan ids are seconds | one scan, one record | no |

### Components without a protocol

Publication policy (`core/publication_policy.py`, a pure decision), merge and extraction
(`core/merge.py`, `core/extractor.py`), retrieval (`retrieval/`), citations, health and
evidence (`core/citation_map.py`, `core/output_health.py`, ...), architecture analysis
(`architecture/`), the MCP server and the command line (`cli/`), the web and Pythonista
front ends (`frontends/`), the path and token checks of the service
(`adapters/security.py`, `auth.py`). They are functions of their input or front ends over
read-only operations; `PROJECT.json` lists each with its reason.

### How the parts interact

- A request thread calls `JobStore` under its lock, then `JobRunner.submit_job`; the
  executor's one thread runs `_run_job`, which calls the store, source acquisition or
  pre-pull, the merger, and the store again. `get_job` returns the store's own object, so
  that `job.status = ...` in one thread is seen by all others at once, before any save.
- Every `update_job` and `append_log_line` calls the subscribers of the job; each wakes
  one generator on the event loop, which reads the log file and the job's status.
- `cleanup_jobs` (in each create request) removes jobs with their artifacts, logs and
  snapshots, and wakes and forgets their subscribers.
- The query artifact store is shared by processes through one directory and one lock file;
  each keeps a cache that `store()` reads again under the lock.
- The snapshot of a job is made by source acquisition, protected by the job being active,
  and pruned by requests and by the worker. A `local_ff` job plans and applies its pre-pull
  before it scans, with git as the only channel to whoever else uses the checkout.
- A publishing run (`cli/cmd_ground.py:1764-1784`) installs its bundle as a generation of
  its lane and then offers the lane's current manifest to a latest-complete registry. The
  two are under different locks, one after the other.

`PROJECT.json` lists the hazards of this code at their lines, with the properties aimed at
each.

## 2. Modules

| Module | Role |
|---|---|
| `JobService` | the job subsystem: store, endpoints, worker, process |
| `MCJobService` | its constants for TLC |
| `JobServiceProofs`, `JobFilesProofs` | its inductive invariants and theorems, on statuses and on files |
| `LogStream`, `MCLogStream`, `LogStreamProofs` | the event stream of one job's log |
| `RetentionGC`, `MCRetentionGC`, `RetentionGCProofs`, `RetentionPlanProofs` | the query artifact store and manual retention; its protocol and its planner |
| `RetentionLedger` | the abstract specification that `RetentionGC` implements |
| `BundleGeneration`, `MCBundleGeneration`, `BundleGenerationProofs` | one lane of bundle generations |
| `LatestComplete`, `MCLatestComplete`, `LatestCompleteProofs` | one latest-complete registry |
| `LatestRegister` | the abstract specification that `LatestComplete` implements |
| `RepoSync`, `MCRepoSync`, `RepoSyncProofs` | the pre-pull of one job |

Definitions whose comment begins with "Mutant" are deliberate mistakes, each beside the
definition it spoils. No specification uses them: they stand in for a definition to see
that the property named in `PROJECT.json` notices.

### JobService

A step is what one thread does between two points where another can act: a critical
section of `JobStore._lock`, or a write to a live `Job`. Threads are the client threads
(`cpc`, with locals `cjob`, `creq`), the worker (`rpc`, `rjob`, `report`, `acquired`) and
the process (`up`, `restarting`).

| Variables | Code |
|---|---|
| `status`, `artIds`, `reqOf` | fields of `Job` (`models.py:239-267`) |
| `cached`, `artCache` | keys of `_jobs_cache`, `_artifacts_cache` |
| `diskStatus`, `diskArtIds`, `diskArts` | `jobs.json`, `artifacts.json` as last renamed into place |
| `files`, `logs`, `snaps` | reports and bundles, log files, source snapshots on disk |
| `lock` | holder of `_lock` where it is kept over more than one step: `cleanup_jobs` between its two saves |
| `queue` | work items of the one-thread executor |
| `next` | how many jobs were created; a job is its number, so that `created_at` is the order of numbers |
| `gced` | history: jobs that were collected |

| Actions | Code |
|---|---|
| `CreateCollect`, `CreateSaveJobs`, `CreateSaveArtifacts`, `CreatePrune`, `CreateFind`, `CreateReuse` / `CreateNew`, `CreateAdd`, `CreateSubmit` | `create_job` (`job_router.py:49-107`) with `cleanup_jobs`, `find_job_by_hash`, `_reuse_succeeded_job`, `add_job`, `submit_job` |
| `CancelRead`, `CancelWrite`, `CancelSave` | `cancel_job` (`job_router.py:118-135`) |
| `RestartRequest`, `Restart` | `api_admin_restart` and the transient unit (`app.py:615`, `:183`) |
| `Run...` | `_run_job` (`runner.py:290-1006`), from the executor's hand-over to the `finally` clause |
| `Crash` | the process dies at any point |
| `Reconcile`, `Serve` | `_mark_persisted_active_jobs_terminal` and `init_service` (`app.py:123`, `:277`) |

Abstractions. A request is a model value with a source mode, a plan-only flag and a
merges directory: equal value, equal `content_hash`. A job makes at most one report
(pre-pull or source acquisition) and one bundle. Which unprotected snapshots pruning
removes is arbitrary. The age limit of collection is an arbitrary job number: jobs up to
it are too old. An exception may be raised from any part of the `try` block. Warnings are
saved or not, freely.

### LogStream

A line is the number of its `append_log_line` call and its event id is its position in
the file. The runner (`wpc`), one late cancel (`cpc`) and the collection (`Remove`) change
the log and the job; the generator of each stream (`spc`, `lastId`, `event`) is
`stream_logs` with its await points; `wire`, `got` and `connects` are the connection and
the client, which resumes with the id of the last event it received (the web front end,
`streamLogs` in `frontends/webui/app.js`, closes instead: it is a client with one
connection). A disconnect loses
what is in flight; the framework may cancel the generator at any await. A callback sets
the event at once, where the code lets the event loop do it next: either is before or after
the generator's `event.clear()`, which is all that matters. Lines contain no line break
and one request cancels.

### RetentionGC

An artifact is its number in order of creation: its age, and its place in the file. The
store file, and so its hash, is the set of its artifacts. `trans`, `receipts`
and `complete` are the files of `retention-transactions/` and `retention-receipts/`;
`stray` says that a temporary file is left among the transactions. `pc` and `txn` are
where each process is. An instance that is neither idle nor about to reload holds the lock
file. `Apply`, `WriteTransaction`, `WriteStore`, `CreateReceipt` and `FinishReceipt` are
`apply_retention`'s writes one after the other; `WriteFails` ends it at any of them and
`Crash` at any point. `Candidates` is the planner: age pressure, then a pass for the count
and one for the bytes. `Marked` is such a pass, the code's loop over the ordered artifacts
with its running sum. Ownership and tamper checks are left out: the files
are the program's own.

`RetentionLedger` says what all this is for: artifacts are added once; a plan takes
effect at most once, in one step, on exactly the store it was made for, within its
candidates; whatever is gone is accounted for by one plan. The mapping: `live` is the
store file, and `released` has the transactions whose effect took place, which is told by
a complete receipt or by the store being in the transaction's `post` state.

### BundleGeneration

A generation is named by the digest of its files, so that here it is the content of the
flat output (`flat`) it was collected from; `gens` says whether its directory is absent,
intact, or damaged in its data or its manifest. `link` and `json` are the two forms of the
pointer, `snap` the pointer state that a publisher captured, `files` what it collected,
`held` the kind of pointer of the last success.

| Actions | Code (`core/bundle_generation.py`) |
|---|---|
| `Collect`, `Lock`, `Capture` | `_publish_bundle_generation_impl` to the capture (`:891-917`) |
| `Reuse`, `Stage`, `Rename` | `_install_generation`: the directory exists, or is staged and renamed |
| `Verify`, `Check` | verification and `_assert_pointer_snapshot_unchanged` before the switch |
| `Switch`, `SwitchFails` | `_publish_current_pointer` (`:856`): the mode of the lane is sticky |
| `Publish`, `VerifyFails` | the second verification (`:941`) |
| `RollBack`, `WriteBack`, `RollBackFails` | `_restore_pointer_snapshot` (`:946-952`): it looks at the pointer, then replaces or removes it; it refuses or fails at either |
| `GiveUp`, `Crash` | errors and deaths at any point |
| `Emit`, `Damage`, `Foreign` | what does not take the lock: a merge writing, damage to the generations in `Fragile`, one move of the pointer |

Collecting is one step here. The files of the manifest are read one after the other and
refused when their digests disagree; extra paths and link sidecars have no digest in it
(`:318-355`), so that a collection may mix those of two moments. Such a mixture is a content
of its own, one more of `Contents`, which `Emit` may write before the collection and undo
after it.

Something that does not take the lock may move the pointer at any moment (`Foreign`).
Publishers look before they write, but there is no compare-and-swap: a move that falls
between a last look and the write is overwritten. There are two such windows, from `Check`
to `Switch`, which `docs/architecture/repobrief-bundle-generations.md` (lines 119-125)
admits, and in the rollback from `RollBack` to `WriteBack` (`:671-729`), of which the
documents say nothing. `overtaken` (history) has the publishers that a move fell upon in one
of them; `NoBlindOverwrite` excuses these and nobody else.

### LatestComplete

`visible` is the registry readers find; `disk` is the set of registries that a power failure
may leave, `Torn` among them if a file gets its name before its bytes are synced. `up` says
that the power is on. `candidate` and `existing` are what a publisher offers and what it
found under the lock, `answer` its `publication_state`, and `safe` (history) what was last
answered to be durable. A candidate is a bundle with the state of its sidecars (`side`) and
the clock it was built by: clocks are not trusted and say any of `Times`.

| Actions | Code (`core/latest_complete.py`) |
|---|---|
| `Build` | `build_latest_complete_registry` and its eligibility |
| `Acquire` | `_acquire_publication_lock`, `_read_existing_registry` |
| `SelectPublish`, `SelectKeep`, `SelectRevalidate`, `SelectRefuse` | `_select_publication_decision` (`:1528`) |
| `WriteTemp`, `SyncFile`, `Replace`, `SyncDirectory`, `Readback` | `_atomic_publish_registry` (`:1118-1148`) |
| `Revalidate` | `_revalidate_registry_durability` (`:1215`) |
| `Fail`, `Crash` | failure receipts, death of a publisher |
| `PowerFails`, `PowerReturns` | the machine stops, every call with it; later a registry of `disk` is found |

`LatestRegister` is the promise to readers: while the power is on, the entry they find is
superseded only by one that ranks above it, from the first registry or the legacy one they
found on, whether anything was acknowledged or not. Only the return of the power may bring
an entry back, out of those that were not yet durably superseded (`kept`), and never one
below what was acknowledged (`safe`). What ranks above is a parameter, which
`LatestComplete` gives as `Above`: the same lane and a younger bundle, or the repair of a
legacy entry. `kept` is mapped to `disk`, the others to `visible`, `safe` and `up`.

### RepoSync

Commits are constants with their ancestors and with what they hold at each path. One action
is one git command of `plan_pre_pull_repo` or `apply_pre_pull_plans`, in their order:
`ReadHead`, `CheckStatus`, `Fetch`, `CheckBehind`, `CheckAhead`, `ListChanged`,
`ListUntracked`, then for each repository `Carry` or `Recheck` and `Merge` or
`MergeNothing`. `PlanFails` and `ApplyFails` are commands that fail before they do anything.
A merge whose time is up may have written any of its files, which are then changed or
untracked ones (`MergeKilled`), or have moved HEAD already (`Merge` with `merge_failed`);
what it leaves in git's index is not told apart. The others edit, create, commit, push and
fetch between any two commands. `since` (history) remembers what they did after the plan's
fetch (files created: after its listing; commits: after the race guard), `lost` the
untracked files that a merge wrote over, `moved` the repositories the job moved. A path is a
class of names that collide (a directory with the file it replaces); the checkout stays on
its branch and is not reset. A second job on the same checkout is one of the others.

## 3. Runs

| Run | Question | Properties | Bounds |
|---|---|---|---|
| `jobs_crash` | do interleavings of create, cancel, collection and worker, with crashes, restarts and failed registrations, lose, repeat or collect a job, or leave files and memory apart? | `TypeOK`, `NoJobForgotten`, `NoJobRunsTwice`, `WorkedJobIsStored`, `ScannedSnapshotKept`, `StateFilesCurrent`, `ListedArtifactsExist`, `NoSecondAttempt` | 2 clients, 3 kinds of request, snapshots, 2 jobs, retention of 1 |
| `jobs_liveness` | does every job end and every request return, with reports listed and no orphan artifact? | `NoOrphanArtifact`, `EvidenceKept`, `RunningJobEnds`, `QueuedJobLeaves`, `HandlersReturn` | 1 client, 3 jobs, forced or not |
| `jobs_canceling_untracked` | finding | `CancelingIsTracked` | 2 clients, 2 jobs |
| `jobs_identical_active` | finding | `ActiveJobsDiffer` | 2 clients, 2 jobs |
| `jobs_snapshot_left` | finding | `DeletedWithSnapshot` | 2 clients, 2 jobs, a custom directory |
| `logs_liveness` | do resumed clients see every line once, do notifications alone bring lines and ends, and do subscriptions end with their streams? | `TypeOK`, `NoStaleSubscriber`, `IdsInOrder`, `LinesArrive`, `StreamsEnd` | 1 stream, 3 lines, 2 connections |
| `logs_line_after_end` | finding | `EndAfterEverything` | 1 stream |
| `retention_gc` | is a plan exact, and its application atomic, under crashes, failures and concurrent stores? | `TypeOK`, `PlanReleasesEnough`, `PlanReleasesNoMore`, `PendingUnambiguous`, `EffectsAreLedgered` | 2 processes, 3 artifacts, 2 plans, 3 kinds of evidence |
| `retention_replay` | finding | `ReplayReconstructs` | 1 process, 1 plan |
| `bundle_generation` | does a lane select complete generations, does a failure restore it, and is nobody overwritten outside the two windows, wherever publishers fail or die? | `TypeOK`, `SelectedIsComplete`, `PointerModeKept`, `OutcomeIsTrue` (`FailedRestores` and `PublishedIsSelected`), `NoBlindOverwrite`, `PublisherEnds` | 3 publishers, 2 contents, one of them fragile, one foreign move |
| `latest_complete` | does the registry only move up while the power is on, and keep what it acknowledged when it fails, whoever comes and whatever fails? | `TypeOK`, `PowerLossIsSafe` (`NoTornRegistry` and `AcknowledgedSurvives`), `ReceiptIsTrue`, `SuccessIsLatest`, `CallEnds`, `RegisterSpec` | 2 publishers, 3 calls, 4 bundles (2 of one moment, 1 of another lane), 2 clocks |
| `repo_sync` | is what was planned what is merged, when the checkout moves under the job? | `TypeOK`, `PlanFailureMovesNothing`, `ScanIsFresh`, `LocalFilesKept`, `ChangedIsChanged` | 2 repositories, 4 commits, 2 paths (1 ignored), 2 events of others |

All runs use interleaving without deadlock checking: a service without requests, a log
whose clients have gone and a store nobody uses may stand still.

Why the bounds are enough for the cases they are for:

- Two clients and the worker are all the kinds of actors of `JobService`; a race is
  between a creation, a cancellation and the worker, or between two creations. Two jobs
  with a retention of one let a creation collect the other job, finished or wrongly
  active. `jobs_liveness` has three jobs, so that the queue holds one while
  the worker is in another and a third has ended. Job numbers that handlers may still use
  are reserved when a request arrives, so that a handler is never stopped by `MaxJobs`.
- Resuming needs two connections of one client and lines on both sides of the break:
  `logs_liveness` has two lines of the job and its last one. Streams meet only in the list
  of subscribers; that they do not disturb each other there is proved for any number.
- `retention_gc`: a session that refers to the trace before it, and a younger trace, with
  a budget of one trace of at most two bytes: age, count and bytes pressure, pins and
  active sessions all select differently. Two plans and two processes give every order of
  a plan against another plan, a store and itself.

- `bundle_generation`: a first publisher sets the pointer, a second captures it, and a
  third comes after the second's failure; two contents are the captured generation and the
  new one, and either may be found damaged. `Foreign` happens once.
- `latest_complete`: one call to set the registry and two that race or come after a power
  failure. Two bundles of one moment collide; the later one is from the future for the
  clock that says 0; registries of earlier runs may be legacy or of another lane.
- `repo_sync`: two repositories, so that one fails after the other was planned or moved;
  history with a fork; two events are enough for a commit after a fetch, or an ignored
  file and a commit upstream that brings it.

Symmetry is over clients and processes, in runs of safety and refinement only.

### Fairness

`JobService!FairSpec`: a handler that has begun continues (a synchronous endpoint
is a thread of the pool, which never waits but for the store's lock, and that is held over
file writes only), the worker continues (its thread waits for the same lock), and so does
`init_service`. Nothing forces a client to send a request, nor the process to crash.
That a step of the worker takes finite time is an assumption about acquisition and
merging: subprocesses there have timeouts.
`LogStream!FairSpec`: the worker and the cancelling thread continue, the event loop runs
each generator that is not waiting or whose event is set, and a connection that holds
delivers. The idle recheck of a waiting generator may happen at any time and is not
counted on. No fairness is assumed of clients, of disconnects, of removal, or of the
framework's cancellation.
`BundleGeneration!FairSpec`: a publisher that has collected goes on or fails; nobody has to
collect, die or interfere. The lock is a flock, which the kernel takes from the dead. That
weak fairness gets a waiting publisher the lock counts on each of the finitely many others
to publish once.
`LatestComplete!FairSpec`: a call goes on; no failure, death or power failure is counted
on. Calls are bounded (`MaxCalls`), as publishers of one lane are in practice: a flock
promises no order among those who wait.
`RetentionGC` and `RepoSync` have no liveness properties: the one makes progress when its
command is run again, the other is a sequence of commands with timeouts.

### What the findings show

- `jobs_canceling_untracked`: a cancel between `add_job` and `submit_job` leaves the job
  `canceling` for ever: `submit_job` declines what is not `queued` (`runner.py:264`).
  `models.py:241` explains the status by a runner that has not stopped yet. A cancel
  that overwrites a final status (`job_router.py:133`) gets there as well.
- `jobs_identical_active`: search and addition lock the store separately, so that two
  identical requests both become jobs, against `docs/service-api.md:414`.
- `jobs_snapshot_left`: a snapshot in a custom merges directory outlives its job, against
  `docs/blueprints/rlens-source-acquisition-blueprint.md:170`.
- `logs_line_after_end`: the status ends before the last line is written
  (`runner.py:977-979`, `:1001-1004`), so that `event: end` may come before it, against
  the comment "Ensure we sent everything" (`job_router.py:198`).
- `retention_replay`: a receipt that was begun and not finished blocks every operation,
  the exact replay that should reconstruct it included
  (`docs/proofs/runtime-artifact-retention-gc-v1-proof.md:29`).

### Known departures without a run

Behaviour of the code that the models have, that a reader of the docs would not expect,
and that the properties therefore leave out:

- A late cancel overwrites a final status (`job_router.py:133`; `models.py:242` calls
  `canceled` final). After a restart such a job is failed by reconciliation.
- `update_job` stores whatever it is given (`jobstore.py:164`): a late cancel or
  the worker's last save puts a collected job back, without its artifacts and log. The
  properties about artifacts exclude collected jobs (`gced`). Its open streams lost their
  callback with the removal (`jobstore.py:278`) and are woken by the idle recheck only, so
  that `LinesArrive` speaks of subscribed streams.
- A stream whose job is removed ends without `event: end` (`job_router.py:195`;
  `docs/service-api.md:11`).
- An active `local_ff` job is reused whatever its progress, its pre-pull perhaps over
  (`job_router.py:85-90`).
- The restart counts active jobs a second before it stops the process (`app.py:620`): jobs
  created in between are stopped with it, though `docs/service-api.md:322` says "Active
  jobs block the restart."
- A crash between `add_artifact` and the save of the job leaves an artifact no job lists. It
  stays for ever, as removal follows the job's own list (`jobstore.py:242`); so do the
  artifacts of removed jobs after a crash between the two saves of a collection
  (`jobstore.py:384`). Both registrations of a report may fail, too. `NoOrphanArtifact` and
  `EvidenceKept` are checked where none of this happens (`CanCrash`, `CanFail` are FALSE in
  `jobs_liveness`).
- A process that dies while it writes a transaction leaves a temporary file where
  `assert_no_pending` accepts no other name (`core/rooted_filesystem.py:556`,
  `runtime_artifact_gc_store.py:184-199`): `RetentionGC!stray` then blocks stores, plans
  and applications.
- A state file that cannot be written: `update_job` may raise at `runner.py:304`, before
  the `try` block, and leave the job `running` with no worker. Saves do not fail in
  `JobService`, and `NoJobForgotten` would not survive it.
- `git merge --ff-only` takes ignored files for disposable. The plan therefore refuses when
  an untracked file, ignored ones included, is in the way (`repo_sync.py:396` and after),
  but nothing looks again before the merge: an ignored file that appears after the listing,
  or one that a commit brings which somebody else fetched later, or the user merged after
  the race guard, is overwritten, though `docs/service-api.md` says that pre-pull "never
  deletes untracked files or discards local changes". `LocalFilesKept` excludes just these.
- When the upstream was rewound and fetched by somebody else between plan and merge, or the
  user merged it himself after the race guard, the merge does nothing and the report says
  `fast_forwarded` with `changed` true (`repo_sync.py:517`): `ChangedIsChanged` excludes
  these.
- A merge that is killed when its time is up is reported as `merge_failed`, but may have
  written some of its files or moved HEAD (`repo_sync.py:201-202`, `:507-513`). The
  job does not scan, and the checkout stays as the merge left it.
- A rollback of a bundle's pointer overwrites, as a switch does, what somebody who does not
  take the lock wrote since it looked (`core/bundle_generation.py:671-729`).
- A slow publisher of bundles may switch its lane back to an older generation: the lane
  selects the last publisher's bundle, whatever its age. The latest-complete registry is
  what orders them.
- After its publication a run follows the lane's pointer again, without its lock
  (`cli/cmd_ground.py:1769`), to write the latest-complete registry: it may register another
  run's bundle, though the option's help speaks of "this created snapshot" (`:582`).
- `exclusive_file_lock` asserts the lock file's identity when it is left: that may raise
  after a successful switch, without rollback. A rollback that is itself interrupted is
  reported as such (`rollbackFailed`).
- `unchanged_existing` says nothing of durability: no sync is done for it
  (`LatestComplete!SelectKeep`), so that a power failure after another publisher's uncertain
  replacement may bring back a registry older than the candidate that was answered so.
- A publisher whose clock is more than the allowed skew behind the registry's `updated_at`
  is refused until its clock has caught up, though its bundle may be younger
  (`core/latest_complete.py:1554-1560`).

## 4. Proofs

Eight modules of proofs. Each component has an inductive invariant, whose three facts
(initial states, steps, what follows) are proved apart and put together in `Inductive`.
Every invariant was checked with TLC on the instance of its component's run first.

Every invariant and action property that a passing run checks is proved, and both
refinements are. For each of the five findings there is a theorem, too, that says where
the documented promise does hold, or how far it is missed: what is left of it once the
one cause that the run shows is taken away. Nothing but what the theorem assumes away or
excepts can break the promise.

| Finding | Boundary |
|---|---|
| `jobs_canceling_untracked` | `CancelsInTimeAreSeen`: a cancel of a job in the queue or in the worker is never lost |
| `jobs_identical_active` | `IdenticalNeedTwoClients`: with one client thread that does not force new jobs, active jobs differ |
| `jobs_snapshot_left` | `SnapshotsGoWithJobs`: without custom merges directories, deleted jobs take their snapshots along |
| `logs_line_after_end` | `EndMissesOneLineAtMost`: whoever was told the end has all but the last line |
| `retention_replay` | `EffectsAreRecoverable`: an effect without a begun receipt can be replayed; `StuckStays`: one with a begun receipt never can |

### Jobs: statuses

`JobServiceProofs` proves, from the three assumptions on constants of `JobService`
(`NoClient` is no client; requests have modes, and plan-only ones no fast-forward; bounds
are numbers and flags Booleans), for every number of clients, requests and jobs, with
crashes, restarts and failures:

| Theorem | Statement |
|---|---|
| `Inductive` | `Spec => []IInv` |
| `TypeCorrect` | `Spec => []TypeOK` |
| `NoJobIsForgotten` | `Spec => []NoJobForgotten` |
| `NoJobIsRunTwice` | `Spec => []NoJobRunsTwice` |
| `WorkedJobStaysStored` | `Spec => []WorkedJobIsStored` |
| `StateFilesAreCurrent` | `Spec => []StateFilesCurrent` |

The properties are not inductive alone. That a queued job will be run depends on where
the thread is that created it; that collection spares the worker's job depends on its
status being active, which depends on the queue having held only unfinished jobs, which
depends on `submit_job` handing over each once. `IInv` says all of this together:

- `IdInv`: ids are used once, stored jobs have a status;
- `ClientInv`: what a thread at `add`, `submit` or in a cancel knows of its job: before
  `add_job` nobody shares it, before `submit_job` the executor does not have it;
- `QueueInv`: the queue holds each job once, stored, `queued` or `canceling`, and not the
  worker's;
- `RunnerInv`: the status of the worker's job by where the worker is;
- `StoreInv`: unstored jobs are new or ended; before `Serve` no thread is at work;
- `LockInv`, `FileInv`: the lock is kept between the two saves of a collection, and a status
  that differs from `jobs.json` has a thread about to save it;
- `QueuedInv`, `RunningInv`: the two halves of `NoJobForgotten`.

There is one lemma for each action that disturbs the invariant (`RunStartStep`,
`CreateNewStep`, `CancelWriteStep`, ...), and shared ones for the shapes of step that most
of the worker's and handlers' actions have: moving without touching a status
(`WorkerMoves`, `ClientMoves`), saving (`WorkerSaves`), ending a job (`WorkerEnds`) and
leaving it (`WorkerLeaves`). `NextIInv` puts them together.

### Jobs: files

`JobFilesProofs` builds on that. `FInv` is inductive under `IInv`, with crashes, restarts
and failures: where the worker's snapshot is (`SnapshotInv`), what the lists of artifacts
in memory and on the disk have in common (`ListInv`), what the worker has written but not
registered (`OutputInv`), and that an end on the disk is an end in memory and out of every
queue (`EndedInv`). `SteadyInv` follows artifacts and reports through the worker and holds
only while the process lives and registering does not fail.

| Theorem | Statement |
|---|---|
| `ScansHaveSnapshots` | `Spec => []ScannedSnapshotKept` |
| `ListedIsThere` | `Spec => []ListedArtifactsExist` |
| `NothingIsAttemptedTwice` | `Spec => NoSecondAttempt` |
| `NoArtifactIsOrphaned` | `Spec => []NoOrphanArtifact`, when `CanCrash`, `CanRestart` and `CanFail` are FALSE |
| `ReportsAreKept` | `Spec => []EvidenceKept`, under the same assumptions |

| `CollectedStaysGone` | `Spec => []GoneInv`: a collected job is never again in the worker, in the queue or on its way there |
| `SnapshotsGoWithJobs` | `Spec => DeletedWithSnapshot`, when `CustomDir` is empty |
| `IdenticalNeedTwoClients` | `Spec => []ActiveJobsDiffer`, with one client and no forced request |
| `CancelsInTimeAreSeen` | a step leaves a stored job `canceling` and untracked (`CancelLost`) only if it was being submitted, had ended or was removed, or the worker was done with it |

`NoArtifactIsOrphaned` and `ReportsAreKept` are false without their assumptions (known
departures, above). `GoneInv` is needed because collection forgets a job that handlers may
still name: a late cancel stores it again, and only the status that it has then keeps it
from the worker. A snapshot is made for the worker's job only, so that what `GoneInv` says
of the worker keeps snapshots of deleted jobs from being made. `SameInv` says for
`IdenticalNeedTwoClients` that active jobs of one request are one job in memory and, for
the restart, in `jobs.json`, and that what the client found before it decides is still
that job: with a second client that is what fails.

### Log streams

`IdsInOrder` is about what a client has, but events are put on the wire by a generator
that knows only its position in the file. `IInv` joins what a client has and what is on
its way (`Sent`): events in the order of the file, each at its position, `event: end` the
last, and every line still unread is younger (`InOrder`); while a client is there, its
generator's position is the length of what it was sent (`PositionInv`). The last conjunct of
`InOrder` is what a removal, which starts the file anew, must not break. Theorems:
`TypeCorrect`, `NoCallbackIsLeft` (`NoStaleSubscriber`), `IdsAreInOrder` (`IdsInOrder`).

`EndInv` adds that a generator that is to say `event: end` has seen the runner's end, that
what was sent is the file line by line, and that after `event: end` the file grows by one
line at most. A removal starts the file anew, and then it has that line only (`Renewed`).
Theorem: `EndMissesOneLineAtMost`.

### Retention

`IInv` says that at most one instance is past the lock file (`LockInv`), that a transaction
is the only one of its plan and releases what the plan allows (`TransInv`), and what the
holder knows at each of its writes: the store is as it found it before the effect and as
it made it after, and every other transaction has its whole receipt (`HolderInv`). With
`PendingUnambiguous` this gives `EffectsLedgered`: the initial state, and each action as a
step of `RetentionLedger` or a stutter. Theorems: `TypeCorrect`, `NoTransactionIsAmbiguous`,
`EffectsLedgered`.

What can be recovered rests on one more invariant, `OnePending`: at most one transaction
is without its whole receipt. `EffectsAreRecoverable` follows: when the lock is free, no
temporary file is left, and a transaction's effect is in the store without a receipt, any
idle process may apply its plan again. `StuckStays` is the converse: once a receipt
was begun and not finished, or a temporary file is left, no step changes the store, the
plans, the transactions or the receipts any more.

`RetentionPlanProofs` is about the planner. A pass is a loop with a running sum, and the
bytes of a set are a sum over it: both are recursive, and induction over data is not
available as a rule. The proofs take a smallest counterexample instead: inclusion among
subsets of a finite set and `<` on numbers are well founded (`SetInduction`, `NatInduct`).
From that come what a sum of bytes is (`BytesRemove`, `BytesUnion`), that a pass is
computed by its loop (`PassExists`), and what its running sum adds up to (`PassSums`).
`PassesReleaseOldest` is what a reader of the planner needs: a plan releases an unprotected
artifact exactly when it is aged, or the unprotected artifacts of its type before it are
less, by number or by bytes, than what the budget asks for. `PlansReleaseEnough`
(`PlanReleasesEnough`) and `PlansReleaseNoMore` (`PlanReleasesNoMore`) follow for every
plan that is ever made, for all sizes, budgets, references and protections.

### Bundle generations

What the lane selects after a rollback is what a publisher captured long before. `Holder`
says what it may rely on: the captured generation is still good (complete or damaged from
outside), the pointer has still the captured mode and, unless someone from outside moved it,
the captured value; its own files are verified before the switch. Between a look and the
write after it the pointer is what was seen (captured before the switch, its own in the
rollback), or the publisher is in `overtaken`: `NothingIsOverwrittenBlindly` says that, with
this exception and no other, also of lanes that were moved before. `DamageInv` says that
nothing but damage makes a directory incomplete. Theorems: `TypeCorrect`,
`LaneSelectsComplete`, `LaneKeepsMode`, `FailuresRestore`, `NothingIsOverwrittenBlindly`,
`PublishedAreSelected`, `OutcomesAreTrue`.

A protocol that refuses everything would satisfy all of these. `UndisturbedLaneServes`
says that this one does not: where nothing outside interferes (`Fragile` is empty), no check
of a publisher fails for what others left in the lane (`NothingRefused`), whoever failed
or died and wherever: the pointer can be captured, an existing generation reused, the files
verified, the captured pointer restored. `CalmInv` is the inductive part of it: what the
holder has seen or written stays as it was.

### Latest-complete

`PublisherInv` carries the decision to the replacement: what the holder found is still what
readers find, and what it writes ranks above that; its file is synced before it gets its
name, and the disk has nothing else once the directory is. `SafeInv` is needed because
`Above` is transitive only over registries of the current version: a chain of legacy repairs
is not an order. `PowerInv` says that nobody runs without power. `RegisterStep` maps every
step to one of `LatestRegister` or a stutter: a replacement to `Supersede`, the sync of the
directory to `Settle`, an answer that promises durability to `Acknowledge`; the only step
that may show an entry which does not rank above the one before is `PowerReturns`. Theorems:
`TypeCorrect`, `NoRegistryIsTorn`, `AcknowledgedStays`, `PowerLossesAreSafe`,
`ReceiptsAreTrue`, `SuccessesAreLatest` and `IsRegister`, the refinement of
`LatestRegister`.

### Pre-pull

From `HistoryAssumption` (ancestry is a partial order), for all histories. What a merge does
depends on what its plan saw, several commands and repositories before: that branches only
grow (`GrowthInv`), that what the diff compared is a commit which HEAD passed (`Compared`),
that no untracked file is in the way of some such commit (`Clear`), so that a merge,
finished or killed, writes only over what came later (`OverwritesTheNew`), that a planned
repository has something to merge (`SomethingNew`), each until the event that ends it.
`PlaceInv` says which statuses there are at each point of the batch. Theorems:
`TypeCorrect`, `FailedPlansMoveNothing`, `ScansAreFresh`, `LocalFilesAreKept`,
`ChangesAreChanges`.

### Only model-checked

- Liveness: `RunningJobEnds`, `QueuedJobLeaves`, `HandlersReturn`, `LinesArrive`,
  `StreamsEnd`, `PublisherEnds`, `CallEnds`. Fairness and ENABLED are outside the prover's
  reach.
- The violations themselves: a theorem cannot say that a property fails, TLC's
  counterexample does.

## 5. Not modelled, and what is left

- A state file that cannot be written (`JobService`), and power failures in
  `BundleGeneration`: its pointer and directories are synced, but the model has deaths of
  processes only.
- The composition of a lane with its registry. Both protocols hold for every caller, so
  that the order in which one run uses them breaks none of their properties; a property
  that says whose bundle is registered is what a composed module would add.
- External manifests and incremental snapshots use the scheme of `BundleGeneration`; their
  own refusals and retention would be modules of their own. Event handoff is one critical
  section. Fleet publication and Atlas scans are state of their own, as large as what is
  here. `prune_source_snapshots` has an order of its own that `JobService` leaves open.
- Merge, extraction, retrieval, health, citations and architecture analysis are functions
  of their input over unbounded text. They are most of the repository's lines, and a
  bounded model of them would say nothing that their unit tests do not.

## 6. Running

In this directory: `tlc -workers 2 -config JobsCrash.cfg MCJobService` (and so for
each configuration), `tlapm JobServiceProofs.tla` (and so for each module of proofs). No
run takes more than four minutes.
