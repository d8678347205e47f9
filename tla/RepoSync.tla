-------------------------------- MODULE RepoSync --------------------------------
(***************************************************************************)
(* The pre-pull of one job (service/repo_sync.py, service/runner.py): every *)
(* repository is planned with a series of git commands, and when no plan   *)
(* failed hard, the planned ones are fast-forwarded one by one.  Between   *)
(* any two commands somebody may edit or commit, other programs may fetch, *)
(* the remote branch may move, and every command may fail or time out.     *)
(*                                                                         *)
(* Commits and what they hold are constants.  A branch is only ever        *)
(* committed to: nobody resets a checkout or switches its branch.          *)
(***************************************************************************)
EXTENDS Naturals

CONSTANTS
    Repos,        \* number of repositories of the job, in its order
    Commits,
    Checkouts,    \* commits that the repositories are at before the job
    Ancestors,    \* of each commit, itself included
    Paths,        \* paths that do not collide with each other
    Version,      \* what each commit holds at each path, 0 for nothing
    Ignored,      \* paths that .gitignore names
    None,         \* no commit
    MaxEvents     \* bound on what others do

ASSUME ConstantAssumption ==
    /\ Repos \in Nat \ {0} /\ MaxEvents \in Nat
    /\ Ancestors \in [Commits -> SUBSET Commits]
    /\ Version \in [Commits -> [Paths -> Nat]]
    /\ Ignored \subseteq Paths /\ Checkouts \subseteq Commits
    /\ None \notin Commits

\* History has no cycles.
ASSUME HistoryAssumption ==
    \A c, d \in Commits :
        /\ c \in Ancestors[c]
        /\ d \in Ancestors[c] => Ancestors[d] \subseteq Ancestors[c]
        /\ d \in Ancestors[c] /\ c \in Ancestors[d] => c = d

VARIABLES
    head, tracking, remote,  \* HEAD, @{u} and the branch on the server
    dirty, loose,            \* tracked files with changes, untracked files
    pc, repo,                \* the job's next command, and for which repository
    before, fetched,         \* the HEAD it noted, the @{u} its fetch brought
    behind, changed,         \* what the last ancestry check and diff answered
    status,                  \* PrePullStatus of each repository
    moved, lost,             \* repositories it moved, untracked files it overwrote
    since,                   \* what others did since its fetch, created since its listing
                             \* of files, committed since its race guard
    events                   \* how much others did

gitVars == <<head, tracking, remote, dirty, loose>>
jobVars == <<pc, repo, before, fetched, behind, changed, status, moved, lost>>
vars == <<gitVars, jobVars, since, events>>

RepoIds == 1 .. Repos

HARD_FAIL_STATUSES ==
    {"dirty", "diverged", "fetch_failed", "merge_failed", "head_changed",
     "untracked_would_be_overwritten", "error"}
WARN_STATUSES == {"skipped", "local_ahead"}
SUCCESS_STATUSES == {"up_to_date", "fast_forwarded"}

\* Those that the apply phase may end with.
ApplyFailures == {"head_changed", "merge_failed", "error"}

IsAncestor(c, d) == c \in Ancestors[d]
Diff(c, d) == {f \in Paths : Version[c][f] # Version[d][f]}
Failed == \E r \in RepoIds : status[r] \in HARD_FAIL_STATUSES

\* A clean checkout of something, and an upstream that may be anywhere.
Init ==
    /\ head \in [RepoIds -> Checkouts]
    /\ tracking = head
    /\ remote \in [RepoIds -> Commits]
    /\ dirty = [r \in RepoIds |-> {}]
    /\ loose = [r \in RepoIds |-> {}]
    /\ pc = "head" /\ repo = 1
    /\ before = [r \in RepoIds |-> None]
    /\ fetched = [r \in RepoIds |-> None]
    /\ behind = FALSE
    /\ changed = {}
    /\ status = [r \in RepoIds |-> "none"]
    /\ moved = {}
    /\ lost = [r \in RepoIds |-> {}]
    /\ since = [r \in RepoIds |-> {}]
    /\ events = 0

-----------------------------------------------------------------------------
(* plan_pre_pull_repo, one action per git command *)

Planning == {"head", "status", "fetch", "behind", "ahead", "diff", "untracked"}

\* Mutant: a plan that failed does not hold up the others.
BeginAnyway(s) == "recheck"
\* The job applies when every plan is there and none failed hard.
Begin(s) ==
    IF s \in HARD_FAIL_STATUSES \/ Failed THEN "failed" ELSE "recheck"

\* Mutant: off by one at the last repository.
PlannedPast(s) ==
    /\ behind' = FALSE /\ changed' = {}
    /\ status' = [status EXCEPT ![repo] = s]
    /\ IF repo <= Repos THEN pc' = "head" /\ repo' = repo + 1
                        ELSE pc' = Begin(s) /\ repo' = 1
\* The plan of this repository has its status; the next one is planned.
Planned(s) ==
    /\ behind' = FALSE /\ changed' = {}
    /\ status' = [status EXCEPT ![repo] = s]
    /\ IF repo < Repos THEN pc' = "head" /\ repo' = repo + 1
                       ELSE pc' = Begin(s) /\ repo' = 1

\* Is it a work tree, and at which commit?  That may stay unknown.
ReadHead ==
    /\ pc = "head"
    /\ \/ /\ pc' = "status" /\ UNCHANGED <<repo, status, behind, changed>>
          /\ \E c \in {head[repo], None} : before' = [before EXCEPT ![repo] = c]
       \/ Planned("skipped") /\ UNCHANGED before
    /\ UNCHANGED <<gitVars, fetched, moved, lost, since, events>>

\* A dirty tree is refused, a branch without upstream is skipped.
CheckStatus ==
    /\ pc = "status"
    /\ IF dirty[repo] # {} THEN Planned("dirty")
       ELSE \/ pc' = "fetch" /\ UNCHANGED <<repo, status, behind, changed>>
            \/ Planned("skipped")
    /\ UNCHANGED <<gitVars, before, fetched, moved, lost, since, events>>

Fetch ==
    /\ pc = "fetch" /\ pc' = "behind"
    /\ tracking' = [tracking EXCEPT ![repo] = remote[repo]]
    /\ fetched' = [fetched EXCEPT ![repo] = remote[repo]]
    /\ since' = [since EXCEPT ![repo] = {}]
    /\ UNCHANGED <<head, remote, dirty, loose, repo, before, behind, changed, status,
                   moved, lost, events>>

CheckBehind ==
    /\ pc = "behind" /\ pc' = "ahead"
    /\ behind' = IsAncestor(head[repo], tracking[repo])
    /\ UNCHANGED <<gitVars, repo, before, fetched, changed, status, moved, lost, since, events>>

\* Mutant: not being an ancestor is being ahead.
ClassifyAhead(isBehind, isAhead) ==
    CASE isBehind /\ isAhead     -> "up_to_date"
      [] ~ isBehind              -> "local_ahead"
      [] isBehind /\ ~ isAhead   -> "planned_fast_forward"
\* Fast-forward analysis of the two ancestry checks.
Classify(isBehind, isAhead) ==
    CASE isBehind /\ isAhead     -> "up_to_date"
      [] ~ isBehind /\ isAhead   -> "local_ahead"
      [] ~ isBehind /\ ~ isAhead -> "diverged"
      [] isBehind /\ ~ isAhead   -> "planned_fast_forward"

CheckAhead ==
    /\ pc = "ahead"
    /\ LET s == Classify(behind, IsAncestor(tracking[repo], head[repo]))
       IN  IF s = "planned_fast_forward" THEN pc' = "diff" /\ UNCHANGED <<repo, status, behind, changed>>
                                         ELSE Planned(s)
    /\ UNCHANGED <<gitVars, before, fetched, moved, lost, since, events>>

ListChanged ==
    /\ pc = "diff" /\ pc' = "untracked"
    /\ changed' = Diff(head[repo], tracking[repo])
    /\ UNCHANGED <<gitVars, repo, before, fetched, behind, status, moved, lost, since, events>>

\* Mutant: ls-files --others --exclude-standard.
CollisionsNotIgnored(r) == (loose[r] \ Ignored) \cap changed
\* Untracked files, ignored ones too, that the fast-forward would write.
Collisions(r) == loose[r] \cap changed

ListUntracked ==
    /\ pc = "untracked"
    /\ Planned(IF Collisions(repo) = {} THEN "planned_fast_forward"
                                        ELSE "untracked_would_be_overwritten")
    /\ since' = [since EXCEPT ![repo] = @ \ {"created"}]
    /\ UNCHANGED <<gitVars, before, fetched, moved, lost, events>>

\* A command of the plan fails or takes too long.
PlanFails ==
    /\ pc \in Planning
    /\ Planned(IF pc = "fetch" THEN "fetch_failed" ELSE "error")
    /\ UNCHANGED <<gitVars, before, fetched, moved, lost, since, events>>

-----------------------------------------------------------------------------
(* apply_pre_pull_plans *)

\* The job scans when nothing failed.
Finish(s) == IF s \in HARD_FAIL_STATUSES \/ Failed THEN "failed" ELSE "scan"

Applied(s) ==
    /\ status' = [status EXCEPT ![repo] = s]
    /\ IF repo < Repos THEN pc' = "recheck" /\ repo' = repo + 1
                       ELSE pc' = Finish(s) /\ repo' = 1

\* A plan that is final already is carried through.
Carry ==
    /\ pc = "recheck" /\ status[repo] # "planned_fast_forward"
    /\ Applied(status[repo])
    /\ UNCHANGED <<gitVars, before, fetched, behind, changed, moved, lost, since, events>>

\* Mutant: no race guard.
HeadIsAnything(r) == r \in RepoIds
\* The race guard.
HeadIsPlanned(r) == head[r] = before[r]

Recheck ==
    /\ pc = "recheck" /\ status[repo] = "planned_fast_forward"
    /\ IF HeadIsPlanned(repo) THEN pc' = "merge" /\ UNCHANGED <<repo, status>>
                              ELSE Applied("head_changed")
    /\ since' = [since EXCEPT ![repo] = @ \ {"committed"}]
    /\ UNCHANGED <<gitVars, before, fetched, behind, changed, moved, lost, events>>

\* git merge --ff-only @{u}: it goes along history and refuses to touch changed
\* files and untracked ones, but takes ignored files for disposable.
Incoming(r) == Diff(head[r], tracking[r])
Mergeable(r) ==
    /\ IsAncestor(head[r], tracking[r]) /\ head[r] # tracking[r]
    /\ Incoming(r) \cap (dirty[r] \cup (loose[r] \ Ignored)) = {}

\* When its time is up after it moved HEAD, the merge is reported as failed.
Merge ==
    /\ pc = "merge" /\ Mergeable(repo)
    /\ lost' = [lost EXCEPT ![repo] = @ \cup (loose[repo] \cap Incoming(repo))]
    /\ loose' = [loose EXCEPT ![repo] = @ \ Incoming(repo)]
    /\ head' = [head EXCEPT ![repo] = tracking[repo]]
    /\ moved' = moved \cup {repo}
    /\ \E s \in {"fast_forwarded", "merge_failed"} : Applied(s)
    /\ UNCHANGED <<tracking, remote, dirty, before, fetched, behind, changed, since, events>>

\* When it is up before that, the files it wrote are changed or untracked ones now.
MergeKilled ==
    /\ pc = "merge" /\ Mergeable(repo)
    /\ \E written \in SUBSET Incoming(repo) :
          LET tracked == {f \in written : Version[head[repo]][f] # 0}
          IN  /\ lost' = [lost EXCEPT ![repo] = @ \cup (loose[repo] \cap written)]
              /\ dirty' = [dirty EXCEPT ![repo] = @ \cup tracked]
              /\ loose' = [loose EXCEPT ![repo] = @ \cup (written \ tracked)]
    /\ Applied("merge_failed")
    /\ UNCHANGED <<head, tracking, remote, before, fetched, behind, changed, moved, since,
                   events>>

\* "Already up to date" is a success too.
MergeNothing ==
    /\ pc = "merge" /\ IsAncestor(tracking[repo], head[repo])
    /\ Applied("fast_forwarded")
    /\ UNCHANGED <<gitVars, before, fetched, behind, changed, moved, lost, since, events>>

\* A command of the apply phase fails before it did anything.
ApplyFails ==
    /\ pc \in {"recheck", "merge"} /\ status[repo] = "planned_fast_forward"
    /\ Applied(IF pc = "merge" THEN "merge_failed" ELSE "error")
    /\ UNCHANGED <<gitVars, before, fetched, behind, changed, moved, lost, since, events>>

-----------------------------------------------------------------------------
(* The others, while the job runs *)

Event(r, what) ==
    /\ pc \notin {"scan", "failed"}
    /\ events < MaxEvents /\ events' = events + 1
    /\ since' = [since EXCEPT ![r] = @ \cup what]
    /\ UNCHANGED jobVars

Edit(r, f) ==
    /\ Version[head[r]][f] # 0 /\ dirty' = [dirty EXCEPT ![r] = @ \cup {f}]
    /\ Event(r, {})
    /\ UNCHANGED <<head, tracking, remote, loose>>

Create(r, f) ==
    /\ Version[head[r]][f] = 0 /\ loose' = [loose EXCEPT ![r] = @ \cup {f}]
    /\ Event(r, {"created"})
    /\ UNCHANGED <<head, tracking, remote, dirty>>

\* A commit, or a merge of one's own, of files that are clean afterwards.
Commit(r, c) ==
    /\ c # head[r] /\ IsAncestor(head[r], c)
    /\ head' = [head EXCEPT ![r] = c]
    /\ dirty' = [dirty EXCEPT ![r] = @ \ Diff(head[r], c)]
    /\ loose' = [loose EXCEPT ![r] = @ \ Diff(head[r], c)]
    /\ Event(r, {"committed"})
    /\ UNCHANGED <<tracking, remote>>

\* The remote branch is pushed to, or overwritten.
Push(r, c) ==
    /\ remote' = [remote EXCEPT ![r] = c]
    /\ Event(r, {})
    /\ UNCHANGED <<head, tracking, dirty, loose>>

\* Somebody else fetches; the branch may no longer hold what the job fetched.
OtherFetch(r) ==
    /\ tracking' = [tracking EXCEPT ![r] = remote[r]]
    /\ Event(r, IF fetched[r] # None /\ ~ IsAncestor(fetched[r], remote[r])
                THEN {"fetched", "rewound"} ELSE {"fetched"})
    /\ UNCHANGED <<head, remote, dirty, loose>>

-----------------------------------------------------------------------------
Job ==
    \/ ReadHead \/ CheckStatus \/ Fetch \/ CheckBehind \/ CheckAhead \/ ListChanged
    \/ ListUntracked \/ PlanFails
    \/ Carry \/ Recheck \/ Merge \/ MergeKilled \/ MergeNothing \/ ApplyFails

Next ==
    \/ Job
    \/ \E r \in RepoIds :
          \/ \E f \in Paths : Edit(r, f) \/ Create(r, f)
          \/ \E c \in Commits : Commit(r, c) \/ Push(r, c)
          \/ OtherFetch(r)

Spec == Init /\ [][Next]_vars

-----------------------------------------------------------------------------
(* Properties *)

\* Every variable has its type.
TypeOK ==
    /\ head \in [RepoIds -> Commits] /\ tracking \in [RepoIds -> Commits]
    /\ remote \in [RepoIds -> Commits]
    /\ dirty \in [RepoIds -> SUBSET Paths] /\ loose \in [RepoIds -> SUBSET Paths]
    /\ pc \in Planning \cup {"recheck", "merge", "scan", "failed"}
    /\ repo \in RepoIds
    /\ before \in [RepoIds -> Commits \cup {None}]
    /\ fetched \in [RepoIds -> Commits \cup {None}]
    /\ behind \in BOOLEAN
    /\ changed \subseteq Paths
    /\ status \in [RepoIds -> HARD_FAIL_STATUSES \cup WARN_STATUSES \cup SUCCESS_STATUSES
                              \cup {"none", "planned_fast_forward"}]
    /\ moved \subseteq RepoIds
    /\ lost \in [RepoIds -> SUBSET Paths]
    /\ since \in [RepoIds -> SUBSET {"created", "committed", "fetched", "rewound"}]
    /\ events \in 0 .. MaxEvents

\* runner.py:690: when the plan of one repository fails hard, no repository of
\* the job is moved, whatever its place in the order.
PlanFailureMovesNothing ==
    /\ moved # {} =>
          \A r \in RepoIds : status[r] \in HARD_FAIL_STATUSES => status[r] \in ApplyFailures
    /\ pc \in {"recheck", "merge"} => \A r \in repo .. Repos : status[r] \notin HARD_FAIL_STATUSES

\* repo_sync.py:316, runner.py:754: a job that goes on to scan sees, in every
\* repository it did not skip, at least the commit that its fetch found upstream,
\* unless the branch was overwritten and fetched again by somebody else.
ScanIsFresh ==
    pc = "scan" =>
        \A r \in RepoIds :
            \/ status[r] = "skipped" \/ "rewound" \in since[r]
            \/ IsAncestor(fetched[r], head[r])

\* repo_sync.py:372: an untracked file, ignored or not, is only overwritten, also by
\* a merge that is killed, when it came after the untracked files were listed, or
\* somebody fetched after the job's fetch, or committed after the race guard.
LocalFilesKept ==
    \A r \in RepoIds : lost[r] # {} => since[r] \cap {"created", "fetched", "committed"} # {}

\* repo_sync.py:507: a repository reported as fast-forwarded was moved by the
\* job, unless its upstream was fetched again after the plan or it was
\* committed to after the race guard.
ChangedIsChanged ==
    \A r \in RepoIds :
        status[r] = "fast_forwarded" /\ r \notin moved =>
            since[r] \cap {"fetched", "committed"} # {}
===============================================================================
