----------------------------- MODULE RepoSyncProofs -----------------------------
(***************************************************************************)
(* Safety of the pre-pull for every number of repositories and every       *)
(* history without cycles.  What the merge of a repository does depends on *)
(* what its plan saw, several commands and repositories earlier: IInv says *)
(* what is still true of that.                                             *)
(***************************************************************************)
EXTENDS RepoSync, TLAPS

Applying == {"recheck", "merge"}
Fresh == {"up_to_date", "local_ahead", "fast_forwarded"}

\* Which statuses there are, wherever the job is.
PlaceInv ==
    /\ pc \in Planning =>
          moved = {} /\ \A r \in RepoIds : status[r] = "none" <=> r >= repo
    /\ pc \in Planning \ {"head", "status", "fetch"} => fetched[repo] # None
    /\ pc \in Applying =>
          \A r \in RepoIds :
              /\ status[r] # "none"
              /\ status[r] \in HARD_FAIL_STATUSES => r < repo /\ status[r] \in ApplyFailures
              /\ r < repo => status[r] # "planned_fast_forward"
    /\ pc = "merge" => status[repo] = "planned_fast_forward"
    /\ pc = "scan" =>
          \A r \in RepoIds :
              status[r] \notin HARD_FAIL_STATUSES \cup {"none", "planned_fast_forward"}
    /\ pc = "failed" /\ moved # {} =>
          \A r \in RepoIds : status[r] \in HARD_FAIL_STATUSES => status[r] \in ApplyFailures

\* Branches only grow: the HEAD that was noted is in today's, and what was fetched
\* in today's upstream, unless that was rewound.
GrowthInv ==
    \A r \in RepoIds :
        /\ before[r] # None => IsAncestor(before[r], head[r])
        /\ fetched[r] # None =>
              "rewound" \in since[r] \/ IsAncestor(fetched[r], tracking[r])

\* A repository that is said to be fresh holds what was fetched.
FreshInv ==
    \A r \in RepoIds :
        /\ status[r] = "planned_fast_forward" => fetched[r] # None
        /\ status[r] \in Fresh =>
              /\ fetched[r] # None
              /\ "rewound" \in since[r] \/ IsAncestor(fetched[r], head[r])

\* There is something to merge, as long as nobody fetches again.
SomethingNew(r) ==
    "fetched" \notin since[r] /\ before[r] # None => ~ IsAncestor(tracking[r], before[r])

\* A commit that HEAD was at since it was noted.
Passed(r, h) == IsAncestor(before[r], h) /\ IsAncestor(h, head[r])

\* What the diff answered is what a commit passed and the upstream differ in.
Compared(r) ==
    "fetched" \notin since[r] /\ before[r] # None =>
        \E h \in Commits : Passed(r, h) /\ changed = Diff(h, tracking[r])

\* No untracked file is in the way of what was planned.
Unobstructed(r) ==
    \E h \in Commits : Passed(r, h) /\ loose[r] \cap Diff(h, tracking[r]) = {}
Clear(r) ==
    since[r] \cap {"created", "fetched"} = {} /\ before[r] # None => Unobstructed(r)

PlannedInv ==
    /\ pc \in {"diff", "untracked"} => SomethingNew(repo)
    /\ pc = "untracked" => Compared(repo)
    /\ \A r \in RepoIds :
          status[r] = "planned_fast_forward" => SomethingNew(r) /\ Clear(r)
    /\ pc = "merge" /\ "committed" \notin since[repo] => head[repo] = before[repo]

LostInv ==
    \A r \in RepoIds : lost[r] # {} => status[r] \in {"fast_forwarded", "merge_failed"}

IInv ==
    /\ TypeOK
    /\ PlaceInv
    /\ GrowthInv
    /\ FreshInv
    /\ PlannedInv
    /\ LostInv
    /\ LocalFilesKept
    /\ ChangedIsChanged

-----------------------------------------------------------------------------
USE DEF vars, gitVars, jobVars, RepoIds, Planning, Applying, Fresh
USE DEF HARD_FAIL_STATUSES, WARN_STATUSES, SUCCESS_STATUSES, ApplyFailures

\* Being an ancestor is a partial order.
LEMMA History ==
    ASSUME NEW c \in Commits, NEW d \in Commits, NEW e \in Commits
    PROVE  /\ IsAncestor(c, c)
           /\ IsAncestor(c, d) /\ IsAncestor(d, e) => IsAncestor(c, e)
           /\ IsAncestor(c, d) /\ IsAncestor(d, c) => c = d
BY HistoryAssumption DEF IsAncestor

LEMMA InitIInv == Init => IInv
<1>1. SUFFICES ASSUME Init PROVE IInv
  OBVIOUS
<1>2. TypeOK
  <2>1. /\ head \in [RepoIds -> Commits] /\ tracking \in [RepoIds -> Commits]
        /\ remote \in [RepoIds -> Commits]
    BY <1>1, ConstantAssumption DEF Init
  <2>2. repo \in RepoIds /\ events \in 0 .. MaxEvents
    BY <1>1, ConstantAssumption DEF Init
  <2>3. QED BY <1>1, <2>1, <2>2 DEF Init, TypeOK
<1>3. PlaceInv /\ GrowthInv /\ FreshInv
  BY <1>1 DEF Init, PlaceInv, GrowthInv, FreshInv
<1>4. PlannedInv /\ LostInv /\ LocalFilesKept /\ ChangedIsChanged
  BY <1>1 DEF Init, PlannedInv, LostInv, LocalFilesKept, ChangedIsChanged
<1>5. QED BY <1>2, <1>3, <1>4 DEF IInv

-----------------------------------------------------------------------------
(* The plan *)

\* The plan of a repository ends; it says fresh, or planned, with reason.
LEMMA PlannedStep ==
    ASSUME IInv, pc \in Planning,
           NEW s \in HARD_FAIL_STATUSES
                     \cup {"skipped", "local_ahead", "up_to_date", "planned_fast_forward"},
           Planned(s),
           UNCHANGED <<gitVars, before, fetched, moved, lost, events>>,
           since' \in [RepoIds -> SUBSET {"created", "committed", "fetched", "rewound"}],
           \A r \in RepoIds : r # repo => since'[r] = since[r],
           since'[repo] \in {since[repo], since[repo] \ {"created"}},
           s \in Fresh \cup {"planned_fast_forward"} => fetched[repo] # None,
           s \in Fresh => "rewound" \in since[repo] \/ IsAncestor(fetched[repo], head[repo]),
           s = "planned_fast_forward" =>
              /\ SomethingNew(repo)
              /\ "fetched" \notin since[repo] /\ before[repo] # None => Unobstructed(repo)
    PROVE  IInv'
<1>1. /\ repo \in 1 .. Repos /\ status'[repo] = s
      /\ \A r \in RepoIds : r # repo => status'[r] = status[r]
      /\ lost[repo] = {}
      /\ \A r \in RepoIds : \A w \in {"fetched", "rewound", "committed"} :
            w \in since'[r] <=> w \in since[r]
  BY DEF IInv, TypeOK, Planned, PlaceInv, LostInv
<1>2. \/ repo < Repos /\ repo' = repo + 1 /\ pc' = "head"
      \/ repo = Repos /\ repo' = 1 /\ pc' = Begin(s)
  BY <1>1, ConstantAssumption DEF Planned
<1>3. repo' \in RepoIds /\ pc' \in {"head", "recheck", "failed"}
  BY <1>1, <1>2, ConstantAssumption DEF Begin
<1>4. TypeOK'
  <2>1. status' \in [RepoIds -> HARD_FAIL_STATUSES \cup WARN_STATUSES \cup SUCCESS_STATUSES
                                \cup {"none", "planned_fast_forward"}]
    BY DEF IInv, TypeOK, Planned
  <2>2. behind' \in BOOLEAN /\ changed' \subseteq Paths
    BY DEF Planned
  <2>3. QED BY <1>3, <2>1, <2>2 DEF IInv, TypeOK
<1>5. PlaceInv'
  <2>1. CASE pc' = "head"
    BY <1>1, <1>2, <2>1, ConstantAssumption DEF IInv, PlaceInv, Begin
  <2>2. CASE pc' = "recheck"
    <3>1. \A r \in RepoIds : r = repo \/ r < repo
      BY <1>1, <1>2, <2>2
    <3>2. s \notin HARD_FAIL_STATUSES /\ ~ Failed
      BY <1>2, <2>2 DEF Begin
    <3>3. \A r \in RepoIds : status'[r] \notin HARD_FAIL_STATUSES \cup {"none"}
      BY <1>1, <3>1, <3>2 DEF Failed, IInv, PlaceInv
    <3>4. QED BY <1>2, <2>2, <3>3, ConstantAssumption DEF PlaceInv
  <2>3. CASE pc' = "failed"
    BY <2>3 DEF IInv, PlaceInv
  <2>4. QED BY <1>3, <2>1, <2>2, <2>3
<1>6. GrowthInv' /\ LostInv'
  BY <1>1 DEF IInv, GrowthInv, LostInv, PlaceInv, IsAncestor
<1>7. FreshInv'
  BY <1>1 DEF IInv, FreshInv, IsAncestor
<1>8. PlannedInv'
  BY <1>1, <1>3 DEF IInv, PlannedInv, SomethingNew, Clear, Unobstructed, Passed, IsAncestor, Diff
<1>9. LocalFilesKept' /\ ChangedIsChanged'
  BY <1>1 DEF IInv, LocalFilesKept, ChangedIsChanged
<1>10. QED BY <1>4, <1>5, <1>6, <1>7, <1>8, <1>9 DEF IInv

LEMMA SinceType ==
    ASSUME IInv
    PROVE  since \in [RepoIds -> SUBSET {"created", "committed", "fetched", "rewound"}]
BY DEF IInv, TypeOK

\* HEAD is noted where it is.
LEMMA ReadHeadStep == ASSUME IInv, ReadHead PROVE IInv'
<1>1. CASE Planned("skipped") /\ UNCHANGED before
  BY <1>1, PlannedStep, SinceType DEF ReadHead
<1>2. ASSUME pc' = "status", UNCHANGED <<repo, status, behind, changed>>,
             NEW c \in {head[repo], None}, before' = [before EXCEPT ![repo] = c]
      PROVE  IInv'
  <2>1. /\ pc = "head" /\ repo \in RepoIds /\ status[repo] = "none"
        /\ UNCHANGED <<gitVars, fetched, moved, lost, since, events>>
        /\ before'[repo] = c /\ \A r \in RepoIds : r # repo => before'[r] = before[r]
        /\ c \in Commits \cup {None}
    BY <1>2 DEF ReadHead, IInv, TypeOK, PlaceInv
  <2>2. TypeOK'
    BY <1>2, <2>1 DEF IInv, TypeOK
  <2>3. PlaceInv' /\ FreshInv' /\ LostInv' /\ LocalFilesKept' /\ ChangedIsChanged'
    BY <1>2, <2>1
       DEF IInv, PlaceInv, FreshInv, LostInv, LocalFilesKept, ChangedIsChanged, IsAncestor
  <2>4. GrowthInv'
    BY <2>1, History DEF IInv, TypeOK, GrowthInv, IsAncestor
  <2>5. PlannedInv'
    <3>1. \A r \in RepoIds : status[r] = "planned_fast_forward" => r # repo
      BY <2>1
    <3>2. QED BY <1>2, <2>1, <3>1
              DEF IInv, PlannedInv, SomethingNew, Clear, Unobstructed, Passed, IsAncestor, Diff
  <2>6. QED BY <2>2, <2>3, <2>4, <2>5 DEF IInv
<1>3. QED BY <1>1, <1>2 DEF ReadHead

\* Commands that only look, and the plan goes on.
LEMMA LookStep ==
    ASSUME IInv, <<pc, pc'>> \in {<<"status", "fetch">>, <<"behind", "ahead">>,
                                  <<"ahead", "diff">>, <<"diff", "untracked">>},
           UNCHANGED <<gitVars, repo, before, fetched, status, moved, lost, since, events>>,
           behind' \in BOOLEAN, changed' \subseteq Paths,
           pc' = "diff" => SomethingNew(repo),
           pc' = "untracked" => Compared(repo)'
    PROVE  IInv'
<1>1. pc \in Planning \ {"head", "fetch"} /\ pc' \in Planning \ {"head", "status"}
      /\ (pc = "status" <=> pc' = "fetch") /\ (pc = "diff" <=> pc' = "untracked")
  OBVIOUS
<1>2. TypeOK'
  BY <1>1 DEF IInv, TypeOK
<1>3. PlaceInv' /\ GrowthInv' /\ FreshInv' /\ LostInv' /\ LocalFilesKept' /\ ChangedIsChanged'
  BY <1>1
     DEF IInv, PlaceInv, GrowthInv, FreshInv, LostInv, LocalFilesKept, ChangedIsChanged,
         IsAncestor
<1>4. PlannedInv'
  BY <1>1 DEF IInv, PlannedInv, SomethingNew, Clear, Unobstructed, Passed, IsAncestor, Diff
<1>5. QED BY <1>2, <1>3, <1>4 DEF IInv

LEMMA CheckStatusStep == ASSUME IInv, CheckStatus PROVE IInv'
<1>1. CASE Planned("dirty") \/ Planned("skipped")
  BY <1>1, PlannedStep, SinceType DEF CheckStatus
<1>2. CASE pc' = "fetch" /\ UNCHANGED <<repo, status, behind, changed>>
  BY <1>2, LookStep DEF CheckStatus, IInv, TypeOK
<1>3. QED BY <1>1, <1>2 DEF CheckStatus

\* What is fetched is upstream now, and nothing has happened since.
LEMMA FetchStep == ASSUME IInv, Fetch PROVE IInv'
<1>1. /\ pc = "fetch" /\ pc' = "behind" /\ repo \in RepoIds /\ status[repo] = "none"
      /\ remote[repo] \in Commits
      /\ tracking'[repo] = remote[repo] /\ fetched'[repo] = remote[repo]
      /\ since'[repo] = {}
      /\ \A r \in RepoIds : r # repo =>
            tracking'[r] = tracking[r] /\ fetched'[r] = fetched[r] /\ since'[r] = since[r]
      /\ UNCHANGED <<head, remote, dirty, loose, repo, before, behind, changed, status,
                     moved, lost, events>>
  BY DEF Fetch, IInv, TypeOK, PlaceInv
<1>2. TypeOK'
  BY <1>1 DEF Fetch, IInv, TypeOK
<1>3. PlaceInv'
  BY <1>1, ConstantAssumption DEF IInv, PlaceInv
<1>4. GrowthInv'
  BY <1>1, History DEF IInv, GrowthInv, IsAncestor
<1>5. FreshInv' /\ LostInv' /\ LocalFilesKept' /\ ChangedIsChanged'
  BY <1>1 DEF IInv, FreshInv, LostInv, LocalFilesKept, ChangedIsChanged, IsAncestor
<1>6. PlannedInv'
  BY <1>1 DEF IInv, PlannedInv, SomethingNew, Clear, Unobstructed, Passed, IsAncestor, Diff
<1>7. QED BY <1>2, <1>3, <1>4, <1>5, <1>6 DEF IInv

\* By the noted HEAD being in today's: what was fetched and is not in today's HEAD
\* was not in the noted one either.
LEMMA CheckAheadStep == ASSUME IInv, CheckAhead PROVE IInv'
<1> DEFINE isAhead == IsAncestor(tracking[repo], head[repo])
           s == Classify(behind, isAhead)
<1>1. /\ pc = "ahead" /\ repo \in RepoIds /\ fetched[repo] # None
      /\ UNCHANGED <<gitVars, before, fetched, moved, lost, since, events>>
      /\ head[repo] \in Commits /\ tracking[repo] \in Commits
      /\ fetched[repo] \in Commits /\ before[repo] \in Commits \cup {None}
      /\ behind \in BOOLEAN /\ isAhead \in BOOLEAN
  BY DEF CheckAhead, IInv, TypeOK, PlaceInv, IsAncestor
<1>2. /\ s \in {"up_to_date", "local_ahead", "diverged", "planned_fast_forward"}
      /\ s \in Fresh => isAhead
      /\ s = "planned_fast_forward" => ~ isAhead
  <2>1. CASE behind /\ isAhead
    BY <2>1 DEF Classify
  <2>2. CASE ~ behind /\ isAhead
    BY <2>2 DEF Classify
  <2>3. CASE ~ behind /\ ~ isAhead
    BY <2>3 DEF Classify
  <2>4. CASE behind /\ ~ isAhead
    BY <2>4 DEF Classify
  <2>5. QED BY <1>1, <2>1, <2>2, <2>3, <2>4
<1>3. isAhead => "rewound" \in since[repo] \/ IsAncestor(fetched[repo], head[repo])
  BY <1>1, History DEF IInv, GrowthInv
<1>4. ~ isAhead => SomethingNew(repo)
  BY <1>1, History DEF IInv, GrowthInv, SomethingNew
<1>5. CASE s = "planned_fast_forward"
  <2>1. pc' = "diff" /\ UNCHANGED <<repo, status, behind, changed>>
    BY <1>5 DEF CheckAhead
  <2>2. QED BY <1>1, <1>2, <1>4, <1>5, <2>1, LookStep DEF IInv, TypeOK
<1>6. CASE s # "planned_fast_forward"
  <2>1. Planned(s)
    BY <1>6 DEF CheckAhead
  <2>2. QED BY <1>1, <1>2, <1>3, <1>6, <2>1, PlannedStep, SinceType
<1>7. QED BY <1>5, <1>6

\* The diff is of a commit that HEAD passed.
LEMMA ListChangedStep == ASSUME IInv, ListChanged PROVE IInv'
<1>1. /\ pc = "diff" /\ pc' = "untracked" /\ repo \in RepoIds /\ head[repo] \in Commits
      /\ UNCHANGED <<gitVars, repo, before, fetched, behind, status, moved, lost, since, events>>
      /\ changed' = Diff(head[repo], tracking[repo])
  BY DEF ListChanged, IInv, TypeOK
<1>2. before[repo] # None => Passed(repo, head[repo])
  BY <1>1, History DEF IInv, GrowthInv, Passed
<1>3. Compared(repo)'
  BY <1>1, <1>2 DEF Compared, Passed, IsAncestor, Diff
<1>4. changed' \subseteq Paths
  BY <1>1 DEF Diff
<1>5. QED BY <1>1, <1>3, <1>4, LookStep DEF IInv, TypeOK

\* The listing sees what is there now, whenever it was created.
LEMMA ListUntrackedStep == ASSUME IInv, ListUntracked PROVE IInv'
<1>1. /\ pc = "untracked" /\ repo \in RepoIds /\ fetched[repo] # None
      /\ SomethingNew(repo) /\ Compared(repo)
  BY DEF ListUntracked, IInv, TypeOK, PlaceInv, PlannedInv
<1>2. /\ UNCHANGED <<gitVars, before, fetched, moved, lost, events>>
      /\ since'[repo] = since[repo] \ {"created"}
      /\ \A r \in RepoIds : r # repo => since'[r] = since[r]
      /\ since' \in [RepoIds -> SUBSET {"created", "committed", "fetched", "rewound"}]
  BY DEF ListUntracked, IInv, TypeOK
<1>3. Collisions(repo) = {} /\ "fetched" \notin since[repo] /\ before[repo] # None
          => Unobstructed(repo)
  BY <1>1 DEF Collisions, Compared, Unobstructed
<1>4. CASE Collisions(repo) = {}
  BY <1>1, <1>2, <1>3, <1>4, PlannedStep DEF ListUntracked
<1>5. CASE Collisions(repo) # {}
  BY <1>1, <1>2, <1>5, PlannedStep DEF ListUntracked
<1>6. QED BY <1>4, <1>5

LEMMA PlanStep == ASSUME IInv, CheckBehind \/ PlanFails PROVE IInv'
<1>1. CASE CheckBehind
  BY <1>1, LookStep DEF CheckBehind, IInv, TypeOK, IsAncestor
<1>2. CASE PlanFails
  <2>1. PICK s \in {"fetch_failed", "error"} : Planned(s)
    BY <1>2 DEF PlanFails
  <2>2. QED BY <1>2, <2>1, PlannedStep, SinceType DEF PlanFails
<1>3. QED BY <1>1, <1>2

-----------------------------------------------------------------------------
(* The apply phase *)

\* One repository has its final status; nothing else is said of the others.
LEMMA AppliedPlace ==
    ASSUME IInv, pc \in Applying,
           NEW s \in HARD_FAIL_STATUSES \cup WARN_STATUSES \cup SUCCESS_STATUSES,
           s \in HARD_FAIL_STATUSES => s \in ApplyFailures,
           Applied(s)
    PROVE  /\ PlaceInv'
           /\ repo \in RepoIds /\ repo' \in RepoIds /\ pc' \in {"recheck", "scan", "failed"}
           /\ status'[repo] = s /\ \A r \in RepoIds : r # repo => status'[r] = status[r]
           /\ status' \in [RepoIds -> HARD_FAIL_STATUSES \cup WARN_STATUSES
                              \cup SUCCESS_STATUSES \cup {"none", "planned_fast_forward"}]
<1>1. /\ repo \in 1 .. Repos /\ status'[repo] = s
      /\ \A r \in RepoIds : r # repo => status'[r] = status[r]
      /\ status' \in [RepoIds -> HARD_FAIL_STATUSES \cup WARN_STATUSES
                         \cup SUCCESS_STATUSES \cup {"none", "planned_fast_forward"}]
  BY DEF IInv, TypeOK, Applied
<1>2. \/ repo < Repos /\ repo' = repo + 1 /\ pc' = "recheck"
      \/ repo = Repos /\ repo' = 1 /\ pc' = Finish(s)
  BY <1>1, ConstantAssumption DEF Applied
<1>3. repo' \in RepoIds /\ pc' \in {"recheck", "scan", "failed"}
  BY <1>1, <1>2, ConstantAssumption DEF Finish
<1>4. PlaceInv'
  <2>1. CASE pc' = "recheck"
    BY <1>1, <1>2, <2>1, ConstantAssumption DEF IInv, PlaceInv, Finish
  <2>2. CASE pc' \in {"scan", "failed"}
    <3>1. repo = Repos /\ pc' = Finish(s)
      BY <1>2, <2>2
    <3>2. \A r \in RepoIds : r = repo \/ r < repo
      BY <1>1, <3>1, ConstantAssumption
    <3>3. pc' = "scan" => s \notin HARD_FAIL_STATUSES /\ ~ Failed
      BY <3>1 DEF Finish
    <3>4. pc' = "scan" => \A r \in RepoIds :
              status'[r] \notin HARD_FAIL_STATUSES \cup {"none", "planned_fast_forward"}
      BY <1>1, <3>2, <3>3 DEF Failed, IInv, PlaceInv
    <3>5. \A r \in RepoIds : status'[r] \in HARD_FAIL_STATUSES => status'[r] \in ApplyFailures
      BY <1>1 DEF IInv, PlaceInv
    <3>6. QED BY <2>2, <3>4, <3>5 DEF PlaceInv
  <2>3. QED BY <1>3, <2>1, <2>2
<1>5. QED BY <1>1, <1>3, <1>4

\* A final status that moves nothing; a success has its reason.
LEMMA AppliedStep ==
    ASSUME IInv, pc \in Applying,
           NEW s \in HARD_FAIL_STATUSES \cup WARN_STATUSES \cup SUCCESS_STATUSES,
           s \in HARD_FAIL_STATUSES => s \in ApplyFailures,
           Applied(s),
           UNCHANGED <<gitVars, before, fetched, behind, changed, moved, lost, events>>,
           \A r \in RepoIds : r # repo => since'[r] = since[r],
           since' \in [RepoIds -> SUBSET {"created", "committed", "fetched", "rewound"}],
           since' = since \/ (status[repo] = "planned_fast_forward" /\ s \notin Fresh),
           s = status[repo]
             \/ /\ lost[repo] = {}
                /\ s \in Fresh =>
                      /\ fetched[repo] # None /\ s = "fast_forwarded"
                      /\ "rewound" \in since[repo] \/ IsAncestor(fetched[repo], head[repo])
                      /\ since[repo] \cap {"fetched", "committed"} # {},
           "rewound" \in since'[repo] <=> "rewound" \in since[repo]
    PROVE  IInv'
<1>1. /\ PlaceInv' /\ repo \in RepoIds /\ repo' \in RepoIds
      /\ pc' \in {"recheck", "scan", "failed"}
      /\ status'[repo] = s /\ \A r \in RepoIds : r # repo => status'[r] = status[r]
      /\ status' \in [RepoIds -> HARD_FAIL_STATUSES \cup WARN_STATUSES
                         \cup SUCCESS_STATUSES \cup {"none", "planned_fast_forward"}]
  BY AppliedPlace
<1>2. TypeOK'
  BY <1>1 DEF IInv, TypeOK
<1>3. GrowthInv'
  BY <1>1 DEF IInv, GrowthInv, IsAncestor
<1>4. FreshInv' /\ LostInv'
  BY <1>1 DEF IInv, FreshInv, LostInv, IsAncestor
<1>5. PlannedInv'
  BY <1>1 DEF IInv, PlannedInv, SomethingNew, Clear, Unobstructed, Passed, IsAncestor, Diff
<1>6. LocalFilesKept'
  BY <1>1 DEF IInv, LostInv, LocalFilesKept
<1>7. ChangedIsChanged'
  BY <1>1 DEF IInv, ChangedIsChanged
<1>8. QED BY <1>1, <1>2, <1>3, <1>4, <1>5, <1>6, <1>7 DEF IInv

LEMMA CarryStep == ASSUME IInv, Carry PROVE IInv'
<1>1. /\ pc = "recheck" /\ repo \in RepoIds /\ Applied(status[repo])
      /\ status[repo] \in HARD_FAIL_STATUSES \cup WARN_STATUSES \cup SUCCESS_STATUSES
      /\ status[repo] \notin HARD_FAIL_STATUSES
  BY DEF Carry, IInv, TypeOK, PlaceInv
<1>2. UNCHANGED <<gitVars, before, fetched, behind, changed, moved, lost, since, events>>
  BY DEF Carry
<1>3. since \in [RepoIds -> SUBSET {"created", "committed", "fetched", "rewound"}]
  BY DEF IInv, TypeOK
<1>4. QED BY <1>1, <1>2, <1>3, AppliedStep

\* The race guard: from here on HEAD is the one that was noted, until somebody
\* commits (repo_sync.py:491).
LEMMA RecheckStep == ASSUME IInv, Recheck PROVE IInv'
<1>1. /\ pc = "recheck" /\ repo \in RepoIds /\ status[repo] = "planned_fast_forward"
      /\ lost[repo] = {}
      /\ since'[repo] = since[repo] \ {"committed"}
      /\ \A r \in RepoIds : r # repo => since'[r] = since[r]
      /\ since' \in [RepoIds -> SUBSET {"created", "committed", "fetched", "rewound"}]
      /\ UNCHANGED <<gitVars, before, fetched, behind, changed, moved, lost, events>>
  BY DEF Recheck, IInv, TypeOK, LostInv
<1>2. CASE ~ HeadIsPlanned(repo)
  <2>1. Applied("head_changed")
    BY <1>2 DEF Recheck
  <2>2. QED BY <1>1, <2>1, AppliedStep
<1>3. CASE HeadIsPlanned(repo)
  <2>1. pc' = "merge" /\ UNCHANGED <<repo, status>> /\ head[repo] = before[repo]
    BY <1>3 DEF Recheck, HeadIsPlanned
  <2>2. TypeOK' /\ PlaceInv'
    BY <1>1, <2>1 DEF IInv, TypeOK, PlaceInv
  <2>3. GrowthInv' /\ FreshInv' /\ LostInv'
    BY <1>1, <2>1 DEF IInv, GrowthInv, FreshInv, LostInv, IsAncestor
  <2>4. PlannedInv'
    BY <1>1, <2>1 DEF IInv, PlannedInv, SomethingNew, Clear, Unobstructed, Passed, IsAncestor, Diff
  <2>5. LocalFilesKept' /\ ChangedIsChanged'
    BY <1>1, <2>1 DEF IInv, LocalFilesKept, ChangedIsChanged
  <2>6. QED BY <2>2, <2>3, <2>4, <2>5 DEF IInv
<1>4. QED BY <1>2, <1>3

\* Nothing to merge, though the plan found something: HEAD or the upstream is
\* another (repo_sync.py:507).
LEMMA MergeNothingStep == ASSUME IInv, MergeNothing PROVE IInv'
<1>1. /\ pc = "merge" /\ repo \in RepoIds /\ status[repo] = "planned_fast_forward"
      /\ lost[repo] = {} /\ fetched[repo] # None /\ Applied("fast_forwarded")
      /\ IsAncestor(tracking[repo], head[repo])
      /\ tracking[repo] \in Commits /\ head[repo] \in Commits
      /\ fetched[repo] \in Commits
      /\ since \in [RepoIds -> SUBSET {"created", "committed", "fetched", "rewound"}]
      /\ UNCHANGED <<gitVars, before, fetched, behind, changed, moved, lost, since, events>>
  BY DEF MergeNothing, IInv, TypeOK, PlaceInv, LostInv, FreshInv
<1>2. "rewound" \in since[repo] \/ IsAncestor(fetched[repo], head[repo])
  BY <1>1, History DEF IInv, GrowthInv
<1>3. since[repo] \cap {"fetched", "committed"} # {}
  BY <1>1, ConstantAssumption DEF IInv, PlannedInv, SomethingNew
<1>4. QED BY <1>1, <1>2, <1>3, AppliedStep

LEMMA ApplyFailsStep == ASSUME IInv, ApplyFails PROVE IInv'
<1>1. /\ pc \in Applying /\ repo \in RepoIds /\ lost[repo] = {}
      /\ since \in [RepoIds -> SUBSET {"created", "committed", "fetched", "rewound"}]
      /\ UNCHANGED <<gitVars, before, fetched, behind, changed, moved, lost, since, events>>
  BY DEF ApplyFails, IInv, TypeOK, LostInv
<1>2. PICK s \in {"merge_failed", "error"} : Applied(s)
  BY DEF ApplyFails
<1>3. QED BY <1>1, <1>2, AppliedStep

\* What a merge overwrites was not there when the plan listed it, unless somebody
\* fetched or committed: HEAD is the commit noted, so it is also the one that was
\* compared (repo_sync.py:372).
LEMMA OverwritesTheNew ==
    ASSUME IInv, pc = "merge", since[repo] \cap {"created", "fetched", "committed"} = {}
    PROVE  loose[repo] \cap Incoming(repo) = {}
<1>1. /\ repo \in RepoIds /\ status[repo] = "planned_fast_forward"
      /\ head[repo] \in Commits
  BY DEF IInv, TypeOK, PlaceInv
<1>2. head[repo] = before[repo] /\ before[repo] # None /\ Clear(repo)
  BY <1>1, ConstantAssumption DEF IInv, PlannedInv
<1>3. PICK h \in Commits :
          Passed(repo, h) /\ loose[repo] \cap Diff(h, tracking[repo]) = {}
  BY <1>2 DEF Clear, Unobstructed
<1>4. h = head[repo]
  BY <1>1, <1>2, <1>3, History DEF Passed
<1>5. QED BY <1>3, <1>4 DEF Incoming

\* HEAD moves to the upstream.
LEMMA MergeStep == ASSUME IInv, Merge PROVE IInv'
<1>0. PICK s \in {"fast_forwarded", "merge_failed"} : Applied(s)
  BY DEF Merge
<1>1. /\ pc = "merge" /\ repo \in RepoIds /\ status[repo] = "planned_fast_forward"
      /\ lost[repo] = {} /\ fetched[repo] # None
      /\ IsAncestor(head[repo], tracking[repo])
      /\ tracking[repo] \in Commits /\ head[repo] \in Commits
      /\ fetched[repo] \in Commits /\ before[repo] \in Commits \cup {None}
      /\ head'[repo] = tracking[repo] /\ loose'[repo] = loose[repo] \ Incoming(repo)
      /\ lost'[repo] = loose[repo] \cap Incoming(repo)
      /\ moved' = moved \cup {repo}
      /\ \A r \in RepoIds : r # repo =>
            head'[r] = head[r] /\ loose'[r] = loose[r] /\ lost'[r] = lost[r]
      /\ UNCHANGED <<tracking, remote, dirty, before, fetched, behind, changed, since, events>>
  BY DEF Merge, Mergeable, IInv, TypeOK, PlaceInv, LostInv, FreshInv
<1>2. /\ PlaceInv' /\ repo' \in RepoIds /\ pc' \in {"recheck", "scan", "failed"}
      /\ status'[repo] = s
      /\ \A r \in RepoIds : r # repo => status'[r] = status[r]
      /\ status' \in [RepoIds -> HARD_FAIL_STATUSES \cup WARN_STATUSES
                         \cup SUCCESS_STATUSES \cup {"none", "planned_fast_forward"}]
  BY <1>0, <1>1, AppliedPlace
<1>3. TypeOK'
  <2>1. /\ head' \in [RepoIds -> Commits] /\ loose' \in [RepoIds -> SUBSET Paths]
        /\ lost' \in [RepoIds -> SUBSET Paths] /\ moved' \subseteq RepoIds
    BY <1>1 DEF Merge, IInv, TypeOK
  <2>2. QED BY <1>1, <1>2, <2>1 DEF IInv, TypeOK
<1>4. GrowthInv'
  <2>1. before[repo] # None => IsAncestor(before[repo], tracking[repo])
    BY <1>1, History DEF IInv, GrowthInv
  <2>2. QED BY <1>1, <2>1 DEF IInv, GrowthInv, IsAncestor
<1>5. FreshInv' /\ LostInv'
  BY <1>1, <1>2 DEF IInv, FreshInv, LostInv, GrowthInv, IsAncestor
<1>6. PlannedInv'
  BY <1>1, <1>2
     DEF IInv, PlannedInv, SomethingNew, Clear, Unobstructed, Passed, IsAncestor, Diff
<1>7. since[repo] \cap {"created", "fetched", "committed"} = {} => lost'[repo] = {}
  BY <1>1, OverwritesTheNew
<1>8. LocalFilesKept' /\ ChangedIsChanged'
  BY <1>1, <1>2, <1>7 DEF IInv, LocalFilesKept, ChangedIsChanged
<1>9. QED BY <1>2, <1>3, <1>4, <1>5, <1>6, <1>8 DEF IInv

\* A merge that is killed writes files, and is reported as failed.
LEMMA MergeKilledStep == ASSUME IInv, MergeKilled PROVE IInv'
<1>1. /\ pc = "merge" /\ repo \in RepoIds /\ status[repo] = "planned_fast_forward"
      /\ lost[repo] = {} /\ Applied("merge_failed")
      /\ lost'[repo] \subseteq loose[repo] \cap Incoming(repo)
      /\ dirty' \in [RepoIds -> SUBSET Paths] /\ loose' \in [RepoIds -> SUBSET Paths]
      /\ lost' \in [RepoIds -> SUBSET Paths]
      /\ \A r \in RepoIds : r # repo => loose'[r] = loose[r] /\ lost'[r] = lost[r]
      /\ UNCHANGED <<head, tracking, remote, before, fetched, behind, changed, moved, since,
                     events>>
  BY DEF MergeKilled, Incoming, Diff, IInv, TypeOK, PlaceInv, LostInv
<1>2. /\ PlaceInv' /\ repo' \in RepoIds /\ pc' \in {"recheck", "scan", "failed"}
      /\ status'[repo] = "merge_failed"
      /\ \A r \in RepoIds : r # repo => status'[r] = status[r]
      /\ status' \in [RepoIds -> HARD_FAIL_STATUSES \cup WARN_STATUSES
                         \cup SUCCESS_STATUSES \cup {"none", "planned_fast_forward"}]
  BY <1>1, AppliedPlace
<1>3. TypeOK'
  BY <1>1, <1>2 DEF IInv, TypeOK
<1>4. GrowthInv' /\ FreshInv' /\ LostInv'
  BY <1>1, <1>2 DEF IInv, GrowthInv, FreshInv, LostInv, IsAncestor
<1>5. PlannedInv'
  BY <1>1, <1>2
     DEF IInv, PlannedInv, SomethingNew, Clear, Unobstructed, Passed, IsAncestor, Diff
<1>6. since[repo] \cap {"created", "fetched", "committed"} = {} => lost'[repo] = {}
  BY <1>1, OverwritesTheNew
<1>7. LocalFilesKept' /\ ChangedIsChanged'
  BY <1>1, <1>2, <1>6 DEF IInv, LocalFilesKept, ChangedIsChanged
<1>8. QED BY <1>2, <1>3, <1>4, <1>5, <1>7 DEF IInv

-----------------------------------------------------------------------------
(* The others *)

\* What others do is noted in since, which only grows, and leaves the job alone.
LEMMA EventFacts ==
    ASSUME IInv, NEW r \in RepoIds,
           NEW what \in SUBSET {"created", "committed", "fetched", "rewound"},
           Event(r, what)
    PROVE  /\ UNCHANGED <<pc, repo, before, fetched, behind, changed, status, moved, lost>>
           /\ since'[r] = since[r] \cup what
           /\ \A q \in RepoIds : q # r => since'[q] = since[q]
           /\ since' \in [RepoIds -> SUBSET {"created", "committed", "fetched", "rewound"}]
           /\ events' \in 0 .. MaxEvents
           /\ PlaceInv' /\ LostInv' /\ LocalFilesKept' /\ ChangedIsChanged'
<1>1. /\ UNCHANGED <<pc, repo, before, fetched, behind, changed, status, moved, lost>>
      /\ since'[r] = since[r] \cup what
      /\ \A q \in RepoIds : q # r => since'[q] = since[q]
      /\ since' \in [RepoIds -> SUBSET {"created", "committed", "fetched", "rewound"}]
  BY DEF Event, IInv, TypeOK
<1>2. events' \in 0 .. MaxEvents
  BY ConstantAssumption DEF Event, IInv, TypeOK
<1>3. PlaceInv' /\ LostInv'
  BY <1>1 DEF IInv, PlaceInv, LostInv
<1>4. LocalFilesKept' /\ ChangedIsChanged'
  BY <1>1 DEF IInv, LocalFilesKept, ChangedIsChanged
<1>5. QED BY <1>1, <1>2, <1>3, <1>4

LEMMA FileEventStep ==
    ASSUME IInv, NEW r \in RepoIds,
           \/ \E f \in Paths : Edit(r, f) \/ Create(r, f)
           \/ \E c \in Commits : Push(r, c)
    PROVE  IInv'
<1>1. PICK what \in {{}, {"created"}} :
        /\ Event(r, what)
        /\ what = {} => loose' = loose
        /\ \A q \in RepoIds : q # r => loose'[q] = loose[q]
  BY DEF Edit, Create, Push, IInv, TypeOK
<1>2. /\ UNCHANGED <<pc, repo, before, fetched, behind, changed, status, moved, lost>>
      /\ since'[r] = since[r] \cup what
      /\ \A q \in RepoIds : q # r => since'[q] = since[q]
      /\ since' \in [RepoIds -> SUBSET {"created", "committed", "fetched", "rewound"}]
      /\ events' \in 0 .. MaxEvents
      /\ PlaceInv' /\ LostInv' /\ LocalFilesKept' /\ ChangedIsChanged'
      /\ UNCHANGED <<head, tracking>>
  BY <1>1, EventFacts DEF Edit, Create, Push
<1>3. TypeOK'
  <2>1. remote' \in [RepoIds -> Commits] /\ dirty' \in [RepoIds -> SUBSET Paths]
        /\ loose' \in [RepoIds -> SUBSET Paths]
    BY DEF Edit, Create, Push, IInv, TypeOK
  <2>2. QED BY <1>2, <2>1 DEF IInv, TypeOK
<1>4. GrowthInv' /\ FreshInv'
  BY <1>1, <1>2 DEF IInv, GrowthInv, FreshInv, IsAncestor
<1>5. PlannedInv'
  <2>1. \A q \in RepoIds : SomethingNew(q) => SomethingNew(q)'
    BY <1>1, <1>2 DEF SomethingNew, IsAncestor
  <2>2. \A q \in RepoIds : Clear(q) => Clear(q)'
    BY <1>1, <1>2 DEF Clear, Unobstructed, Passed, IsAncestor, Diff
  <2>3. \A q \in RepoIds : Compared(q) => Compared(q)'
    BY <1>1, <1>2 DEF Compared, Passed, IsAncestor, Diff
  <2>4. repo \in RepoIds
    BY DEF IInv, TypeOK
  <2>5. pc = "merge" /\ "committed" \notin since'[repo] => "committed" \notin since[repo]
    BY <1>1, <1>2, <2>4
  <2>6. QED BY <1>2, <2>1, <2>2, <2>3, <2>4, <2>5 DEF IInv, PlannedInv
<1>6. QED BY <1>2, <1>3, <1>4, <1>5 DEF IInv

\* A commit leaves HEAD where all that it held is held, and no new untracked file.
LEMMA CommitStep ==
    ASSUME IInv, NEW r \in RepoIds, NEW c \in Commits, Commit(r, c)
    PROVE  IInv'
<1>1. /\ UNCHANGED <<pc, repo, before, fetched, behind, changed, status, moved, lost>>
      /\ since'[r] = since[r] \cup {"committed"}
      /\ \A q \in RepoIds : q # r => since'[q] = since[q]
      /\ since' \in [RepoIds -> SUBSET {"created", "committed", "fetched", "rewound"}]
      /\ events' \in 0 .. MaxEvents
      /\ PlaceInv' /\ LostInv' /\ LocalFilesKept' /\ ChangedIsChanged'
      /\ UNCHANGED <<tracking, remote>>
  BY EventFacts DEF Commit
<1>2. /\ head'[r] = c /\ \A q \in RepoIds : q # r => head'[q] = head[q]
      /\ \A q \in RepoIds : loose'[q] \subseteq loose[q]
  BY DEF Commit, IInv, TypeOK
<1>3. \A b \in Commits, q \in RepoIds : IsAncestor(b, head[q]) => IsAncestor(b, head'[q])
  BY <1>2, History DEF Commit, IInv, TypeOK
<1>4. TypeOK'
  <2>1. /\ head' \in [RepoIds -> Commits] /\ dirty' \in [RepoIds -> SUBSET Paths]
        /\ loose' \in [RepoIds -> SUBSET Paths]
    BY DEF Commit, IInv, TypeOK
  <2>2. QED BY <1>1, <2>1 DEF IInv, TypeOK
<1>5. \A q \in RepoIds : /\ before[q] \in Commits \cup {None}
                         /\ fetched[q] \in Commits \cup {None}
  BY DEF IInv, TypeOK
<1>6. GrowthInv' /\ FreshInv'
  <2>1. \A q \in RepoIds : before[q] # None => IsAncestor(before[q], head'[q])
    BY <1>3, <1>5 DEF IInv, GrowthInv
  <2>2. \A q \in RepoIds : status[q] \in Fresh =>
            fetched[q] # None
            /\ ("rewound" \in since[q] \/ IsAncestor(fetched[q], head'[q]))
    BY <1>3, <1>5 DEF IInv, FreshInv
  <2>3. \A q \in RepoIds : "rewound" \in since'[q] <=> "rewound" \in since[q]
    BY <1>1
  <2>4. QED BY <1>1, <2>1, <2>2, <2>3 DEF IInv, GrowthInv, FreshInv, IsAncestor
<1>7. PlannedInv'
  <2>1. \A q \in RepoIds, h \in Commits : before[q] # None /\ Passed(q, h) => Passed(q, h)'
    BY <1>1, <1>3, <1>5 DEF Passed, IsAncestor
  <2>2. \A q \in RepoIds : SomethingNew(q) => SomethingNew(q)'
    BY <1>1 DEF SomethingNew, IsAncestor
  <2>3. \A q \in RepoIds : since'[q] \cap {"created", "fetched"}
                           = since[q] \cap {"created", "fetched"}
    BY <1>1
  <2>4. ASSUME NEW q \in RepoIds, Clear(q) PROVE Clear(q)'
    <3>1. SUFFICES ASSUME since[q] \cap {"created", "fetched"} = {}, before[q] # None
                   PROVE  \E h \in Commits : Passed(q, h)'
                              /\ loose'[q] \cap Diff(h, tracking[q]) = {}
      BY <1>1, <2>3 DEF Clear, Unobstructed, Diff
    <3>2. PICK h \in Commits : Passed(q, h) /\ loose[q] \cap Diff(h, tracking[q]) = {}
      BY <2>4, <3>1 DEF Clear, Unobstructed
    <3>3. QED BY <1>2, <2>1, <3>1, <3>2
  <2>5. ASSUME NEW q \in RepoIds, Compared(q) PROVE Compared(q)'
    BY <1>1, <2>1, <2>3, <2>5 DEF Compared, Diff
  <2>6. repo \in RepoIds
    BY DEF IInv, TypeOK
  <2>7. pc = "merge" /\ "committed" \notin since'[repo] =>
            "committed" \notin since[repo] /\ head'[repo] = head[repo]
    BY <1>1, <1>2, <2>6
  <2>8. QED BY <1>1, <2>2, <2>4, <2>5, <2>6, <2>7 DEF IInv, PlannedInv
<1>8. QED BY <1>1, <1>4, <1>6, <1>7 DEF IInv

\* A fetch of somebody else is noted, and so is a branch that was rewound.
LEMMA OtherFetchStep ==
    ASSUME IInv, NEW r \in RepoIds, OtherFetch(r)
    PROVE  IInv'
<1>1. PICK what \in {{"fetched"}, {"fetched", "rewound"}} :
        /\ Event(r, what)
        /\ "rewound" \in what \/ fetched[r] = None \/ IsAncestor(fetched[r], remote[r])
  BY DEF OtherFetch
<1>2. /\ UNCHANGED <<pc, repo, before, fetched, behind, changed, status, moved, lost>>
      /\ since'[r] = since[r] \cup what
      /\ \A q \in RepoIds : q # r => since'[q] = since[q]
      /\ since' \in [RepoIds -> SUBSET {"created", "committed", "fetched", "rewound"}]
      /\ events' \in 0 .. MaxEvents
      /\ PlaceInv' /\ LostInv' /\ LocalFilesKept' /\ ChangedIsChanged'
  BY <1>1, EventFacts
<1>3. /\ tracking'[r] = remote[r] /\ \A q \in RepoIds : q # r => tracking'[q] = tracking[q]
      /\ UNCHANGED <<head, remote, dirty, loose>>
  BY DEF OtherFetch, IInv, TypeOK
<1>4. TypeOK'
  <2>1. tracking' \in [RepoIds -> Commits]
    BY DEF OtherFetch, IInv, TypeOK
  <2>2. QED BY <1>2, <1>3, <2>1 DEF IInv, TypeOK
<1>5. GrowthInv' /\ FreshInv'
  BY <1>1, <1>2, <1>3 DEF IInv, GrowthInv, FreshInv, IsAncestor
<1>6. PlannedInv'
  <2>1. \A q \in RepoIds : SomethingNew(q) => SomethingNew(q)'
    BY <1>1, <1>2, <1>3 DEF SomethingNew, IsAncestor
  <2>2. \A q \in RepoIds : Clear(q) => Clear(q)'
    BY <1>1, <1>2, <1>3 DEF Clear, Unobstructed, Passed, IsAncestor, Diff
  <2>3. \A q \in RepoIds : Compared(q) => Compared(q)'
    BY <1>1, <1>2, <1>3 DEF Compared, Passed, IsAncestor, Diff
  <2>4. repo \in RepoIds
    BY DEF IInv, TypeOK
  <2>5. "committed" \notin since'[repo] => "committed" \notin since[repo]
    BY <1>1, <1>2, <2>4
  <2>6. QED BY <1>2, <1>3, <2>1, <2>2, <2>3, <2>4, <2>5 DEF IInv, PlannedInv
<1>7. QED BY <1>2, <1>4, <1>5, <1>6 DEF IInv

LEMMA NextIInv == ASSUME IInv, [Next]_vars PROVE IInv'
<1>1. CASE UNCHANGED vars
  <2>1. TypeOK' /\ PlaceInv' /\ LostInv' /\ LocalFilesKept' /\ ChangedIsChanged'
    BY <1>1 DEF IInv, TypeOK, PlaceInv, LostInv, LocalFilesKept, ChangedIsChanged
  <2>2. GrowthInv' /\ FreshInv'
    BY <1>1 DEF IInv, GrowthInv, FreshInv, IsAncestor
  <2>3. PlannedInv'
    BY <1>1 DEF IInv, PlannedInv, SomethingNew, Clear, Unobstructed, Compared, Passed, IsAncestor, Diff
  <2>4. QED BY <2>1, <2>2, <2>3 DEF IInv
<1>2. CASE Job
  BY <1>2, ReadHeadStep, CheckStatusStep, FetchStep, CheckAheadStep, ListChangedStep,
     ListUntrackedStep, PlanStep, CarryStep, RecheckStep, MergeStep, MergeKilledStep,
     MergeNothingStep, ApplyFailsStep DEF Job
<1>3. QED BY <1>1, <1>2, FileEventStep, CommitStep, OtherFetchStep DEF Next

-----------------------------------------------------------------------------
(* Theorems *)

\* The inductive invariant of a job's pre-pull (repo_sync.py, runner.py).
THEOREM Inductive == Spec => []IInv
<1>1. Init => IInv
  BY InitIInv
<1>2. IInv /\ [Next]_vars => IInv'
  BY NextIInv
<1>3. QED BY <1>1, <1>2, PTL DEF Spec

\* Every variable keeps its type.
THEOREM TypeCorrect == Spec => []TypeOK
<1>1. IInv => TypeOK
  BY DEF IInv
<1>2. QED BY <1>1, Inductive, PTL

\* When one plan fails hard nothing is moved, however many repositories there are
\* (_apply_pre_pull, runner.py).
THEOREM FailedPlansMoveNothing == Spec => []PlanFailureMovesNothing
<1>1. ASSUME IInv PROVE PlanFailureMovesNothing
  <2>1. /\ pc \in Planning \cup Applying \cup {"scan", "failed"} /\ repo \in 1 .. Repos
        /\ Repos \in Nat
    BY <1>1, ConstantAssumption DEF IInv, TypeOK
  <2>2. CASE pc \in Applying
    <3>1. \A r \in RepoIds : status[r] \in HARD_FAIL_STATUSES =>
              r < repo /\ status[r] \in ApplyFailures
      BY <1>1, <2>2 DEF IInv, PlaceInv
    <3>2. \A r \in repo .. Repos : r \in RepoIds /\ ~ (r < repo)
      BY <2>1
    <3>3. QED BY <3>1, <3>2 DEF PlanFailureMovesNothing
  <2>3. CASE pc \in Planning \cup {"scan", "failed"}
    BY <1>1, <2>3 DEF IInv, PlaceInv, PlanFailureMovesNothing
  <2>4. QED BY <2>1, <2>2, <2>3
<1>2. QED BY <1>1, Inductive, PTL

\* A job that goes on to scan sees what it fetched (plan_pre_pull_repo,
\* apply_pre_pull_plans).
THEOREM ScansAreFresh == Spec => []ScanIsFresh
<1>1. ASSUME IInv PROVE ScanIsFresh
  <2>1. SUFFICES ASSUME pc = "scan", NEW r \in RepoIds
                 PROVE  \/ status[r] = "skipped" \/ "rewound" \in since[r]
                        \/ IsAncestor(fetched[r], head[r])
    BY DEF ScanIsFresh
  <2>2. status[r] = "skipped" \/ status[r] \in Fresh
    BY <1>1, <2>1 DEF IInv, TypeOK, PlaceInv
  <2>3. QED BY <1>1, <2>2 DEF IInv, FreshInv
<1>2. QED BY <1>1, Inductive, PTL

\* Untracked files are only overwritten when they came after the listing, or somebody
\* else fetched or committed meanwhile (_untracked_overwrite_collisions).
THEOREM LocalFilesAreKept == Spec => []LocalFilesKept
<1>1. IInv => LocalFilesKept
  BY DEF IInv
<1>2. QED BY <1>1, Inductive, PTL

\* A success without a move has a fetch or a commit of somebody else behind it
\* (apply_pre_pull_plans).
THEOREM ChangesAreChanges == Spec => []ChangedIsChanged
<1>1. IInv => ChangedIsChanged
  BY DEF IInv
<1>2. QED BY <1>1, Inductive, PTL
=================================================================================
