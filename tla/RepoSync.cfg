\* The pre-pull of two repositories while others edit, commit, push and fetch and commands fail: a plan that fails moves nothing, a job that scans has what it fetched, files that were there at the check are kept, and a reported fast-forward happened.
SPECIFICATION Spec

CONSTANTS
    base = base
    next = next
    tip = tip
    mine = mine
    a = a
    b = b
    Repos = 2
    Commits = {base, next, tip, mine}
    Checkouts = {base, next}
    Ancestors <- MCAncestors
    Paths = {a, b}
    Version <- MCVersion
    Ignored = {b}
    None = None
    MaxEvents = 2

INVARIANTS
    TypeOK
    PlanFailureMovesNothing
    ScanIsFresh
    LocalFilesKept
    ChangedIsChanged

\* The job ends with its scan or its failure.
CHECK_DEADLOCK FALSE
