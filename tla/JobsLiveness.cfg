\* Three jobs, forced or not, that succeed, fail or are cancelled: under fair scheduling every one ends and every request is answered, reports stay listed and no artifact is orphaned.
SPECIFICATION FairSpec

CONSTANTS
    c1 = c1
    c2 = c2
    rc = rc
    rf = rf
    rs = rs
    rp = rp
    Clients = {c1}
    NoClient = NoClient
    Requests = {rf}
    NoRequest = NoRequest
    PlanOnly = {}
    CustomDir = {}
    Forces = {TRUE, FALSE}
    MaxJobs = 3
    GcMaxJobs = 1
    CanCrash = FALSE
    CanRestart = FALSE
    CanFail = FALSE
    SourceMode <- MCSourceMode

INVARIANTS
    NoOrphanArtifact
    EvidenceKept

PROPERTIES
    RunningJobEnds
    QueuedJobLeaves
    HandlersReturn

\* Without requests the service stands still.
CHECK_DEADLOCK FALSE
