\* Two identical requests without force_new can each create a job.
SPECIFICATION Spec

CONSTANTS
    c1 = c1
    c2 = c2
    rc = rc
    rf = rf
    rs = rs
    rp = rp
    Clients = {c1, c2}
    NoClient = NoClient
    Requests = {rc}
    NoRequest = NoRequest
    PlanOnly = {}
    CustomDir = {}
    Forces = {FALSE}
    MaxJobs = 2
    GcMaxJobs = 1
    CanCrash = FALSE
    CanRestart = FALSE
    CanFail = FALSE
    SourceMode <- MCSourceMode

SYMMETRY Symmetry

INVARIANTS
    ActiveJobsDiffer

\* Without requests the service stands still.
CHECK_DEADLOCK FALSE
