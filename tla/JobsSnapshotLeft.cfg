\* A removed job leaves its source snapshot behind in a custom merges directory.
SPECIFICATION Spec

CONSTANTS
    c1 = c1
    c2 = c2
    rc = rc
    rf = rf
    rs = rs
    rp = rp
    Clients = {c1, c2}
    NoClient = NoClient
    Requests = {rs}
    NoRequest = NoRequest
    PlanOnly = {}
    CustomDir = {rs}
    Forces = {FALSE}
    MaxJobs = 2
    GcMaxJobs = 1
    CanCrash = FALSE
    CanRestart = FALSE
    CanFail = FALSE
    SourceMode <- MCSourceMode

SYMMETRY Symmetry

PROPERTIES
    DeletedWithSnapshot

\* Without requests the service stands still.
CHECK_DEADLOCK FALSE
