\* Two clients create and cancel jobs of three kinds while the worker runs and the process may die or be restarted between any two steps: no job is forgotten, run twice, or collected under the worker, the state files stay in step with memory, and nothing that ended is attempted again.
SPECIFICATION Spec

CONSTANTS
    c1 = c1
    c2 = c2
    rc = rc
    rf = rf
    rs = rs
    rp = rp
    Clients = {c1, c2}
    NoClient = NoClient
    Requests = {rc, rs, rp}
    NoRequest = NoRequest
    PlanOnly = {rp}
    CustomDir = {}
    Forces = {FALSE}
    MaxJobs = 2
    GcMaxJobs = 1
    CanCrash = TRUE
    CanRestart = TRUE
    CanFail = TRUE
    SourceMode <- MCSourceMode

SYMMETRY Symmetry

INVARIANTS
    TypeOK
    NoJobForgotten
    NoJobRunsTwice
    WorkedJobIsStored
    ScannedSnapshotKept
    StateFilesCurrent
    ListedArtifactsExist

PROPERTIES
    NoSecondAttempt

\* Without requests the service stands still.
CHECK_DEADLOCK FALSE
