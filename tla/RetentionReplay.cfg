\* A receipt that was begun and not finished is never reconstructed.
SPECIFICATION Spec

CONSTANTS
    i1 = i1
    i2 = i2
    Instances = {i1}
    MaxArtifacts = 3
    MaxPlans = 1
    Times = {6}
    Kind <- MCKind
    Size <- MCSize
    Refs <- MCRefs
    Budget <- MCBudget
    Evidences <- MCEvidences

INVARIANTS
    ReplayReconstructs

\* Nobody has to store, plan or apply.
CHECK_DEADLOCK FALSE
