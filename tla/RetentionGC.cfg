\* Two processes store artifacts and apply plans while writes fail and processes die: every plan takes effect at most once and whole, nothing deleted comes back, and plans release what the budgets ask for and no more.
SPECIFICATION Spec

CONSTANTS
    i1 = i1
    i2 = i2
    Instances = {i1, i2}
    MaxArtifacts = 3
    MaxPlans = 2
    Times = {0, 6}
    Kind <- MCKind
    Size <- MCSize
    Refs <- MCRefs
    Budget <- MCBudget
    Evidences <- MCEvidences

SYMMETRY Symmetry

INVARIANTS
    TypeOK
    PlanReleasesEnough
    PlanReleasesNoMore
    PendingUnambiguous

PROPERTIES
    EffectsAreLedgered

\* Nobody has to store, plan or apply.
CHECK_DEADLOCK FALSE
