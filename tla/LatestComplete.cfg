\* Publishers of one registry in any order, with failing writes and syncs, deaths and power failures: with the power on the registry only moves to what ranks above it, what was answered to be durable survives, no receipt is wrong about what was replaced, and every call is answered.
SPECIFICATION FairSpec

CONSTANTS
    p1 = p1
    p2 = p2
    early = early
    tied = tied
    late = late
    other = other
    Publishers = {p1, p2}
    Bundles = {early, tied, late, other}
    Generated <- MCGenerated
    Lane <- MCLane
    Sides = {1, 2}
    Times = {0, 4}
    MAX_FUTURE_SKEW_SECONDS = 1
    NoEntry = NoEntry
    Torn = Torn
    NoPublisher = NoPublisher
    MaxCalls = 3

INVARIANTS
    TypeOK
    PowerLossIsSafe

PROPERTIES
    ReceiptIsTrue
    SuccessIsLatest
    CallEnds
    RegisterSpec

\* Nobody has to publish.
CHECK_DEADLOCK FALSE
