\* Publishers of one lane that collect, install and switch, with failures and deaths between any two steps and outside interference: the lane always selects a complete generation with one kind of pointer, a failed publication puts the captured pointer back, a foreign pointer is overwritten only when it was moved between a publisher's last look and its write, and everyone gets the lock.
SPECIFICATION FairSpec

CONSTANTS
    p1 = p1
    p2 = p2
    p3 = p3
    a = a
    b = b
    Publishers = {p1, p2, p3}
    Contents = {a, b}
    Fragile = {a}
    NoContent = NoContent
    NoPublisher = NoPublisher

INVARIANTS
    TypeOK
    SelectedIsComplete
    PointerModeKept

PROPERTIES
    OutcomeIsTrue
    NoBlindOverwrite
    PublisherEnds

\* When every publisher has ended and nothing outside moves the lane rests.
CHECK_DEADLOCK FALSE
