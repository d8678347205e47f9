\* A client that loses its connection resumes with no gap and no repetition, no callback outlives its stream, and notifications alone, not counting on the idle recheck, bring every line and end every stream.
SPECIFICATION FairSpec

CONSTANTS
    s1 = s1
    s2 = s2
    Streams = {s1}
    MaxLines = 2
    MaxConnects = 2

INVARIANTS
    TypeOK
    NoStaleSubscriber
    IdsInOrder

PROPERTIES
    LinesArrive
    StreamsEnd

\* When the job is over and its clients have gone nothing is left to do.
CHECK_DEADLOCK FALSE
