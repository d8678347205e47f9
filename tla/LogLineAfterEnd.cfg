\* event: end can be sent before the last line of the log is written.
SPECIFICATION Spec

CONSTANTS
    s1 = s1
    s2 = s2
    Streams = {s1}
    MaxLines = 2
    MaxConnects = 2

INVARIANTS
    EndAfterEverything

\* When the job is over and its clients have gone nothing is left to do.
CHECK_DEADLOCK FALSE
