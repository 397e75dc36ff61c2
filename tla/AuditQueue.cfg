CONSTANTS
    r1 = r1
    r2 = r2
    r3 = r3
    r4 = r4
    None = None
    Rows <- MCRows
    QueueSizes = {0, 2}
    MaxFailures = 1
    MaxDeaths = 1
SPECIFICATION Spec
INVARIANTS TypeOK CancelsIdle AnswerMeansRow
PROPERTIES ShutdownEnds QueuedIsWritten KeepsTheTrail
