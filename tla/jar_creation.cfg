SPECIFICATION FairSpec
CONSTANTS
    None = None
    Requests = {r1, r2}
    JarIds = {j0, j1, j2}
    ScrollIds = {s1, s2, s3}
    FirstJar = j0
    Durations = {2, 3, 4}
    MinLife = 2
    Year = 4
    MaxScrolls = 2
    Delays = {0, 2}
INVARIANTS TypeOK CreatedWhole AnsweredIsThere LifeInBounds
PROPERTIES RowsKept CreationsEnd
CHECK_DEADLOCK FALSE
