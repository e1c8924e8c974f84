CONSTANTS
    Handler = {h1, h2}
    QueueSize = 2
    BatchSize = 2
    MaxRows = 3
    MaxEntries = 4
    DbMayFail = TRUE
    BadEntries = TRUE
    LateHandlers = TRUE
SPECIFICATION FairSpec
INVARIANTS TypeOK NothingAstray StopDrains
PROPERTIES ImplementsLossyLog EventuallyHanded
CHECK_DEADLOCK FALSE
