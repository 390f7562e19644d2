CONSTANTS
    Streams = {1, 2}
    Accepted = {1}
    QueueSize = 1
    WritesSize = 1
    PSHs <- OnFirst
    Controls = 0
    Deadlines = TRUE
    Dying = FALSE
SPECIFICATION Safety
INVARIANTS
    TypeOK
    ReqCountExact
    OnePlace
    SchedulerAwake
CHECK_DEADLOCK FALSE
