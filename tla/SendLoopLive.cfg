CONSTANTS
    Streams = {1}
    Accepted = {}
    QueueSize = 2
    WritesSize = 1
    PSHs <- One
    Controls = 1
    Deadlines = FALSE
    Dying = TRUE
SPECIFICATION Spec
PROPERTIES
    CallsReturn
CHECK_DEADLOCK FALSE
