CONSTANTS
    s1 = s1
    s2 = s2
    b1 = b1
    b2 = b2
    b3 = b3
    Streams = {s1, s2}
    Bytes = {b1, b2, b3}
    MaxReceiveBuffer = 1
    MaxFrame = 2
    Free = Free
    EnableStreamBuffer = TRUE
SPECIFICATION Spec
INVARIANTS
    TypeOK
    Conservation
    MemoryBound
    NoLostWakeup
    TokensHaveOwners
PROPERTIES
    ImplementsBudget
    ImplementsBudgetLive
    CloseEndsRecvLoop
