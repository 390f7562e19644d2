CONSTANTS
    hub = hub
    client = client
    Base = 4
    BlockSize = 4
    Words = 8
    DefaultFrame = 9
    WriteSizes = {1, 16}
    Scenarios <- All
SPECIFICATION Spec
INVARIANTS
    TypeOK
    FramesIntact
    KeyUsedOnce
    IdsFresh
PROPERTIES
    FramesArrive
CHECK_DEADLOCK FALSE
