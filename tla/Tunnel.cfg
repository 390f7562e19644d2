CONSTANTS
    hub = hub
    client = client
    t1 = t1
    t2 = t2
    Tunnels = {t1, t2}
    Buffers = {1, 2}
    Scenarios <- Three
SPECIFICATION Spec
INVARIANTS
    TypeOK
    ForeignOnlyAfterClose
PROPERTIES
    TunnelEnds
CHECK_DEADLOCK FALSE
