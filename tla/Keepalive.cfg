CONSTANTS
    hub = hub
    client = client
    Ends = {hub, client}
    Capacity = 5
    Chunk = 5
    Tokens = 1
    Pings = 2
    Scenarios <- All
SPECIFICATION Spec
INVARIANTS
    TypeOK
PROPERTIES
    TimeoutUnreadOrHurried
    SilenceClosesOrPingBlocks
    
CHECK_DEADLOCK FALSE
