CONSTANTS
    hub = hub
    client = client
    s1 = s1
    s2 = s2
    Ends = {hub, client}
    Streams = {s1, s2}
    Opener <- OneOpener
    Plans <- EndOrBacklog
    Backlog = 1
SPECIFICATION Spec
INVARIANTS
    TypeOK
PROPERTIES
    CloseReachesConn
    
CHECK_DEADLOCK FALSE
