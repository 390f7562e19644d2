CONSTANTS
    hub = hub
    client = client
    Ends = {hub, client}
    Traffic <- OneOrBothWay
    MaxStreamBuffer = 1
    MaxReceiveBuffer = 2
    Capacity = 1
    Guessing = TRUE
SPECIFICATION Spec
INVARIANTS
    TypeOK
    StreamTokens

    
CHECK_DEADLOCK FALSE
