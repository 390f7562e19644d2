CONSTANTS
    hub = hub
    client = client
    Ends = {hub, client}
    Traffic <- OneWay
    MaxStreamBuffer = 1
    MaxReceiveBuffer = 2
    Capacity = 2
    Guessing = FALSE
SPECIFICATION Spec
PROPERTIES
    PausedIsResumed
CHECK_DEADLOCK FALSE
