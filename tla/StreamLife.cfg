CONSTANTS
    hub = hub
    client = client
    s1 = s1
    s2 = s2
    Ends = {hub, client}
    Streams = {s1}
    Opener <- OneOpener
    Plans <- DataAndFailure
    Backlog = 1
SPECIFICATION Safety
INVARIANTS
    NoLostReadEvent
    TableFollowsClose
    OpenerMissesOnlyTheStart
PROPERTIES
    ImplementsPipe
CHECK_DEADLOCK FALSE
