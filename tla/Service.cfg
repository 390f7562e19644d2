CONSTANTS
    k1 = k1
    k2 = k2
    u1 = u1
    u2 = u2
    Clients = {k1, k2}
    Users = {u1, u2}
    MaxFaults = 3
    Scenarios <- Four
SPECIFICATION Spec
INVARIANTS
    TypeOK
    NoOpenSessionForgotten
    OneUserPerDeadSession
PROPERTIES
    UserAnswered
    ServiceRecovers
CHECK_DEADLOCK FALSE
