SPECIFICATION ServerSpec
CONSTANTS
    Clients = {c1, c2, c3}
    MaxRooms = 1
    MaxMessages = 1
    Times = {1, 2}
    FromTimes = {0, 2}
    PoolSize = 2
INVARIANTS
    ServerTypeOK
PROPERTIES
    EveryRequestAnswered
CHECK_DEADLOCK FALSE
