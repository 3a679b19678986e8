SPECIFICATION Spec
CONSTANTS
    Clients = {c1, c2, c3}
    MaxRooms = 2
    MaxMessages = 2
    Times = {1}
    FromTimes = {0}
SYMMETRY ClientSymmetry
INVARIANTS
    NoMissedWakeup
    GapFree
    LeaksAtMostOneAnswer
PROPERTIES
    OrphanedRoomsStayEmpty
    ImplementsRoomLogs
CHECK_DEADLOCK FALSE
