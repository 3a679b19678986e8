SPECIFICATION FairSpec
CONSTANTS
    Clients = {c1, c2, c3}
    MaxEvents = 2
    Ticks = 2
    MaxPosts = 3
INVARIANTS
    AcknowledgedEventsListed
PROPERTIES
    EveryClientServed
CHECK_DEADLOCK FALSE
