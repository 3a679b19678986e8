SPECIFICATION FairSpec
CONSTANTS
    Sessions = {s1, s2}
    ThreadCounts = {1, 2}
    MaxVersion = 2
    MaxRequests = 1
INVARIANTS
    TypeOK
    OneWriteAtATime
    LiveSessionsRegistered
    NoChangeMissed
    EventBeforeResponse
    ClientsDoNotGoBack
PROPERTIES
    EveryRequestAnswered
CHECK_DEADLOCK FALSE
