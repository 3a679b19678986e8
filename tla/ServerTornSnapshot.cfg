SPECIFICATION Spec
CONSTANTS
    Sessions = {s1, s2}
    ThreadCounts = {2}
    MaxVersion = 2
    MaxRequests = 1
INVARIANTS
    SnapshotIsOneState
CHECK_DEADLOCK FALSE
