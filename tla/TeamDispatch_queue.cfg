SPECIFICATION FairSpec
CONSTANTS
    Hook = {h1, h2}
    MaxRequests = 2
    MaxBridged = 1
    MaxAttempts = 2
    Leader = {1}
    MaxLost = 1
    MaxTyped = 4
    Free = Free
    Dead = Dead
INVARIANTS TypeOK OneTyper AttemptsBounded
PROPERTIES Forward Settles
CHECK_DEADLOCK FALSE
