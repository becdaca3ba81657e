SPECIFICATION FairSpec
CONSTANTS
    w1 = w1
    w2 = w2
    Worker <- OneWorker
    StatusChoices <- Pending
    OwnerChoices <- Unowned
    DepChoices <- ChainDeps
    MaxTasks = 2
    LeaseTerm = 1
    MaxNow = 1
    MaxTokens = 1
    MaxVersion = 2
    MaxGen = 1
    NoTask = NoTask
    NoOwner = NoOwner
    NoClaim = NoClaim
    NoView = NoView
    NoSnapshot = NoSnapshot
    Idle = Idle
    AnyVersion = AnyVersion
INVARIANTS
    TypeOK
PROPERTIES
    TasksNeverReplaced
    ClaimsEnd
CHECK_DEADLOCK FALSE
