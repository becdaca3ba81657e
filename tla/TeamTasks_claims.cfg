SPECIFICATION Spec
CONSTANTS
    w1 = w1
    w2 = w2
    Worker <- TwoWorkers
    StatusChoices <- BlockedToo
    OwnerChoices <- AnyOwner
    DepChoices <- NoDeps
    MaxTasks = 1
    LeaseTerm = 1
    MaxNow = 2
    MaxTokens = 2
    MaxVersion = 2
    MaxGen = 2
    NoTask = NoTask
    NoOwner = NoOwner
    NoClaim = NoClaim
    NoView = NoView
    NoSnapshot = NoSnapshot
    Idle = Idle
    AnyVersion = AnyVersion
INVARIANTS
    LeaseHolderOwnsTask
    ClaimedByMember
    GenerationFixesMembership
    EventsSound
PROPERTIES
    TerminalIsFinal
    NamesNeverReturn
    ImplementsLifecycle
CHECK_DEADLOCK FALSE
SYMMETRY Swap
