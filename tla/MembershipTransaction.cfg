SPECIFICATION Spec
CONSTANTS
    NumTasks = 2
    MaxTxn = 4
    Kinds = {"forward", "retain", "backward", "save"}
    NoJournal = NoJournal
    Idle = Idle
INVARIANTS TypeOK NeverTorn CommittedStays
PROPERTIES NeverStepsBack ImplementsAtomic
CHECK_DEADLOCK FALSE
