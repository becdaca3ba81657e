SPECIFICATION FairSpec
CONSTANTS
    MaxMessages = 2
    MaxWakes = 4
    MaxSends = 2
    MaxFails = 0
PROPERTY EveryWakeAcknowledged
CHECK_DEADLOCK FALSE
