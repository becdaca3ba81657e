SPECIFICATION FairSpec
CONSTANTS
    MaxMessages = 2
    MaxWakes = 4
    MaxSends = 1
    MaxFails = 1
INVARIANTS TypeOK SettledMeansDelivered TypedMeansSeen
PROPERTIES MarkedMeansTold FreshDelivered
CHECK_DEADLOCK FALSE
