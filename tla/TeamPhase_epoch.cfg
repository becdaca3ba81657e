\* A poll that read the phase before the shutdown wrote it writes after it.
SPECIFICATION FairSpec
CONSTANTS
    Task = {t1, t2}
    Watch = {w1}
    MaxFixAttempts = 1
PROPERTY NoTaskAfterEpoch
CHECK_DEADLOCK FALSE
