\* Two tasks, one process that polls, the hook and shutdowns beside it.
SPECIFICATION FairSpec
CONSTANTS
    Task = {t1, t2}
    Watch = {w1}
    MaxFixAttempts = 1
INVARIANT TypeOK
PROPERTIES GateHolds DoneEnds
\* All polling processes may have exited.
CHECK_DEADLOCK FALSE
