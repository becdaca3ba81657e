\* Three callers of which one dies: two survivors find its directory stale, and the
\* slower one removes the directory that the other has made since.
SPECIFICATION Spec
CONSTANTS
    Process = {p1, p2, p3}
    Mortal = {p1}
    StaleAfter = 2
    Pause = 1
    NoLock = NoLock
    NoOwner = NoOwner
INVARIANT MutualExclusion
