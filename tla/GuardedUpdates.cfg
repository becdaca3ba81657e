\* Three callers of which two may die, at any step, so that two survivors meet the
\* directory of a dead one. Late heartbeats, half-removed directories, and what the
\* callbacks read and write.
SPECIFICATION GuardedFairSpec
CONSTANTS
    Process = {p1, p2, p3}
    Mortal = {p1, p2}
    StaleAfter = 4
    Pause = 2
    Change = {c1, c2}
    NoLock = NoLock
    NoOwner = NoOwner
    NoView = NoView
    Nobody = Nobody
INVARIANTS ExclusionUnlessLate LateNeedsDeath NothingLostUnlessLate
PROPERTIES ImplementsSerial DeadLockRecovered
