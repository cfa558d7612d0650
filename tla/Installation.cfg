SPECIFICATION FairSpec
CONSTANTS
    MaxProcess = 2
    Pages = {x1, x2}
    MaxCommit = 2
    MaxArchive = 2
    MaxCrash = 1
    Nothing = Nothing
INVARIANTS
    NothingCommittedIsLost
    LockIsHeldByOneAtWork
PROPERTY StopEnds
CHECK_DEADLOCK FALSE
