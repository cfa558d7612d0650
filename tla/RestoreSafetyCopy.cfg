SPECIFICATION Spec
CONSTANTS
    MaxProcess = 1
    Pages = {x1}
    MaxCommit = 1
    MaxArchive = 2
    MaxCrash = 0
    Nothing = Nothing
INVARIANT SafetyCopyHoldsOverwrittenData
CHECK_DEADLOCK FALSE
