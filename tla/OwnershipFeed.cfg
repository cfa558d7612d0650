SPECIFICATION FairSpec
CONSTANTS
    MaxFiling = 3
    PageSize = 2
    StopAfter = 2
    Dated = {1, 3}
    MaxLag = 1
    MaxFaults = 1
    NoFiling = NoFiling
INVARIANTS
    PagedRowsAreAccountedFor
PROPERTY PagedRowsAreSettled
