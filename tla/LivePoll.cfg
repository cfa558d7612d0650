SPECIFICATION FairSpec
CONSTANTS
    MaxFiling = 4
    OverlapRows = 2
    MaxFaults = 2
    NoCursor = NoCursor
INVARIANTS
    TypeOK
    CursorPassesNothing
    GapIsOnRecord
PROPERTY NoFilingIsLeft
