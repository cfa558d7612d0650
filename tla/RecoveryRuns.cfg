SPECIFICATION FairSpec
CONSTANTS
    form4 = form4
    JobKeys <- RunKeys
    Work <- Payloads
    Repair = Repair
    Entries = {1}
    Resolvable = {1}
    RepairDays <- MCRepairDays
    BackfillDays <- MCBackfillDays
    IndexRows <- MCIndexRows
    Form4 = form4
    ChunkSize = 2
    SlowDelivery = TRUE
    MaxFailed = 2
    MaxRequests = 2
    MaxCrashes = 1
INVARIANTS
    TypeOK
    RunKeyMatchesOneChain
    CompletedRunCoversEveryRow
PROPERTIES
    YieldToUrgentWork
    RunStatusOnlyAdvances
    EveryRunKeyIsReleased
CHECK_DEADLOCK FALSE
