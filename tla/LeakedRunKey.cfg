SPECIFICATION Spec
CONSTANTS
    form4 = form4
    JobKeys <- RunKeys
    Work <- Payloads
    Repair = Repair
    Entries = {1}
    Resolvable = {1}
    RepairDays <- MCRepairDays
    BackfillDays <- MCBackfillDays
    IndexRows <- MCIndexRows
    Form4 = form4
    ChunkSize = 2
    SlowDelivery = TRUE
    MaxFailed = 1
    MaxRequests = 3
    MaxCrashes = 0
INVARIANT RefusedOnlyWhileQueued
CHECK_DEADLOCK FALSE
