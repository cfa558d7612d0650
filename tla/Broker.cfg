SPECIFICATION MCFairSpec
CONSTANTS
    k1 = k1
    k2 = k2
    k3 = k3
    handled = handled
    unknown = unknown
    NoJob = NoJob
    NoKey = NoKey
    JobKeys <- MCKeys
    Work <- MCWork
    Handled <- MCHandled
    CallSites <- MCCallSites
    MaxStarts = 2
    MaxSequence = 4
    Callers = {c1, c2}
    RateNum = 3
    RateDen = 2
    Second = 4
    MaxWindow = 6
INVARIANTS
    TypeOK
    KeysOfLiveJobs
    OneLiveJobPerKey
    ActiveKeyIsReal
    BudgetTypeOK
    RequestsWithinRate
PROPERTIES
    ImplementsJobQueue
    EveryKeyIsFreed
    AcceptedRateServes
CHECK_DEADLOCK FALSE
