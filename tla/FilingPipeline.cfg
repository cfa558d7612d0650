SPECIFICATION FairSpec
CONSTANTS
    t1 = t1
    t2 = t2
    slack = slack
    smtp = smtp
    eightk = eightk
    form4 = form4
    Nobody = Nobody
    NoFiling = NoFiling
    Threads = {t1, t2}
    EightKs = {eightk}
    Form4s = {form4}
    Channels <- MCChannels
    Slack = slack
    MaxRequests = 2
    MaxCrashes = 1
INVARIANTS
    TypeOK
    SentOncePerDestination
    AlertTellsWhatWasSent
    ProcessedFilingHasAlert
    ReparseKeyMatchesOneJob
PROPERTIES
    AlertIsWrittenOnce
    HandlersEnd
CHECK_DEADLOCK FALSE
