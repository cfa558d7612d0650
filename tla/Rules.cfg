SPECIFICATION RulesSpec
CONSTANTS
    u1 = u1
    u2 = u2
    u3 = u3
    Urls <- MCUrls
    XmlUrls <- MCXmlUrls
    None = None
    Absent = Absent
    MaxDocuments = 2
    MaxRows = 2
    MaxPageRows = 2
    MaxItems = 2
    MaxPhrases = 2
    Texts = {a, b}
    Blank = Blank
    IssueWindow = 2
    RevalidationWindow = 4
    MaxNow = 8
    k1 = k1
    k2 = k2
    handled = handled
    unknown = unknown
    NoJob = NoJob
    NoKey = NoKey
    JobKeys <- MCKeys
    Work <- MCWork
    Handled <- MCHandled
    CallSites <- MCCallSites
    MaxStarts = 2
    MaxSequence = 3
INVARIANTS
    EveryCandidateIsTried
    Form4IsReadRight
    EightKIsJudgedByItsReport
    CredentialsAreProtected
    RecordTellsTheExchange
    SettingsTellWhatIsSent
    IssuesPageTellsTheRecord
    RewriteFitsTheParse
    IdleMeansHandled
CHECK_DEADLOCK FALSE
