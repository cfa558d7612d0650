SPECIFICATION IssuesSpec
CONSTANTS
    Texts = {a, b}
    Blank = Blank
    IssueWindow = 2
    RevalidationWindow = 4
    MaxNow = 8
INVARIANT RecoveredMeansParsed
CHECK_DEADLOCK FALSE
