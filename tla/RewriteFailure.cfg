SPECIFICATION Spec
CONSTANTS
    t1 = t1
    t2 = t2
    slack = slack
    smtp = smtp
    eightk = eightk
    form4 = form4
    Nobody = Nobody
    NoFiling = NoFiling
    Threads = {t1}
    EightKs = {}
    Form4s = {form4}
    Channels <- MCOneChannel
    Slack = slack
    MaxRequests = 2
    MaxCrashes = 0
PROPERTY RewriteFailureFallsBack
CHECK_DEADLOCK FALSE
