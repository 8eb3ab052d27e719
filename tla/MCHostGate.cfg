SPECIFICATION Spec
CONSTANTS
    a = a
    b = b
    Run <- MCRun
    interval <- MCInterval
    MinInterval = 1
    CrawlDelay = 1
    MaxInlineWait = 1
    MaxWaits = 1
    MaxRedirects = 1
    BackoffBase = 1
    BackoffMax = 3
    Hour = 2
    Day = 3
    RetryAfter <- MCRetryAfter
    MaxTime = 4
INVARIANTS SlotsApart
PROPERTIES AnswersPaced BreaksRespected AskedAsTold
CHECK_DEADLOCK FALSE
