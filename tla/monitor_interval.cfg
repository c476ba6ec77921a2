SPECIFICATION Spec
CONSTANTS
    N = 2
    M = 2
    Apps = {1, 2}
    Conns = {}
    Urls <- AppsUrls
    Interval <- AppsInterval
    Files = {4}
    BadFile = Bad
    WaitPeriod = 1
    MaxTime = 4
    NULL = NULL
CHECK_DEADLOCK FALSE
INVARIANT AnyUrlDownMeansError
