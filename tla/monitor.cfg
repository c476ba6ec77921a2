SPECIFICATION Spec
CONSTANTS
    N = 4
    M = 2
    Apps = {1, 2}
    Conns = {3}
    Urls <- AppsUrls
    Interval <- AppsInterval
    Files = {0, 3, Bad}
    BadFile = Bad
    WaitPeriod = 1
    MaxTime = 4
    NULL = NULL
INVARIANTS TypeOK ErrorMeansUrlDown OnlineMeansNoUrlDown NothingOverdue
PROPERTIES TimestampFollowsVerdict FailureShown FailureKept 
CHECK_DEADLOCK FALSE
