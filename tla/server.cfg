SPECIFICATION Spec
CONSTANTS
    Clients = {c1, c2, c3}
    MaxFd = 2
    Backlog = 2
    MaxGone = 2
    c1 = c1
    c2 = c2
    c3 = c3
    Asks <- MCAsks
    NULL = NULL
    Probe = Probe
    Leak = Leak
    Mishaps = TRUE
INVARIANTS TypeOK  ServedOnce StopIsAnswered OneLateAccept
PROPERTIES StopStops EveryRequestAnswered
CHECK_DEADLOCK FALSE
