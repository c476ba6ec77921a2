SPECIFICATION Spec
CONSTANTS
    Clients = {c1, c2, c3}
    MaxFd = 2
    Backlog = 2
    MaxGone = 2
    c1 = c1
    c2 = c2
    c3 = c3
    Asks <- MCAsks
    NULL = NULL
    Probe = Probe
    Leak = Leak
    Mishaps = FALSE
INVARIANT ParametersKept
CHECK_DEADLOCK FALSE
