SPECIFICATION Spec
CONSTANTS
    Timeout = 1
    SslLimit = 1
    Codes = {"302", "404"}
    Pages <- MCPages
    Sizes = {0, 1, 2}
INVARIANTS TypeOK OnlineIsAccepted BadPageIsError UnmarkedChunkIsError InTime
PROPERTIES EveryProbeEnds
CHECK_DEADLOCK FALSE
