SPECIFICATION Spec
CONSTANTS
    Timeout = 1
    SslLimit = 1
    Codes = {"302", "404"}
    Pages <- MCPages
    Sizes = {0, 1, 2}
PROPERTY NoProbeHangs
CHECK_DEADLOCK FALSE
