SPECIFICATION Spec
CONSTANTS
    Chars <- MCChars
    Hosts <- MCHosts
    Ports <- MCPorts
    Paths <- MCPaths
    Blanks <- MCBlanks
    Tails <- MCTails
    Digits = {"0", "1", "9", "a", "F"}
    MaxDigits = 4
    Modulus = 4096
INVARIANTS UrlUnderstood LengthUnderstood
CHECK_DEADLOCK FALSE
