CONSTANTS
    Refused = Refused
    None = None
    MaxAttempts = 2
    RepliesLost = TRUE
    LogDepth = 1
    LogChunk = 1
    ConsoleDepth = 2
    ParserDepth = 2
    MaxConsoleReads = 1
    MaxRequests = 1
    MaxLogs = 0
    MaxChars = 2
    MaxRestarts = 0
    MaxFaults = 1
SPECIFICATION Spec
INVARIANT CharsReadBeforeRolled
