CONSTANTS
    Refused = Refused
    None = None
    MaxAttempts = 2
    RepliesLost = FALSE
    LogDepth = 2
    LogChunk = 2
    ConsoleDepth = 2
    ParserDepth = 1
    MaxConsoleReads = 2
    MaxRequests = 1
    MaxLogs = 3
    MaxChars = 2
    MaxRestarts = 1
    MaxFaults = 2
SPECIFICATION FairSpec
INVARIANT TypeOK LogsReadBeforeRolled CharsReadBeforeRolled RunsWithSettings
PROPERTY BootsEventually ConsoleDelivered 
