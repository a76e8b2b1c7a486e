CONSTANTS
    None = None
    Refused = Refused
    Roll = Roll
    Status = Status
    Scratch = Scratch
    Values = {v1, v2}
    Requests <- MCRequests
    Writes <- MCWrites
    Refusable <- MCRefusable
    Shape <- MCShape
    MaxAttempts = 3
    ChecksHandshake = TRUE
    Faults = {"corrupt", "restart", "slow"}
    MaxFaults = 5
SPECIFICATION FairSpec
INVARIANT TypeOK
PROPERTIES
    ImplementsRemoteCall
    LinkRecovers
