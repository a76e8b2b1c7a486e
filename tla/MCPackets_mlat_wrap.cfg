CONSTANTS
    Elements = {e1, e2}
    NoElement = NoElement
    BufLen = 4
    OverwriteWhenFull = FALSE
    IndexModulus = 8
    NumSources = 2
    Senders = {1, 2}
    Period = 2
    DuplicateInterval = 2
    RawQueueLen = 2
    DecodedQueueLen = 1
    TimestampModulus = 16
    MaxTime = 2
    MaxTransmissions = 2
    CellsPerArray = 3
    InLen <- MCInLen
    WANQueueLen = 2
    MaxPackets <- MCMaxPackets
    RawLen <- MCRawLen
    DecodedLen <- MCDecodedLen
    HostLen <- MCDecodedLen
    PacketSize <- MCPacketSize
    ReadAttempts = 2
    MaxMessages <- MCMaxMessages
SPECIFICATION PathSpec
PROPERTY StampsMonotonic
CHECK_DEADLOCK FALSE
