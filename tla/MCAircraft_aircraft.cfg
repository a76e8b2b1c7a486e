CONSTANTS
    a1 = a1
    a2 = a2
    u1 = u1
    ModeS = {a1, a2}
    UAT = {u1}
    kMaxNumAircraft = 2
    aircraft_prune_interval_ms = 1
    Altitudes = {0, 1}
    Processors = {"rp2040", "esp32"}
    MaxTime = 3
    NULL = NULL
    Places = {0, 1, 5}
    Speeds = {0, 2, 4}
    ClockOffset = 0
    TimeMod = 64
    MaxDelay = 1
    kDefaultCPRIntervalMs = 1
    kRefCPRIntervalMs = 2
    kMaxCPRIntervalMs = 3
    kMaxTrackUpdateIntervalMs = 2
    kRefSpeed = 5
    kCPRPositionFilterVelocity = 1
    kPositionFilterDeadband = 1
    MaxTrackTime = 6
    NotSet = NotSet
SPECIFICATION AircraftSpec
SYMMETRY Symmetry
INVARIANTS
    AircraftTypeOK
    PoolNeverExhausted
    LowestEntryLive
    PairsAlike
    TwoInARowShown
PROPERTIES
    LowestEntryKeepsAircraft
    FreshAircraftKept
    LowestIsLowest
    LoneJumpsHeldBack
    PairsClose
    TrackMovesForward
