SPECIFICATION TrackSpec
CONSTANTS
    Places = {0, 1, 5}
    Speeds = {0, 2, 4}
    ClockOffset <- MCOnESP32
    TimeMod = 64
    MaxDelay = 1
    kDefaultCPRIntervalMs = 1
    kRefCPRIntervalMs = 2
    kMaxCPRIntervalMs = 3
    kMaxTrackUpdateIntervalMs = 2
    kRefSpeed = 5
    kCPRPositionFilterVelocity = 1
    kPositionFilterDeadband = 1
    MaxTrackTime = 6
    NotSet = NotSet
INVARIANTS
    FreshTrackGetsCalculatedInterval
