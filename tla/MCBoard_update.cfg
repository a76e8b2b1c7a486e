CONSTANTS
    NumSectors = 1
    MaxImages = 3
    MaxRetries = 2
    Networks = {"factory network", "home network"}
    DefaultNetwork = "factory network"
    Configs = {"watchdog", "no watchdog"}
    DefaultConfig = "watchdog"
    WatchdogOn = {"watchdog"}
    FirstLayout = "first layout"
    SecondLayout = "second layout"
    Versions = {"first layout", "second layout"}
    NoSetting = "erased"
    MaxEdits = 3
    Layout <- MCLayout
    Firmwares = {1, 2, 3}
    NoFirmware = 0
    MaxTries = 2
    CommsLost = 1
    WatchdogTimeout = 3
    BootTime = 0
    MaxFaults = 0
SPECIFICATION BoardSpec
PROPERTY NetworkSettingsSurviveUpdates
