CONSTANTS
    Producers = {producer1, producer2}
    Consumers = {consumer}
    Handler = producer1
    BufLen = 2
    Configs <- MCConfigs
    MaxElements = 5
    Nobody = Nobody
    ArrayLen = 2
    Size <- MCSize
    MaxFlushes = 3
    Protocols = {csbee, mavlink2}
    Craft = {1, 2}
    MaxCraft = 2
    Fds = {fd1, fd2}
    Nowhere = Nowhere
    NumClients = 2
    TimesOut = TRUE
    MaxConnects = 2
SPECIFICATION BothSpec
INVARIANTS BothTypeOK  SlotsOfSessions
PROPERTIES EventuallyDelivered FlushMakesRoom RoundCoversDictionary RoundsGoOn 
