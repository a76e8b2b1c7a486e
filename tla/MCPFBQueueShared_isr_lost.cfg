CONSTANTS
    Producers = {producer1, producer2}
    Consumers = {consumer}
    Handler = producer1
    BufLen = 2
    Configs <- MCFromInterrupt
    MaxElements = 4
    Nobody = Nobody
SPECIFICATION Spec
INVARIANTS NothingLost
