SPECIFICATION FairSpec
CONSTANTS
    NumKeys = 3
    s1 = s1
    s2 = s2
    b1 = b1
    Loaders = {s1}
    Brokers = {}
    p1 = p1
    p2 = p2
    Passes = {p1, p2}
    NoPass = NoPass
    MaxAttempts = 2
    AutoLoad = {1, 2}
    WalletStore = {1}
    Readable = {1, 2}
    MaxMishaps = 1
PROPERTIES
    TakesNoForAnAnswer
    EveryBatchEnds
CHECK_DEADLOCK FALSE
