SPECIFICATION Spec
CONSTANTS
    NumKeys = 1
    s1 = s1
    s2 = s2
    b1 = b1
    Loaders = {s1, s2}
    Brokers = {b1}
    p1 = p1
    p2 = p2
    Passes = {p1, p2}
    NoPass = NoPass
    MaxAttempts = 2
    AutoLoad = {1}
    WalletStore = {1}
    Readable = {1}
    MaxMishaps = 0
SYMMETRY Symm
PROPERTY LookupFindsStored
CHECK_DEADLOCK FALSE
