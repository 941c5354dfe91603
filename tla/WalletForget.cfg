SPECIFICATION StoresSpec
CONSTANTS
    Kinds = {"keepassxc-cli"}
    Shells = {s1, s2}
    Services = {svc}
    Foreign = other
    Longer <- Contained
    Secrets = {x}
    None = none
    Untold = untold
    MaxItems = 2
    MaxFailures = 1
    MaxOutside = 0
    SsClients = {"c1"}
    MaxSsCalls = 0
    MaxCollections = 1
    MaxSsFailures = 0
    Askers = {"a1"}
    MaxUnlucky = 0
PROPERTIES
    ForgottenFromTheFile
CHECK_DEADLOCK FALSE
