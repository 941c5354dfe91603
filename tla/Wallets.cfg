SPECIFICATION StoresSpec
CONSTANTS
    Kinds = {"secret-tool", "1password", "bitwarden", "credman", "keychain", "keepassxc-cli"}
    Shells = {s1, s2}
    Services = {svc}
    Foreign = other
    Secrets = {x, y}
    None = none
    Untold = untold
    Longer <- Contained
    MaxItems = 2
    MaxFailures = 1
    MaxOutside = 1
    SsClients = {"c1", "c2"}
    MaxSsCalls = 2
    MaxCollections = 2
    MaxSsFailures = 1
    Askers = {"a1", "a2"}
    MaxUnlucky = 2
SYMMETRY Alike
VIEW Seen
INVARIANTS
    StoresTypeOK
    LossIsReported
    OneCopy
    NoDialogForNobody
    OneCollection
    TerminalGivenBack
PROPERTIES
    OthersLeftAlone
    ForgottenIsGone
CHECK_DEADLOCK FALSE
