SPECIFICATION Spec
CONSTANTS
    Logins = {l1, l2}
    l1 = l1
    l2 = l2
    Pids = {1, 2, 3}
    Fixed = Fixed
    Tmp = Tmp
    f1 = f1
    f2 = f2
    Elsewhere = {f1, f2}
    Theirs = {f2}
    NoPath = NoPath
    NoPid = 0
    NoLogin = NoLogin
    MaxOutside = 2
    AllowLockTimeout = FALSE
    AllowSlowAgents = TRUE
SYMMETRY Symm
INVARIANT HandedSocketLive
