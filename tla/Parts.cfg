SPECIFICATION PartsSpec
CONSTANTS
    NumFiles = 4
    MaxFailures = 3
    MaxIntruders = 1
    MaxAdds = 2
    MaxMisfortunes = 2
    SvLogins = {"l1", "l2"}
    PollBudget = 2
    MaxSvTroubles = 2
    LogWriters = {"w1", "w2", "w3"}
    LogMaxLines = 2
    MaxLogged = 4
    MaxLogMisfortunes = 2
    PkKeys = {"k1", "k2"}
    MaxPkRuns = 2
    MaxPkMeddling = 2
    MaxPkFailures = 1
    MaxCfChanges = 4
INVARIANTS
    PartsTypeOK
    SaysWhatIsSo
    ConfigNeverAhead
    NothingOverwritten
    ToldOnce
    RefusedForCause
    HeldLinesStay
    SuccessIsReal
    ReportsAreTrue
PROPERTIES
    NoneLingers
    LoginsEnd
CHECK_DEADLOCK FALSE
