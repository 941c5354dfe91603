SPECIFICATION OneSpec
CONSTANTS
    Keys = {k1}
    Sessions = {s1, s2}
    Lifetime = 2
    MaxTime = 4
    MaxMishaps = 2
    AllowMoves = TRUE
    Clients = {c1, c2}
    Logins = {l1, l2}
    Passphrases = {x, y}
    NoPassphrase = none
    MaxEntries = 2
    MaxCalls = 2
    MaxGrants = 2
    MaxLate = 1
    MaxMeddling = 1
    MaxRuns = 3
    MaxHandEdits = 1
SYMMETRY Alike
INVARIANTS
    OneTypeOK
    NoneOutlives
    OneEntryEach
    NothingRunsWhatIsGone
    RecordIsOfBefore
PROPERTIES
    NoneTakenEarly
    LookupTellsTheTruth
    AskedOnlyWithout
CHECK_DEADLOCK FALSE
