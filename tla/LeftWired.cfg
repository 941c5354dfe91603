SPECIFICATION InstallerSpec
CONSTANTS
    MaxRuns = 2
    MaxHandEdits = 1
INVARIANTS
    NothingLeftWired
CHECK_DEADLOCK FALSE
