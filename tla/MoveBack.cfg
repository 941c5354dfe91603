SPECIFICATION Spec
CONSTANTS
    NumFiles = 4
    MaxFailures = 2
    MaxIntruders = 0
INVARIANTS
    SaysOfTheWayBack
CHECK_DEADLOCK FALSE
