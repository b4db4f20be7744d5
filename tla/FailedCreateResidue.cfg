SPECIFICATION Spec
CONSTANTS
    Ids = {s1}
    BootIds = {s1}
    MaxFaults = 0
    MaxCrashes = 0
CHECK_DEADLOCK FALSE
INVARIANTS FailedCreateLeavesNothing
