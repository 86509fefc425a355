SPECIFICATION FairSpec
CONSTANTS
    Versions = {1, 2, 3}
    FirstLook = 2
    Stability = 1
    WatchdogTicks = 4
    ConfirmWindow = 6
    MaxInstalls = 3
    MaxFaults = 2
INVARIANTS PathHasExecutable BrokenCanBeLeft
PROPERTIES ConfirmedIsKept BrokenIsLeft
CHECK_DEADLOCK FALSE
