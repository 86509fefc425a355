SPECIFICATION FairSpec
CONSTANTS
    MirrorToD1 = TRUE
    MaxReports = 2
    MaxBytes = 3
    MaxMessages = 3
    MaxHandlers = 2
    MaxClock = 2
    MaxDeletes = 1
    MaxRestarts = 1
    D1Outcomes = {TRUE, FALSE}
INVARIANTS AckedReportKept
PROPERTIES OldSocketNeverEnqueues AckedReportIsStored
CHECK_DEADLOCK FALSE
