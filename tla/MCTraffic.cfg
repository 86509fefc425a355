SPECIFICATION TrafficSpec
CONSTANTS
    DayLength = 2
    PeriodLength = 4
    FlushInterval = 1
    ResetDays = {0, 1}
    Writers = {w1, w2}
    InOrder = TRUE
    MaxClock = 10
    MaxCounter = 2
    MaxReports = 3
    MaxUpsets = 1
SYMMETRY Symmetry
INVARIANTS  PeriodIsSumOfDays 
PROPERTIES RebuiltPeriodIsCurrent
CHECK_DEADLOCK FALSE
