SPECIFICATION FairSpec
CONSTANTS
    p1 = p1
    p2 = p2
    p3 = p3
    Points = {p1, p2}
    DayOf <- MCDayOf
    LastDay = 2
    LegacyPoints = {p2}
    LegacyDead = {}
    Replayers = {r1}
    Importers = {i1}
    MaxAttempts = 2
    MaxConfirmFails = 2
    Retention = 2
    ArchiveBudget = 2
    MaxFaults = 2
    MaxRestarts = 1
 
PROPERTIES DayLeavesWhenSafe PointIsArchived
CHECK_DEADLOCK FALSE
