SPECIFICATION FairSpec
CONSTANTS
    Runs = {r1, r2}
    Manuals = {m1}
    HistoryDue = 2
    FastDue = 1
    DownDue = 1
    BucketSlack = 1
    LeaseTtl = 0
    LockTtl = 0
    Window = 2
    MaxRun = 1
    MaxAge = 2
    MaxOverlaps = 1
    MaxFaults = 1
PROPERTIES StatusNeverOlder SettledTargetIsShown
