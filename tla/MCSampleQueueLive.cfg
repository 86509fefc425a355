CONSTANTS
    QueueMax = 2
    ReportMax = 1
    Generations = {g1, g2, g3}
    MaxTaken = 2
    MaxChannel = 1
    MaxCrashes = 0
    MaxHung = 1
    MaxPanics = 0
    SaveOutcomes = {TRUE}
SPECIFICATION FairSpec
PROPERTY
    QueuedSampleIsReported
