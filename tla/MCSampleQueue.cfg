CONSTANTS
    QueueMax = 2
    ReportMax = 1
    Generations = {g1, g2}
    MaxTaken = 3
    MaxChannel = 2
    MaxCrashes = 1
    MaxHung = 0
    MaxPanics = 1
    SaveOutcomes = {TRUE, FALSE}
SYMMETRY Symmetry
SPECIFICATION Spec
INVARIANTS
    WriterMirrorsQueue
    CleanMeansDurable
    AckDropsOnlySentBelowCapacity
    NoSilentLoss
PROPERTY
    UpdateKeepsQueue
