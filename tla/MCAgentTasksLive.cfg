SPECIFICATION FairSpec
CONSTANTS
    Tasks = {t1}
    Requests = {r1, r2}
    Attempts = 2
    MaxFaults = 1
    None = None
PROPERTIES TaskEnds
