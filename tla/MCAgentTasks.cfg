SPECIFICATION Spec
CONSTANTS
    Tasks = {t1, t2}
    Requests = {r1, r2}
    Attempts = 1
    MaxFaults = 1
    None = None
SYMMETRY Symmetry
INVARIANTS OneActive GivenOnce CancelWins ResultKept
PROPERTIES OutcomeStays TakenOnlyIfRaced
