SPECIFICATION FairSpec
CONSTANTS
    p1 = p1
    p2 = p2
    c1 = c1
    c2 = c2
    h1 = h1
    Chunks = {c1, c2}
    Points = {p1, p2}
    Hours = {1}
    ChunkOf <- MCChunkOf
    HourOf <- MCHourOf
    Handlers = {h1}
    ExportEnabled = TRUE
    MaxAttempts = 2
    MaxRestarts = 1
INVARIANTS ExportNotForgotten NothingLostUnlessRaced
PROPERTIES ImplementsStore StoredPointIsExported
