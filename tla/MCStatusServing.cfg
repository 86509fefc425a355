SPECIFICATION FairServing
CONSTANTS
    Requests = {r1, r2}
    Builders = {b1, b2}
    MaxProbes = 1
    MaxEdits = 2
    MaxFailures = 1

    
PROPERTIES
    ServedSettles
CHECK_DEADLOCK FALSE
