CONSTANTS
    w1 = w1
    w2 = w2
    c1 = c1
    c2 = c2
    NULL = NULL
    Workers <- MCWorkers
    CIs <- MCCIs
    MaxEdits = 1
    MaxFaults = 1
    EditsIgnoreLock = FALSE
SPECIFICATION FairSpec
PROPERTIES
    Convergence
