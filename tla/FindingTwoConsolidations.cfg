SPECIFICATION Spec
SYMMETRY Symmetry
CONSTANTS
    Threads = {t1}
    Workers = {w1, w2}
    MaxUpdates = 2
    MaxRunning = 1
    MaxRetries = 1
    Stalls = FALSE
    MaxFaults = 0
    MaxRequests = 1
INVARIANTS
    OneConsolidation
