SPECIFICATION Spec
SYMMETRY Symmetry
VIEW View
CONSTANTS
    Threads = {t1}
    Workers = {w1, w2}
    MaxUpdates = 2
    MaxRunning = 1
    MaxRetries = 1
    Stalls = TRUE
    MaxFaults = 1
    MaxRequests = 1
INVARIANTS
    TypeOK
    OutputIsLatest
    BaselineDigested
    SelectedDigested
