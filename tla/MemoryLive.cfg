SPECIFICATION FairSpec
VIEW PipelineView
CONSTANTS
    Threads = {t1}
    Workers = {w1}
    MaxUpdates = 2
    MaxRunning = 1
    MaxRetries = 2
    Stalls = TRUE
    MaxFaults = 1
    MaxRequests = 2
INVARIANTS
    DeletedLeavesNoMemory
PROPERTIES
    Forgotten
    Extracted
