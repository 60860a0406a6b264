SPECIFICATION Spec
CHECK_DEADLOCK FALSE
CONSTANTS
    Recorder = recorder
    Updater = updater
    Openers = {recorder, updater}
    Compressors = {w1}
    MaxItems = 2
    MaxSessions = 2
    MaxFaults = 0
    MaxQueue = 1
INVARIANTS
    FlushedIsReadable
