SPECIFICATION Spec
SYMMETRY Symmetry
VIEW View
CHECK_DEADLOCK FALSE
CONSTANTS
    Recorder = recorder
    Updater = updater
    Openers = {recorder, updater}
    Compressors = {w1, w2}
    MaxItems = 2
    MaxSessions = 2
    MaxFaults = 1
    MaxQueue = 1
INVARIANTS
    TypeOK
    AckedReadable
    RecordedInOrder
    AcceptedKept
    SiblingIsOlder
PROPERTIES
    HistoryKept
