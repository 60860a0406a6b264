SPECIFICATION Spec
CHECK_DEADLOCK FALSE
CONSTANTS
    u1 = u1
    i1 = i1
    e1 = e1
    UserInputs = {u1}
    Steers = {}
    TriggerMails = {}
    PlainMails = {}
    Injected = {i1}
    IdleItems = {e1}
    Guardian = TRUE
    MaxTurns = 2
    MaxStates = 4
    MaxInterrupts = 0
    MaxCompacts = 0
    MaxShutdowns = 0
    MaxSteps = 1
INVARIANTS
    RecordedOnce
    RefusedNotRecorded
    SilentAfterTerminalEvent
