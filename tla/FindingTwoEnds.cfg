SPECIFICATION Spec
CHECK_DEADLOCK FALSE
CONSTANTS
    u1 = u1
    u2 = u2
    UserInputs = {u1, u2}
    Steers = {}
    TriggerMails = {}
    PlainMails = {}
    Injected = {}
    IdleItems = {}
    Guardian = TRUE
    MaxTurns = 2
    MaxStates = 4
    MaxInterrupts = 0
    MaxCompacts = 0
    MaxShutdowns = 0
    MaxSteps = 1
INVARIANTS
    OneTerminalEvent
