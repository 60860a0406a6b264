SPECIFICATION Spec
CHECK_DEADLOCK FALSE
CONSTANTS
    u1 = u1
    s1 = s1
    m1 = m1
    UserInputs = {u1}
    Steers = {s1}
    TriggerMails = {m1}
    PlainMails = {}
    Injected = {}
    IdleItems = {}
    Guardian = FALSE
    MaxTurns = 3
    MaxStates = 3
    MaxInterrupts = 1
    MaxCompacts = 1
    MaxShutdowns = 1
    MaxSteps = 1
INVARIANTS
    TypeOK
    NoInputLost
    NoTaskOverwritten
PROPERTIES
    WaiterOutlivesWait
