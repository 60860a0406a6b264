SPECIFICATION FairSpec
CHECK_DEADLOCK FALSE
CONSTANTS
    u1 = u1
    s1 = s1
    n1 = n1
    UserInputs = {u1}
    Steers = {s1}
    TriggerMails = {}
    PlainMails = {n1}
    Injected = {}
    IdleItems = {}
    Guardian = FALSE
    MaxTurns = 3
    MaxStates = 3
    MaxInterrupts = 1
    MaxCompacts = 1
    MaxShutdowns = 1
    MaxSteps = 1
PROPERTIES
    StartedTurnEnds
    InputSettles
    ImplementsTurnSlot
