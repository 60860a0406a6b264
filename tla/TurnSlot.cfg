SPECIFICATION Spec
CHECK_DEADLOCK FALSE
CONSTANTS
    Turns = {t1, t2, t3, t4}
    NoTurn = NoTurn
    t1 = t1
    t2 = t2
    t3 = t3
    t4 = t4
SYMMETRY Symmetry
INVARIANTS
    TypeOK
    OneTerminalEvent
    SilentAfterTerminalEvent
    FinishTakesOwnTask
    OneRunningTask
