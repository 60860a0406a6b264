SPECIFICATION FairSpec
CHECK_DEADLOCK FALSE
CONSTANTS
    write1 = write1
    read1 = read1
    read2 = read2
    write2 = write2
    other = other
    free = free
    Requests = {write1, read1, read2, free}
    Keys = {"k", "l"}
    Unkeyed = "unkeyed"
    Conns = {"c", "d"}
    keyOf <- MCKeyOf
    accessOf <- MCAccessOf
    connOf <- MCConnOf
    Hung = {free}
INVARIANTS
    TypeOK
    ExclusiveRunsAlone
    DispatchOrder
    OneDrainer
    QuietAfterDrain
PROPERTIES
    RequestsSettle
