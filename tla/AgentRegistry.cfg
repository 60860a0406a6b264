SPECIFICATION Spec
CHECK_DEADLOCK FALSE
CONSTANTS
    left = left
    right = right
    plain = plain
    p = p
    r1 = r1
    r2 = r2
    x1 = x1
    x2 = x2
    n = n
    Spawns = {left, right}
    Stored = {plain}
    Resumes = {r1, r2}
    Closes = {x1, x2}
    Paths = {p}
    NoPath = "no path"
    pathOf <- MCPathOf
    Root = "root thread"
    RootPath = "root"
    Names = {n}
    NoName = NoName
    MaxThreads = 2
INVARIANTS
    TypeOK
    SlotsAccountedFor
    LimitKept
    PathsExclusive
    NicknamesDistinct
PROPERTIES
    OnlyPathlessReplaced
