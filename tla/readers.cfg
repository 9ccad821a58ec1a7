SPECIFICATION Spec
CONSTANTS
    f1 = f1
    f2 = f2
    p1 = p1
    p2 = p2
    k1 = k1
    m1 = m1
    m2 = m2
    Files = {f1, f2}
    Paths = {p1, p2}
    Packs = {k1}
    Boards = {m1, m2}
    BoardsOf <- MCBoardsOf
    Scenarios <- MCScenarios
    None = None
INVARIANTS
    RendersKept
    NeverBehind
PROPERTIES
    AsRebuilt
CHECK_DEADLOCK FALSE
