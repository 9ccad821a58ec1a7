SPECIFICATION WindowsSpec
CONSTANTS
    Vaults = {v1, v2}
    Outside = Outside
    None = None
    RecentLimit = 2
    Scenarios <- MCGhost
INVARIANTS
    AlwaysOpened
CHECK_DEADLOCK FALSE
