SPECIFICATION WindowsSpec
CONSTANTS
    Vaults = {v1, v2}
    Outside = Outside
    None = None
    RecentLimit = 2
    Scenarios <- MCAnyFlow
PROPERTIES
    LandsInActive
CHECK_DEADLOCK FALSE
