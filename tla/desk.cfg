SPECIFICATION WindowsSpec
CONSTANTS
    Vaults = {v1, v2}
    Outside = Outside
    None = None
    RecentLimit = 2
    Scenarios <- MCScenarios
INVARIANTS
    FactsFollow
    PauseSticks
    WindowsTold
PROPERTIES
    WritesPlaced
    AsksEnd
CHECK_DEADLOCK FALSE
