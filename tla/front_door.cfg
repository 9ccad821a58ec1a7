SPECIFICATION Spec
CONSTANTS
    None = None
    Torn = Torn
    Lives = 3
    Scenarios <- MCScenarios
INVARIANTS
    HoldsKey
    AsWished
    OutcomeTold
    AssetRight
PROPERTIES
    Opens
CHECK_DEADLOCK FALSE
