SPECIFICATION Spec
CONSTANTS
    None = None
    Torn = Torn
    Lives = 3
    Scenarios <- MCScenarios
INVARIANTS
    AlwaysTold
CHECK_DEADLOCK FALSE
