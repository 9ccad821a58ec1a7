SPECIFICATION Spec
CONSTANTS
    None = None
    Torn = Torn
    Lives = 3
    Scenarios <- MCScenarios
INVARIANTS
    AlwaysAsWished
CHECK_DEADLOCK FALSE
