SPECIFICATION Spec
CONSTANTS
    None = None
    Torn = Torn
    Lives = 3
    Scenarios <- MCScenarios
PROPERTIES
    AlwaysOpens
CHECK_DEADLOCK FALSE
