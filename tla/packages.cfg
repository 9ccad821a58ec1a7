SPECIFICATION Spec
CONSTANTS
    Designs = {app, lib}
    Plugins = {p, q}
    Remote = {q}
    Reqs = {1, 2}
    MaxFile = 3
    Attempts = 2
    Scenarios <- MCScenarios
    None = None
INVARIANTS
    ConsentedHere
PROPERTIES
    LinksHold
    Captured
CHECK_DEADLOCK FALSE
