SPECIFICATION Spec
CONSTANTS
    Designs = {app, lib}
    Plugins = {p, q}
    Remote = {q}
    Reqs = {1, 2}
    MaxFile = 3
    Attempts = 2
    Scenarios <- RemoveAndQuit
    None = None
INVARIANT NoResurrection
CHECK_DEADLOCK FALSE
