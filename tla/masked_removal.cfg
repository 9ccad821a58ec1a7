SPECIFICATION ContractSpec
CONSTANTS
    Comps = {1, 2, 3}
    Words = {1, 2}
    Variants = {1, 2}
    Axes = {"size"}
    Tokens = {"t"}
    Types = {1, 2}
    Colours = {"c"}
    MaxEdits = 3
    Absent = Absent
    Libraries <- MCLibraries
INVARIANTS BreaksTold
CHECK_DEADLOCK FALSE
