SPECIFICATION ContractSpec
CONSTANTS
    Comps = {1, 2, 3}
    Words = {1, 2}
    Variants = {1, 2}
    Axes = {"size"}
    Tokens = {"t"}
    Types = {1, 2}
    Colours = {"c"}
    MaxEdits = 4
    Absent = Absent
    Libraries <- MCLibraries
INVARIANTS Labelled
CHECK_DEADLOCK FALSE
