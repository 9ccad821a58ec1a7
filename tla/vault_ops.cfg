SPECIFICATION Spec
CONSTANTS
    Files = {f, g}
    NewIds = {n}
    Reqs = {1, 2}
    Checkpoints = {1, 2}
    Budgets <- MCBudgets
    MaxSettle = 3
    None = None
INVARIANTS
    GoneForGood
    SyncAsWished
PROPERTIES
    CheckpointHolds
    EntriesCover
    DeletesEnd
CHECK_DEADLOCK FALSE
