SPECIFICATION Spec
CONSTANTS
    Order <- MCOrder
    Guarded <- MCGuarded
    PG = "postgres"
    Leftovers = {"exporter"}
    MaxLives = 2
    MaxSpawns = 2
    MaxRetries = 1
    MaxCrashes = 1
    LsofWorks = TRUE
    None = None
INVARIANTS
    AlwaysCurrentSet
CHECK_DEADLOCK FALSE
