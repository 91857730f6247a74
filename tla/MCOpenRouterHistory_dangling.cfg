SPECIFICATION Spec
CONSTANTS
    Clients = {a, b}
    MaxTurns = 2
    MaxRounds = 1
    MaxCompactions = 0
    MaxRestarts = 0
CHECK_DEADLOCK FALSE
INVARIANTS
    PersistedHistoryIsConsistent
