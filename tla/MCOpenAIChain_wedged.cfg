SPECIFICATION Spec
CONSTANTS
    Clients = {a}
    MaxTurns = 2
    MaxRounds = 1
    MaxCompactions = 0
    MaxBrokenOff = 0
    MaxRestarts = 1
CHECK_DEADLOCK FALSE
INVARIANTS
    PersistedCursorIsUsable
