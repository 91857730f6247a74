SPECIFICATION Spec
CONSTANTS
    Clients = {a}
    MaxTurns = 3
    MaxRounds = 2
    MaxCompactions = 2
    MaxRestarts = 1
CHECK_DEADLOCK FALSE
INVARIANTS
    TypeOK
    PersistedHistoryIsConsistent
    NothingForgotten
    RequestsCarryTheConversation
