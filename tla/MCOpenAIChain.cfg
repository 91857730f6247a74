SPECIFICATION Spec
CONSTANTS
    Clients = {a}
    MaxTurns = 2
    MaxRounds = 1
    MaxCompactions = 2
    MaxBrokenOff = 1
    MaxRestarts = 1
CHECK_DEADLOCK FALSE
INVARIANTS
    TypeOK
    NothingForgotten
    RequestsCarryTheConversation
PROPERTIES
    CompactionIsAllOrNothing
