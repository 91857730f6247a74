SPECIFICATION RunnerSpec
CHECK_DEADLOCK FALSE
CONSTANTS
    Places <- MCPlaces
    Rounds <- MCRounds
    Trees <- MCTrees
INVARIANTS
    RunnerTypeOK
    UndisturbedCallsDoWhatTheySay
    OutputsAnswerTheirCalls
PROPERTY RoundEnds
