SPECIFICATION Spec
CONSTANTS
    Streams = {s1}
    Script <- LongTurn
    Readers = {"patient"}
    Compactions = {k1}
    TraceBuffer = 1
    CompactBuffer = 4
    MaxStorageErrors = 0
CHECK_DEADLOCK FALSE
INVARIANTS
    TypeOK
    NothingElseDropped
    TraceIsComplete
    
    BarrierLeaksAtMostOne
PROPERTIES
    BarrierReopens
