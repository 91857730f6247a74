SPECIFICATION Spec
CONSTANTS
    Streams = {s1}
    Script <- ShortTurn
    Readers = {"patient", "hasty"}
    Compactions = {}
    TraceBuffer = 1
    CompactBuffer = 4
    MaxStorageErrors = 2
CHECK_DEADLOCK FALSE
INVARIANTS
    FailuresSurface
PROPERTIES
    StreamEnds
