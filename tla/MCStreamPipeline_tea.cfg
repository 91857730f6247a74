SPECIFICATION Spec
CONSTANTS
    Streams = {s1}
    Script <- ShortTurn
    Readers = {"hasty"}
    Compactions = {}
    TraceBuffer = 4
    CompactBuffer = 4
    MaxStorageErrors = 1
CHECK_DEADLOCK FALSE
INVARIANTS
    ResponsePreserved
