SPECIFICATION Spec
CONSTANTS
    c1 = c1
    c2 = c2
    c3 = c3
    Callers = {c1, c2, c3}
    Names = {telegram}
    DefaultSession = default
    Blank = blank
    InitialRows <- MCInitialRows
    MaxProviders = 3
    MaxTurns = 1
    MaxCloses = 1
SYMMETRY CallerSymmetry
CHECK_DEADLOCK FALSE
INVARIANTS
    TypeOK
    Agreement
    SessionIsolation
    StackAccounting
    FreshHydration
PROPERTY
    ImplementsDirectory
