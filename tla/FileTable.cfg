CONSTANTS
    p1 = p1
    p2 = p2
    Procs <- TwoProcs
    NoProc = NoProc
    NINodes = 3
    NINODE = 3
    NFILE = 3
    NOFILE = 2
    Boot <- SomeFiles
    Calls <- SomeCalls
    MaxCalls = 3
SPECIFICATION Spec
INVARIANTS LinksCounted ReferencesSound NoPanic
SYMMETRY Symmetry
CHECK_DEADLOCK FALSE
