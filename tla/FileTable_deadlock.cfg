CONSTANTS
    p1 = p1
    p2 = p2
    Procs <- TwoProcs
    NoProc = NoProc
    NINodes = 3
    NINODE = 3
    NFILE = 3
    NOFILE = 2
    Boot <- JustX
    Calls <- LinkUnlink
    MaxCalls = 3
SPECIFICATION Spec
INVARIANT NoCircularWait
SYMMETRY Symmetry
CHECK_DEADLOCK FALSE
