CONSTANTS
    c1 = c1
    c2 = c2
    CPUs <- OneCPU
    NoCPU = NoCPU
    NPROC = 3
    MaxPid = 3
    KillPids = {0}
SPECIFICATION Spec
INVARIANT KilledByPid
CHECK_DEADLOCK FALSE
