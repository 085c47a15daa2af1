CONSTANTS
    c1 = c1
    c2 = c2
    CPUs <- TwoCPUs
    NoCPU = NoCPU
    NPROC = 4
    MaxPid = 4
    KillPids = {2}
SPECIFICATION Spec
SYMMETRY Symmetry
VIEW View
INVARIANTS
    TypeOK
    OneCpuPerProcess
    WaitSleepsForAReason
    Family
