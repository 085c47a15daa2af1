CONSTANTS
    N = 10
    a1 = a1
    a2 = a2
    x = x
    y = y
    k1 = k1
    k2 = k2
    k3 = k3
    NoBlock = NoBlock
    NoProc = NoProc
    Ops = {a1, a2}
    Blocks = {k1, k2, k3}
    Vals = {x, y}
    MAXOPBLOCKS = 2
    LOGSIZE = 4
    LogSize = 4
    OpBlocks = 2
    Procs = {a1, a2}
    WORD = 4
    Naps <- SomeNaps
    NPROC = 5
    NOFILE = 5
    NPIPES = 2
    PIPESIZE = 1
    Output = 2
    Commands <- SomeCommands
    Trees <- SomeTrees
    Lines = 2
SPECIFICATION PartsSpec
INVARIANTS RunInTurn DestroyedUnused NothingLeftOver LogSound
PROPERTIES EveryWaitEnds CrashAtomic SleepsLongEnough
CHECK_DEADLOCK FALSE
