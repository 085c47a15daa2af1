CONSTANTS
    p1 = p1
    p2 = p2
    p3 = p3
    k1 = k1
    k2 = k2
    k3 = k3
    v0 = v0
    v1 = v1
    None = None
    a1 = a1
    a2 = a2
    NoProc = None
    NoBlock = None
    Procs <- ThreeProcs
    Blocks <- ThreeBlocks
    Vals <- TwoVals
    NBUF = 2
    MaxDirty = 1
    NCPU = 3
    Early = 2
    Late = 2
    Processors = {a1, a2}
    Locks = {1, 2}
    NoCpu = None
    Paths <- KernelPaths
    Handlers <- HandlerPaths
    Artists <- TwoArtists
    CANVAS_WIDTH = 4
    CANVAS_HEIGHT = 2
    White = None
    Origin <- Corners
    Tries = 3
    Strokes = 2
    Names = {"ls", "wc"}
    HIST = 3
    MaxLines = 4
    Entries = {1, 2}
    Capacity = 2
    Keys = {"a", "b", "cd"}
    Values = {1, 2}
    NoItem = 0
    NoVal = 0
    KeyLen <- KeyLengths
    BUCKETS = 2
    HDR = 2
    Requests = {1, 3}
    Counts = {0, 2}
    Gaps = {0, 1}
    MaxHeap = 14
SPECIFICATION PartsSpec
INVARIANTS BufferCacheSound NothingLost SpinLocksSound PagesGivenOnce
    NoIslands HeapsWhole PromptSettled ContainersKeep FunctionsAgree
SYMMETRY PartsSymmetry
CHECK_DEADLOCK FALSE
