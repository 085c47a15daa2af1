CONSTANTS
    p1 = p1
    p2 = p2
    p3 = p3
    c1 = c1
    NoProc = NoProc
    Procs <- ThreeProcs
    MaxKills = 3
SPECIFICATION PartsSpec
INVARIANTS TypeOK MutualExclusion NoMissedWakeup
PROPERTIES SleeperWoken OrphanReaped KilledExits
CHECK_DEADLOCK FALSE
