CONSTANTS
    r1 = r1
    w1 = w1
    w2 = w2
    x = x
    y = y
    NoProc = NoProc
    Readers <- OneReader
    Writers <- TwoWriters
    Killable <- OneReader
    Bytes <- TwoBytes
    PIPESIZE = 2
    WORD = 4
    Sizes = {1, 3}
SPECIFICATION FairSpec
INVARIANTS TypeOK NoMissedWakeup
PROPERTIES Fifo EndOfFile DataDelivered
CHECK_DEADLOCK FALSE
