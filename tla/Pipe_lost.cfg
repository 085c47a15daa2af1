CONSTANTS
    r1 = r1
    w1 = w1
    w2 = w2
    x = x
    y = y
    NoProc = NoProc
    Readers <- OneReader
    Writers <- TwoWriters
    Killable <- TwoWriters
    Bytes <- OneByte
    PIPESIZE = 1
    WORD = 2
    Sizes = {1, 2}
SPECIFICATION FairSpec
PROPERTY DataDelivered
CHECK_DEADLOCK FALSE
