SPECIFICATION FairSpec
CONSTANTS
    JobCount = 1
    FifoFrames = 4
    FrameSizes = {1}
    Latencies = {1}
    Clients = {c1}
    StoreBuffer = FALSE
    MaxBlocks = 3
    MaxStarts = 0
    Silence = Silence
PROPERTY EveryProcessReturns
CHECK_DEADLOCK FALSE
