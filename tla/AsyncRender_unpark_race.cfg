SPECIFICATION Spec
CONSTANTS
    JobCount = 2
    FifoFrames = 4
    FrameSizes = {1}
    Latencies = {1}
    Clients = {c1}
    StoreBuffer = TRUE
    MaxBlocks = 2
    MaxStarts = 0
    Silence = Silence
INVARIANT PauseExcludesRender
CHECK_DEADLOCK FALSE
