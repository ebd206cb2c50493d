SPECIFICATION FairSpec
CONSTANTS
    JobCount = 1
    FifoFrames = 4
    FrameSizes = {2}
    Latencies = {1}
    Clients = {c1, c2}
    StoreBuffer = FALSE
    MaxBlocks = 2
    MaxStarts = 1
    Silence = Silence
INVARIANT PauseExcludesRender
PROPERTIES
    ProcessReturns
    PauseReturns
    FinishReturnsOrRestart
    RenderCatchesUp
