SPECIFICATION FairSpec
CONSTANTS
    Num = 3
    Den = 2
    Frame = 3
    Quantum = 8
    MinChunk = 2
    Clamp = 3
    Safety = 4
    BpThreshold = 0
    BpRelease = 2
    RingSize = 1
    Handoffs <- Sessions
INVARIANTS
    NoLostWakeup
    WordsOnTime
PROPERTIES
    BlockEnds
CHECK_DEADLOCK FALSE
