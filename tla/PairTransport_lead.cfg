SPECIFICATION Spec
CONSTANTS
    Num = 3
    Den = 2
    Frame = 3
    Quantum = 8
    MinChunk = 2
    Clamp = 3
    Safety = 4
    BpThreshold = 0
    BpRelease = 4
    RingSize = 1
    Handoffs <- BothHeldSession
PROPERTIES
    LeadKept
CHECK_DEADLOCK FALSE
