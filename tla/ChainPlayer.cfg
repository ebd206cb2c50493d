SPECIFICATION Spec
CONSTANTS
    a = a
    b = b
    c = c
    None = None
    Patterns = {a, b, c}
    Length <- MCLength
    Steps <- MCLength
    TicksPerStep = 2
    CommitTicks = 3
    TickModulus = 256
    Chains <- MCChains
    Positions = {5}
    MaxTick = 16
    MaxOthers = 2
INVARIANTS
    PlaysTheChain
    StartBelief
