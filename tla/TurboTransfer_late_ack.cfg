SPECIFICATION Spec
CONSTANTS
    Models = {"Machinedrum"}
    Payloads <- NamedFiles
    PacketModulus = 4
    MaxRetries = 2
    ResponseCapacity = 2
    PortCapacity = 2
    PhaseLimit = 1
    WaitLimit = 2
    LateReplies = TRUE
    Faults = {"reject"}
    MaxFaults = 1
    MaxTransfers = 2
    MaxCancels = 1
INVARIANTS
    AcknowledgedSamplesAreComplete
CHECK_DEADLOCK FALSE
