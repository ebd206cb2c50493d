SPECIFICATION ScenariosSpec
CONSTANTS
    Models = {"Machinedrum"}
    Payloads <- AllFiles
    PacketModulus = 3
    MaxRetries = 2
    ResponseCapacity = 2
    PortCapacity = 2
    PhaseLimit = 1
    WaitLimit = 2
    LateReplies = TRUE
    Faults = {"lose", "miss", "reject", "wait", "cancel", "bad", "noise"}
    MaxFaults = 2
    MaxTransfers = 1
    MaxCancels = 1
INVARIANTS
    TypeOK
    CompleteMeansDelivered
    AcknowledgedMeansReceived
    NoSampleOvertaken
    PositionsAgree
    WireReleasedClean
    OutcomeIsTrue
    SentOnlyWhenReady
PROPERTIES
    TransferEnds
CHECK_DEADLOCK FALSE
