SPECIFICATION FairSpec
CONSTANTS
    EventSizes = {3}
    CommandSizes = {2}
    FileSizes = {2}
    RealtimeCapacity = 3
    MidiInCapacity = 1
    ScheduledCapacity = 2
    PortCapacity = 2
    PanelCapacity = 1
    Offsets = {0, 1}
    Latencies = {0, 1}
    MaxTime = 2
    MaxEvents = 2
    MaxCommands = 2
    MaxFiles = 1
INVARIANTS
    TypeOK
    NoMessageSplit
    EventsInTimeOrder
    EventsKept
    CommandsInOrder
    BoundaryHeld
PROPERTIES
    TransferReleases
    EventsArrive
