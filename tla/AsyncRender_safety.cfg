SPECIFICATION Spec
CONSTANTS
    JobCount = 2
    FifoFrames = 8
    FrameSizes = {1, 2}
    Latencies = {1, 7}
    Clients = {c1}
    StoreBuffer = TRUE
    MaxBlocks = 4
    MaxStarts = 1
    Silence = Silence
INVARIANTS
    TypeOK
    SlotReuse
    FifoHasRoom
    FifoNoRace
    FifoContent
    OutputDelayed
    MidiInOrder
    MidiOutOrder
