SPECIFICATION MCSpec
CONSTANTS
    N = 2
    Threads = {t1, t2}
    Messages = {1, 2, 3}
    NoThread = NoThread
    NoSlot = NoSlot
    Torn = Torn
    SinkEvents = {1, 2, 3, 4}
    SinkWorkers = {1, 2}
    MaxUnacked = 2
    Cameras = {"a", "b"}
    Setups <- MCSetups
    SizeOf <- MCSizeOf
    Buffers = {"b1", "b2", "b3"}
    OutputSurfaces = 2
    DecodeSurfaces = 1
    Capacity = 2
    MaxPooled = 1
    MaxConnects = 3
    MaxFrames = 3
INVARIANTS
    SlotsInOneHand
    ReadAsWritten
    RefusalsToldOnce
    FramesInGoodMemory
PROPERTIES
    KeepsContract
SYMMETRY Symmetry
CHECK_DEADLOCK FALSE
