SPECIFICATION MCSpec
CONSTANTS
    Items <- MCItems
    Cameras = {"a", "b"}
    CameraOf <- MCCameraOf
    PriorityOf <- MCPriorityOf
    RowsOf <- MCRowsOf
    WithDeadline = {2, 4}
    PriorityLevels = 2
    Capacity = 3
    Overflow = "block"
    DropExpired = TRUE
    MaxBatch = 2
    Delays = TRUE
    Preferred = {}
    Worker = worker
INVARIANTS
    LanesConsistent
    NoLostWakeup
    FairService
    EachFrameLeavesOnce
PROPERTIES
    NoCameraWronged
    FloodPaysForItself
    QueuesKeepContract
    EveryPutAnswered
