SPECIFICATION PairSpec
CONSTANTS
    Cameras = {1, 2}
    Keys <- MCKeys
    CameraOf <- MCCameraOf
    Stages = {1}
    Needs <- MCOneStage
    Capacity = 1
    Policy = "greediest_camera"
    Sweeper = "sweeper"
    Stopper = "stopper"
    Threads = {"w1", "w2", "sweeper", "stopper"}
    MaxOpens = 2
    Items = {1, 2, 3, 4}
    KeyOf <- MCPairKeys
    PerWakeup = 1
    Environment = {"stop", "raise"}
INVARIANTS
    AwaitedAreOpen
    CompleteMeansWhole
CHECK_DEADLOCK FALSE
