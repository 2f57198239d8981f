SPECIFICATION LiveSpec
CONSTANTS
    Cameras = {1, 2}
    Keys <- MCKeys
    CameraOf <- MCCameraOf
    Stages = {1, 2}
    Needs <- MCNeeds
    Capacity = 1
    Policy = "greediest_camera"
    Sweeper = "sweeper"
    Stopper = "stopper"
    Threads = {"w1", "sweeper", "stopper"}
    MaxOpens = 2
    Items = {1, 2}
    KeyOf <- MCTwoKeys
    PerWakeup = 1
    Environment = {"stop", "timeout", "wedge"}
INVARIANTS
    NoFutureForgotten
PROPERTIES
    EveryFutureResolved
CHECK_DEADLOCK FALSE
