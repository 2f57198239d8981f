SPECIFICATION Spec
CONSTANTS
    Cameras = {1, 2}
    Keys <- MCKeys
    CameraOf <- MCCameraOf
    Stages = {1, 2}
    Needs <- MCNeeds
    Capacity = 1
    Policy = "greediest_camera"
    Sweeper = "sweeper"
    Stopper = "stopper"
    Threads = {"w1", "w2", "sweeper", "stopper"}
    MaxOpens = 2
    Items = {1, 2}
    KeyOf <- MCTwoKeys
    PerWakeup = 2
    Environment = {"raise"}
INVARIANTS
    LoopSurvives
CHECK_DEADLOCK FALSE
