SPECIFICATION MCSpec
CONSTANTS
    c1 = c1
    c2 = c2
    Nowhere = Nowhere
    w1 = w1
    Cameras <- MCCameras
    Items <- MCItems
    Workers <- MCWorkers
    Elements <- MCElements
    NeedsModel <- MCElements
    Configured <- MCConfigured
    Requested <- MCRequested
    Raises <- MCRaises
    Capacity = 2
    WakeUp = 2
    MaxCycle = 2
INVARIANTS
    StopLeavesNothingOpen
    CamerasFollowPlacement
    MapIsAuthoritative
SYMMETRY Symmetry
CHECK_DEADLOCK FALSE
