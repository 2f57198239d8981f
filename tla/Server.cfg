SPECIFICATION MCSpec
CONSTANTS
    x1 = x1
    x2 = x2
    e1 = e1
    e2 = e2
    Threads = {a, b, c}
    Startup <- MCStartup
    Ensemble = {"ensemble"}
    Deployments <- MCDeployments
    Rings = 2
    Calls = {"start", "stop", "load", "unload", "scrape"}
    Faults = {"sink", "load", "connect"}
    MaxCalls = 3
    None = None
INVARIANTS
    ModelsInReach
    UpOrDown
    AnswersAreTheirOwn
    RowsKeepTheirOwn
    SameAsInOrder
    ElementsKeepTheirState
SYMMETRY Symmetry
