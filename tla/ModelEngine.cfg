SPECIFICATION LiveSpec
CONSTANTS
    N = 2
    Requests = {r1, r2}
    Capacities = {1, 2}
    MaxBatch = 2
    Limit = 1
    Strict = TRUE
INVARIANTS
    BackendOutlivesWorker
    AnsweredFromOnePlace
    BooksBalance
PROPERTIES
    EndsWell
CHECK_DEADLOCK FALSE
