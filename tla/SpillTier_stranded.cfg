SPECIFICATION Spec
CONSTANTS
    Requests = {r1, r2}
    Room = 1
    Environment = {"stopSubmitter"}
INVARIANTS
    NobodyStranded
CHECK_DEADLOCK FALSE
