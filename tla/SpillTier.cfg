SPECIFICATION LiveSpec
CONSTANTS
    Requests = {r1, r2}
    Room = 1
    Environment = {"ownerDies", "submitterDies", "hiccup", "stopOwner", "stopSubmitter"}
INVARIANTS
    InGoodHands
PROPERTIES
    NothingStaysOver
CHECK_DEADLOCK FALSE
