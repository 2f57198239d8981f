SPECIFICATION MCSpec
CONSTANTS
    x1 = x1
    x2 = x2
    Groups = {1}
    Cameras = {1, 2}
    Workers = {w1, w2, w3}
    GroupOf <- MCOneGroup
    Roster = {1, 2}
    Churn = {2}
    Times = {0, 1, 3}
    Window = 2
    MaxInstants = 0
    DefaultInstants = 1
    RecentFloor = 1
    RecentFactor = 1
    Refusals = 1
    MaxFrames = 3
    Never = Never
INVARIANTS
    NobodyWaitsInVain
PROPERTIES
    InstantsInOrder
    GroupAnswersForItsOwn
    IdentityIsOneObject
SYMMETRY Symmetry
CHECK_DEADLOCK FALSE
