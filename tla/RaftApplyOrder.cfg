SPECIFICATION FairSpec
CONSTANTS
    h1 = h1
    h2 = h2
    Handlers = {h1, h2}
    MaxIndex = 3
    SnapShotInterval = 2
    MaxInstalls = 2
    MaxRestarts = 1
INVARIANTS
    AppliedInOrder
CHECK_DEADLOCK FALSE
