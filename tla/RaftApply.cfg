SPECIFICATION FairSpec
CONSTANTS
    h1 = h1
    h2 = h2
    Handlers = {h1, h2}
    MaxIndex = 4
    SnapShotInterval = 2
    MaxInstalls = 2
    MaxRestarts = 1
INVARIANTS
    NothingIsLost
    CommandsComeOnce
PROPERTIES
    CommitsAreApplied
    InstallSnapshotReturns
CHECK_DEADLOCK FALSE
