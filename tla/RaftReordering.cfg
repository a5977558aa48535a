SPECIFICATION Spec
CONSTANTS
    Server = {s1, s2}
    Command = {c1}
    None = None
    SnapshotAt = {1}
    MaxTerm = 2
    MaxIndex = 2
    MaxRestarts = 1
    MaxInFlight = 2
SYMMETRY Symmetry
VIEW View
INVARIANTS
    StateMachineSafety
    NothingSkipped
PROPERTIES
    CommittedIsKept
    VoteIsKept
CHECK_DEADLOCK FALSE
