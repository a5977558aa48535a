SPECIFICATION Spec
CONSTANTS
    Server = {s1, s2, s3}
    Command = {c1}
    None = None
    SnapshotAt = {}
    MaxTerm = 4
    MaxIndex = 1
    MaxRestarts = 0
    MaxInFlight = 1
SYMMETRY Symmetry
VIEW View
INVARIANTS
    ElectionSafety
    LeaderCompleteness
    CommittedIsDurable
    StateMachineSafety
CHECK_DEADLOCK FALSE
