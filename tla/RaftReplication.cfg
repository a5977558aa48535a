SPECIFICATION Spec
CONSTANTS
    Server = {s1, s2, s3}
    Command = {c1}
    None = None
    SnapshotAt = {2}
    MaxTerm = 2
    MaxIndex = 2
    MaxRestarts = 0
    MaxInFlight = 1
SYMMETRY Symmetry
VIEW View
INVARIANTS
    TypeOK
    LogMatching
    MatchIndexIsStored
CHECK_DEADLOCK FALSE
