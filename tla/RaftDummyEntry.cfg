SPECIFICATION Spec
CONSTANTS
    Server = {s1, s2, s3}
    Command = {c1}
    None = None
    SnapshotAt = {1}
    MaxTerm = 1
    MaxIndex = 1
    MaxRestarts = 0
    MaxInFlight = 2
SYMMETRY Symmetry
VIEW View
INVARIANT StateMachineSafety
CHECK_DEADLOCK FALSE
