SPECIFICATION FairSpec
CONSTANTS
    Word = {1, 2}
    Hash <- MCHash
    Inputs <- MCInputs
    Worker = {w1, w2, w3}
    NMap = 2
    NReduce = 2
    None = None
    MaxCrashes = 1
    MaxSlow = 1
INVARIANTS TypeOK PhasesInOrder CrashesAreHarmless OutputIsSequential
PROPERTY JobEnds
CHECK_DEADLOCK FALSE
