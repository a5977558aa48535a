SPECIFICATION Spec
CONSTANTS
    Word = {1, 2}
    Hash <- MCHash
    Inputs <- MCInputs
    Worker = {w1, w2}
    NMap = 2
    NReduce = 2
    None = None
    MaxCrashes = 0
    MaxSlow = 1
INVARIANT OutputIsComplete
CHECK_DEADLOCK FALSE
