SPECIFICATION FairSpec
CONSTANTS
    Clerk = {c1, c2}
    Key = {k1}
    Value = {v1}
    None = None
    MaxOps = 2
    MaxVersion = 1
    MaxLate = 1
PROPERTY Linearizable
CHECK_DEADLOCK FALSE
