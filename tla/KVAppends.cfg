SPECIFICATION TestSpec
CONSTANTS
    c1 = c1
    c2 = c2
    k = k
    Clerk = {c1, c2}
    Key = {k}
    SharedKey = k
    Value <- MCValue
    None = None
    MaxOps = 4
    MaxVersion = 4
    MaxLate = 1
INVARIANTS
    TypeOK
    AtMostOnce
    AnswersAreTrue
    TestsPass
    AppendsAreExact
    AtLeastOnceIsKnown
PROPERTIES
    PorcupineAccepts
    EveryCallReturns
CHECK_DEADLOCK FALSE
