SPECIFICATION FairSpec
CONSTANTS
    c1 = c1
    c2 = c2
    s1 = s1
    s2 = s2
    s3 = s3
    s4 = s4
    Ctrlers = {c1, c2}
    NShards = 7
    Gids = {1, 2, 3, 4}
    Servers = {s1, s2, s3, s4}
    Joins <- MCJoins
    Leaves <- MCLeaves
    MaxNum = 4
INVARIANTS
    Balanced
    MovesAreNeeded
    CtrlersAgree
    OneGroupPerServer
    IsMemberMeansPresent
PROPERTIES
    RebalanceEnds
CHECK_DEADLOCK FALSE
