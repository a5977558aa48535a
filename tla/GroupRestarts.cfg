SPECIFICATION Spec
CONSTANTS
    c1 = c1
    s1 = s1
    s2 = s2
    None = None
    Clnts = {c1}
    Servers = {s1, s2}
    ClerkServers = {s1}
    MaxCalls = 2
    MaxOps = 2
    Conns <- MCConns
    Ids <- MCIds
INVARIANTS
    AcknowledgedIsSaved
    ServicesAreReady
    LinksFollowOperations
    RepliesMatchCalls
CHECK_DEADLOCK FALSE
PROPERTIES
    SendReceiveReturns
    CallsReturn
