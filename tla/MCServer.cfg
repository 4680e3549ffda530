SPECIFICATION ServerSpec
CONSTANTS
    Person = {ann}
    MaxInvites = 3
    Handler = {h1, h2}
    n1 = n1
    n2 = n2
    p1 = p1
    p2 = p2
    p3 = p3
    p4 = p4
    Node = {n1, n2}
    Peer = {p1, p2, p3, p4}
    NodeOf <- MCNodeOf
    MaxSent = 2
    MaxSessions = 2
    MaxRestarts = 1
    ReceiveCap = 1
    MaxEvents = 4
    MaxStreams = 2
    BatchSize = 1
SYMMETRY Sym
CONSTRAINT OneExtra
INVARIANTS
    OneSuccessor
    ClaimedWasGranted
    RelayReachesAll
    StreamSkipsOnlyLateEvents
CHECK_DEADLOCK FALSE
