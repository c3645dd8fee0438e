CONSTANTS
    p1 = p1
    a = a
    NoClient = NoClient
    Pairs <- ClientPairs
    Slots = {1, 2, 3}
    MaxSignals = 3
    MaxBoth = 1
    MaxRestarts = 1
    NoConn = 0
    Chats = {1, 2}
    MaxExpiries = 1
    MaxTroubles = 2
    Asks = {1, 2}
    RoomNames = {r1, r2}
    MaxFailures = 1
    NoName = NoName
    Nodes = {n1, n2}
    MaxSessions = 2
    MaxRowPuts = 2
    MaxHalts = 1
    MaxRefusals = 1
    Nowhere = Nowhere
SPECIFICATION Spec
INVARIANTS
    TypeOK
    Reachable
    CandidateKept
    NotifiedOnce
    RoomsTold
    SealedOpens
PROPERTIES
    HandlersEnd
    HopsArrive
\* The node rests when no message is left to come.
CHECK_DEADLOCK FALSE
