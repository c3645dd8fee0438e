CONSTANTS
    me = me
    far = far
    near = near
    bare = bare
    c1 = c1
    Configs <- MCConfigs
    Peers <- MCPeers
    Where <- MCWhere
    Me = me
    Clients = {c1}
    Slots = {1}
    MaxStarts = 2
    MaxEvents = 2
SPECIFICATION FairSpec
INVARIANTS
    OneIdentity
    KnowsItself
PROPERTIES
    Stops
    Tried
    Joined
\* The node rests when it is up, or stopped for the last time.
CHECK_DEADLOCK FALSE
