\* One large block, four nodes, no fault: the client is answered.
CONSTANTS
    Nodes = {a, b, c, d}
    Primaries = {a}
    Subs = {1}
    Timestamps = {1}
    Chat = {1}
    Attach = {}
    Deletes = {}
    Big = {1}
    Expires = {}
    PeerNum = 3
    StdMinPeerNum = 2
    StoreMayFail = FALSE
    Lossy = FALSE
    MaxCrashes = 0
    NoBlock = NoBlock
    NoSub = NoSub
SPECIFICATION FairSpec
PROPERTIES Answered
\* Every submission may have been handled: nothing is left to do.
CHECK_DEADLOCK FALSE
