\* Two overlapping submissions, losses, store failures and a crash.
CONSTANTS
    Nodes = {a, b, c}
    Primaries = {a}
    Subs = {1, 2}
    Timestamps = {1, 2}
    Chat = {}
    Attach = {}
    Deletes = {2}
    Big = {}
    Expires = {2}
    PeerNum = 2
    StdMinPeerNum = 2
    StoreMayFail = TRUE
    Lossy = TRUE
    MaxCrashes = 1
    NoBlock = NoBlock
    NoSub = NoSub
SPECIFICATION Spec
SYMMETRY FollowerSymmetry
INVARIANTS QuorumApplied DurableCommit ToldAfterCommit
PROPERTIES ImplementsQuorumCommit
\* Every submission may have been handled: nothing is left to do.
CHECK_DEADLOCK FALSE
