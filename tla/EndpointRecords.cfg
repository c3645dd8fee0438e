\* Two messages at a time, four in all, three addresses, one restart.
CONSTANTS
    Slots = {m1, m2}
    MaxAddr = 2
    MaxTime = 4
    MaxSends = 4
    MaxRestarts = 1
    NoRow = NoRow
SPECIFICATION EndpointFairSpec
PROPERTIES DownStaysDown StayingPeerUp
\* The bounds may be used up.
CHECK_DEADLOCK FALSE
