\* One connection under fair scheduling; the proof has any number of them.
CONSTANTS
    Sockets = {1}
    Sessions = {s}
    OutCap = 2
    NoSocket = NoSocket
    NoSession = NoSession
SPECIFICATION SocketFairSpec
INVARIANT EndedForgotten
PROPERTIES Reclaimed SendRawReturns
\* Every connection may have been made and ended.
CHECK_DEADLOCK FALSE
