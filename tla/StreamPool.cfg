\* Two connections of a client, two streams at a time, one restart.
CONSTANTS
    Conns = {1, 2}
    Streams = {1, 2}
    Msgs = {m}
    Chats = {m}
    Stay = 2
    MaxCrashes = 1
    NoConn = NoConn
    NoPipe = NoPipe
    DeadPipe = DeadPipe
SPECIFICATION FairSpec
INVARIANTS PushAccounted RecordHasPipe
PROPERTIES SettlesUp
\* Every connection may have ended and every message been handled.
CHECK_DEADLOCK FALSE
