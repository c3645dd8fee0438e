\* An older session and the one the client stays on, with a restart before it.
CONSTANTS
    Sessions = {1, 2}
    Msgs = {m}
    Relays = {1}
    Plain = {1}
    Stay = 2
    MaxCalls = 2
    MaxCrashes = 1
    NoSession = NoSession
SPECIFICATION FairSpec
INVARIANT Accounted
PROPERTIES SettlesUp Relayed
\* A session may have ended and every message been handled.
CHECK_DEADLOCK FALSE
