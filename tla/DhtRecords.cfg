\* Every kind of key at every level, with one failure or restart.
CONSTANTS
    Nodes = {n1, n2}
    Items = {i1, i2}
    Jobs = {j1, j2}
    Kinds = {"client", "src", "chat", "block"}
    Levels = {0, 1, 2}
    MaxVersion = 2
    MaxJobs = 2
    MaxPuts = 1
    MaxTroubles = 1
    None = None
SPECIFICATION Spec
INVARIANT NonLocalFound
PROPERTIES ImplementsRecordKeeper
SYMMETRY Symmetry
\* Every put and job may have ended.
CHECK_DEADLOCK FALSE
