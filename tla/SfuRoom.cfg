\* Three connections, two rooms, a room created again.
CONSTANTS
    Conns = {a, b, c}
    Rooms = {r, s}
    MaxSfus = 2
    MaxFails = 2
    NoSfu = NoSfu
SPECIFICATION SfuSpec
INVARIANTS TablesAgree EveryoneServed
SYMMETRY Symmetry
\* The process may have crashed, and everyone may be in a destroyed room.
CHECK_DEADLOCK FALSE
