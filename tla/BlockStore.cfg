\* One fault, one repair, one pass and one late version around four versions.
CONSTANTS
    MaxSlices = 3
    Versions = {1, 2, 3, 4}
    Size <- MCSize
    Deletes = {4}
    Big = {1, 3}
    a = a
    b = b
    Peers = {a, b}
    Keys <- MCKeys
    Attach = FALSE
    MaxFaults = 1
    MaxRepairs = 1
    MaxPasses = 1
    MaxLate = 1
    None = None
SPECIFICATION Spec
INVARIANTS Complete Exact OrderlyAccepted
\* The versions and the passes may be used up.
CHECK_DEADLOCK FALSE
