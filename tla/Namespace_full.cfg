\* A directory with as many entries as its block has slots.
CONSTANTS
    NrInodes = 4
    MaxSubfiles = 2
    a = a
    b = b
    c = c
    Names <- MCNames
    Stored <- MCStoredWhole
    LinkSpan = 8
    MaxFaults = 0
SPECIFICATION Spec
SYMMETRY MCSymmetry
INVARIANTS StaysInBlock
\* A step that left its directory block has no defined continuation.
CHECK_DEADLOCK FALSE
