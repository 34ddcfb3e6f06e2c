\* Names of fewer than 28 characters, every read succeeds.
CONSTANTS
    NrInodes = 5
    MaxSubfiles = 3
    a = a
    b = b
    c = c
    Names <- MCNames
    Stored <- MCStoredWhole
    LinkSpan = 8
    MaxFaults = 0
SPECIFICATION Spec
SYMMETRY MCSymmetry
INVARIANTS TypeOK DirectoriesDense NamesUnique TreeIsWhole LinkCounts InodesAccounted NoDuplicateListing SkipsAreBounded
\* A step that left its directory block has no defined continuation.
CHECK_DEADLOCK FALSE
