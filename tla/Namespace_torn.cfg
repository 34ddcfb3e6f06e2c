\* A name of 28 characters, and one read that fails.
CONSTANTS
    NrInodes = 4
    MaxSubfiles = 2
    a = a
    b = b
    c = c
    Names <- MCNames
    Stored <- MCStoredCut
    LinkSpan = 8
    MaxFaults = 1
SPECIFICATION Spec
INVARIANTS DirectoriesDense TreeIsWhole 
\* A step that left its directory block has no defined continuation.
CHECK_DEADLOCK FALSE
