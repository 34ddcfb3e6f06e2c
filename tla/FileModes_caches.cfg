CONSTANTS
  BlockSize = 2
  MaxEntries = 3
  Pool <- MCPool
  Byte <- MCByte
  Bufs <- MCBufs
  IoFaults = TRUE
  CopyFaults = TRUE
  CopyDirs = {"forward", "backward"}
  IndexStays = TRUE
SPECIFICATION ModesSpec
INVARIANTS
  ModesTypeOK
  ModeReadsAreRight
  WritesComplete
  BlocksKept
PROPERTY
  ImplementsOverwrite
