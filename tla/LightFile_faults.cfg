CONSTANTS
  BlockSize = 2
  MaxEntries = 3
  Pool <- MCPool
  Byte <- MCByteFaults
  Bufs <- MCBufsFaults
  IoFaults = TRUE
  CopyFaults = TRUE
  CopyDirs = {"forward"}
SPECIFICATION Spec
INVARIANTS
  SizeIsSumOfBlocks
  BlocksAccounted
PROPERTY
  ImplementsInsertion
