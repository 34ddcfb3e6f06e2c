CONSTANTS
  BlockSize = 3
  MaxEntries = 4
  Pool <- MCPool
  Byte <- MCByte
  Bufs <- MCBufs
  IoFaults = FALSE
  CopyFaults = FALSE
  CopyDirs = {"forward"}
SPECIFICATION Spec
INVARIANTS
  SizeIsSumOfBlocks
  BlocksAccounted
  
  ReadsAreRight
PROPERTIES
  ImplementsInsertion
  DefragCompacts
  DefragTerminates
