CONSTANTS
  BlockSize = 2
  MaxEntries = 3
  Pool <- MCPool
  Byte <- MCByte
  Bufs <- MCBufs
  IoFaults = FALSE
  CopyFaults = FALSE
  CopyDirs = {"forward"}
  IndexStays = FALSE
SPECIFICATION ModesSpec
PROPERTY
  FlushKeepsContent
