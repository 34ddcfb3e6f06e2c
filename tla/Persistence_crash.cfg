CONSTANTS
  NrBlocks = 10
  InodesPerBlock = 10
  BitsPerBlock = 7
  MaxEntries = 1
  MaxFiles = 2
  Calls <- MCCalls
  MaxCalls = 4
  MaxSyncs = 1
  MaxEvents = 1
SPECIFICATION Spec
INVARIANTS
  TypeOK
  
  
  
CHECK_DEADLOCK FALSE
