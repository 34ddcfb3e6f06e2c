CONSTANTS
  f1 = f1
  f2 = f2
  t1 = t1
  t2 = t2
  Tasks <- MCOneTask
  Files <- MCFiles
  NrBlocks = 7
  FirstData = 2
  MaxEntries = 4
  Word = 16
  Calls <- MCNoTrunc
  IoFaults = FALSE
SPECIFICATION Spec
INVARIANTS
  TypeOK
  FreeCountExact
  NoLeak
  PrecheckSuffices
  IndexIsDense
  SystemAreaSafe
PROPERTY
  CallsReturn
