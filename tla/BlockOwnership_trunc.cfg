CONSTANTS
  f1 = f1
  f2 = f2
  t1 = t1
  t2 = t2
  Tasks <- MCOneTask
  Files <- MCFiles
  NrBlocks = 6
  FirstData = 2
  MaxEntries = 3
  Word = 8
  Calls <- MCAll
  IoFaults = TRUE
SYMMETRY MCFileSymmetry
SPECIFICATION Spec
INVARIANTS
  NoSharedBlock
  OwnedIsUsed
CHECK_DEADLOCK FALSE
