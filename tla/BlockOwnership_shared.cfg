CONSTANTS
  f1 = f1
  f2 = f2
  t1 = t1
  t2 = t2
  Tasks <- MCTwoTasks
  Files <- MCFiles
  NrBlocks = 8
  FirstData = 2
  MaxEntries = 2
  Word = 16
  Calls <- MCGrow
  IoFaults = FALSE
SPECIFICATION Spec
INVARIANT NoSharedBlock
