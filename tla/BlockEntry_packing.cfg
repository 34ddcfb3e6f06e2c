CONSTANTS
  NumSpan = 16
  SizeSpan = 8
  NrBlocks = 16
SPECIFICATION Spec
INVARIANTS
  PackingExact
