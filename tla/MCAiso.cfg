CONSTANTS
  Size = {1, 2, 3}
  MaxRuns = 7

SPECIFICATION AisoSpec

INVARIANTS
  TreeIsList

PROPERTIES
  SortedSpec
  EventuallyInserted

CHECK_DEADLOCK FALSE
