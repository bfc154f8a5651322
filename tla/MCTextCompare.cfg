CONSTANTS
  Letter = {"a", "b"}
  MaxLen = 3

SPECIFICATION CompareSpec

INVARIANTS
  VerdictRight

PROPERTIES
  EventuallyEnds

CHECK_DEADLOCK FALSE
