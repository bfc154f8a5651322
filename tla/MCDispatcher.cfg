CONSTANTS
  Request = {r1, r2, r3}
  Loop = Loop
  Free = Free
  NoInfo = NoInfo

SPECIFICATION Spec

INVARIANTS
  NothingLost
  NeverTakesFromEmpty

PROPERTIES
  AbstractSpec
