CONSTANTS
  Request = {1, 2}
  Loop = Loop
  Free = Free
  NoInfo = NoInfo
  Info <- TwoInfo
  Stored <- ServerStored
  KnownProblem = {1}
  WithTests = {1}
  Similar <- CopiedOnce

SPECIFICATION Spec

INVARIANTS
  
  SimfileHasOwner

PROPERTIES
  EventuallyJudged

CHECK_DEADLOCK FALSE
