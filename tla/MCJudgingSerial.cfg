CONSTANTS
  Job = {1, 2, 3, 4, 5, 6}
  Info <- SerialInfo
  Stored <- SerialStored
  KnownProblem = {1, 2}
  WithTests = {1}
  Similar <- Copied
  MaxInFlight = 1

SPECIFICATION Spec

INVARIANTS
  OwnVerdict
  SimOldest
  RecordsExact
  DirHasOwner
  

CHECK_DEADLOCK FALSE
