CONSTANTS
  Test = {t1, t2}
  Output = {"x"}
  AskedTime = {1, 16, 40}
  AskedMem <- Edges
  Program <- Some

SPECIFICATION Spec

INVARIANTS
  AcceptedMeansRun
  LimitsFair
  

CHECK_DEADLOCK FALSE
