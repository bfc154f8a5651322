CONSTANTS
  Entry = {e1, e2, e3}
  InFile = {e1, e2}
  TimeLimit = 3
  MemLimit = 1
  Call = {"exec", "time", "read", "fork"}
  Limit <- CallLimit
  Exec = "exec"
  NoTest = none
  NoCall = "outside"

SPECIFICATION Spec

INVARIANTS
  AcceptedMeansAll
  ForbiddenIsError
  
  OneChild

PROPERTIES
  EventuallyReports

CHECK_DEADLOCK FALSE
