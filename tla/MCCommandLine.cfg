CONSTANTS
  Trees <- AllTrees
  MaxGone = 2
  Options <- AllOptions
  Arguments <- AllArguments
  Inputs <- AllInputs

SPECIFICATION CmdSpec

INVARIANTS
  MeaningKept
  
  NamesExact
  OutputNotInput

CHECK_DEADLOCK FALSE
