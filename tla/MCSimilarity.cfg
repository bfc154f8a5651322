CONSTANTS
  a = a
  b = b
  Token = {a, b}
  MaxTexts = 3
  MaxTokens = 6
  MinRun = 2
  Starter = {a, b}
  Code = {0, 1}
  Hashes <- Mixed
  Options <- AllOptions
  NonFinal = {b}
  Opener <- Parens
  Closer <- Closing
  Threshold = 20

SPECIFICATION SimSpec

INVARIANTS
  RefsExact
  RunsReal
  RunsLongest
  NothingMissed
  RunsBalanced
  ShownExact
  FirstTextHonest
  CopyIsCaught

CHECK_DEADLOCK FALSE
