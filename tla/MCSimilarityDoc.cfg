CONSTANTS
  a = a
  b = b
  Token = {a, b}
  MaxTexts = 2
  MaxTokens = 7
  MinRun = 2
  Starter = {a, b}
  Code = {0, 1}
  Hashes <- OnlySecond
  Options <- Percents
  NonFinal = {}
  Opener <- NoTokens
  Closer <- NoTokens
  Threshold = 20

SPECIFICATION SimSpec

INVARIANTS
  PercentMeansFound

CHECK_DEADLOCK FALSE
