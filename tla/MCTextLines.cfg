CONSTANTS
  MaxTexts = 2
  MaxLexemes = 4
  MaxDiff = 1
  SizeMod = 16

SPECIFICATION ShowSpec

INVARIANTS
  BufferedLinesRight
  NoFalseAlarm
  


  

CHECK_DEADLOCK FALSE
