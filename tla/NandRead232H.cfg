SPECIFICATION FairSpec
CONSTANTS
  NRows = 4
  PerBlock = 2
  PageLen = 3
  ColSpan = 4
  RowStep = 1
  Nand <- MCNand
  Noise = {255}
  MaxMishaps = 1
  Pages = {0, 1}
  Counts = {2}
  Files <- MCFiles
  Heap = {0}
  Stack = {1}
  Ecc <- MCEcc
  MaxOptions = 2
  MaxRuns = 2
INVARIANTS
  NoContention
  WPHighWhileWorking
  StopsAtEnd
  BitsCleared
  ReadReturnsCells
PROPERTIES
  ImplementsLinear
  LineEnds
