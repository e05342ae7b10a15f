SPECIFICATION FairSpec
CONSTANTS
  NRows = 4
  PerBlock = 2
  PageLen = 3
  ColSpan = 4
  RowStep = 1
  Nand <- MCNand
  Noise = {255}
  MaxMishaps = 1
  Pages = {1}
  Counts = {1}
  Files <- MCFiles
  Heap = {0}
  Stack = {1}
  Ecc <- MCEcc
  MaxOptions = 2
  MaxRuns = 1
PROPERTIES
  WaitsForChip
