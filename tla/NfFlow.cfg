SPECIFICATION Spec
CONSTANTS
  NPages = 4
  PagesPerBlock <- MCBlocks
  EraseEvery = 2
  IntPages = 8
  RowSpan = 8
  Blank = "blank"
  Junk = "junk"
  Tokens <- MCTokens
  Files <- MCFiles
  PageNos = {1, 4}
  MaxOptions = 2
  MaxRuns = 2
  Params <- MCParams
  Inputs <- MCInputs
  Flashed <- MCFlashed
  Geometry <- MCGeometry
INVARIANTS
  MarkersWhole
  GoodBlocks
  WrittenHeld
  VerifyExact
  BlocksMarked
PROPERTIES
  OnlyItsPage
  RunEnds
