SPECIFICATION Spec
CONSTANTS
  NPages = 2
  PagesPerBlock = 1
  PageLen = 2
  Bits = {0, 1}
  MayFail = FALSE
  ReadLens = {2}
  WriteBufs <- MCWriteBufs
  MaxPolls = 2
  MaxRetries = 1
  RowSpan = 2
  ErasePages = 1
  MaxFaults = 1
  ChipInTime = TRUE
PROPERTIES
  ReadReturnsPage
