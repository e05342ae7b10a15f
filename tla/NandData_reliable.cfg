SPECIFICATION Spec
CONSTANTS
  NPages = 4
  PagesPerBlock = 2
  PageLen = 2
  Bits = {0, 1}
  MayFail = TRUE
  ReadLens = {1, 2}
  WriteBufs <- MCWriteBufs
  MaxPolls = 2
  MaxRetries = 1
  RowSpan = 4
  ErasePages = 2
  MaxFaults = 0
  ChipInTime = TRUE
INVARIANTS
  InStep
  WPHighWhileBusy
PROPERTIES
  ImplementsStore
