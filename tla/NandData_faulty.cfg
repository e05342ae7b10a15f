SPECIFICATION FairSpec
CONSTANTS
  NPages = 2
  PagesPerBlock = 1
  PageLen = 1
  Bits = {0, 1}
  MayFail = FALSE
  ReadLens = {1}
  WriteBufs <- MCWriteBufs
  MaxPolls = 2
  MaxRetries = 1
  RowSpan = 2
  ErasePages = 1
  MaxFaults = 1
  ChipInTime = FALSE
INVARIANTS
  TypeOK
PROPERTIES
  NoStrayWork
  CallReturns
