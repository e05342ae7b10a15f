SPECIFICATION Spec
CONSTANTS
  NPages = 4
  PagesPerBlock = 2
  PageLen = 2
  Bits = {0, 1}
  MayFail = TRUE
  ReadLens <- MCReadLens
  WriteBufs <- MCNoBufs
  MainLen = 1
  Ecc <- MCEcc
  Arguments <- MCWriteArguments
  Contents <- MCContents
  Misreads <- MCMisreads
  MaxVerifyErrors = 2
  MaxRuns = 1
INVARIANTS
  WrittenPagesMatch
