SPECIFICATION FairSpec
CONSTANTS
  NPages = 4
  PagesPerBlock = 2
  PageLen = 2
  Bits = {0, 1}
  MayFail = TRUE
  ReadLens <- MCReadLens
  WriteBufs <- MCNoBufs
  MainLen = 1
  Ecc <- MCEcc
  Arguments <- MCArguments
  Contents <- MCContents
  Misreads <- MCMisreads
  MaxVerifyErrors = 2
  MaxRuns = 2
INVARIANTS
  TypeOK
  OnlyRange
  FileHoldsRange
  EraseAccounted
  ClearsOnlyItsChunk
  CleanRunMatches
PROPERTIES
  Ends
