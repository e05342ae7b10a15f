SPECIFICATION Spec
CONSTANTS
  PacketSize = 4
  ReadChunk = 8
  WriteChunk = 2
  ReadSizes <- MCReadSizes
  WriteSizes <- MCWriteSizes
  DeviceData = 3
  Calls = 1
  Mishaps = 0
  NumTransfers = 2
  ReadTimeouts = {500}
PROPERTIES
  CancelEnds
