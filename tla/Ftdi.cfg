SPECIFICATION Spec
CONSTANTS
  PacketSize = 4
  ReadChunk = 8
  WriteChunk = 2
  ReadSizes <- MCReadSizes
  WriteSizes <- MCWriteSizes
  DeviceData = 3
  Calls = 3
  Mishaps = 1
  NumTransfers = 2
  ReadTimeouts = {500, 5000}
INVARIANTS
  ReadInOrder
  WrittenInOrder
PROPERTIES
  CallsReturn
  StreamReturns
