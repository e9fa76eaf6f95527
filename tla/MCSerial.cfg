SPECIFICATION FairSpec
CONSTANTS
  Crc <- Crc16Ccitt
  Scripts <- MC_Lines
  BufferSize = 512
  ReopenEvery = 3
  MaxFailures = 1
INVARIANTS
  NothingInvented
  HandledInOrder
  LeftoverIsShort
PROPERTIES
  ParserReturns
  AllHandled
