SPECIFICATION FairToolSpec
CONSTANTS
  Blocks = 8
  Boot = 2
  Border = 4
  SmallSector = 2
  LargeSector = 4
  SectorOffset = 1
  ValidBlocks = 10
  Values <- MCValues
  DetachTimeout = 5
  Data <- MCData
  Image <- MCImage
  MaxLosses = 1
INVARIANT TypeOK
INVARIANT BootloaderIntact
INVARIANT TimeoutSparesSession
INVARIANT SuccessIsWritten
PROPERTY NoDoubleProgram
PROPERTY ToolEnds
