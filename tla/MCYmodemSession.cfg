CONSTANTS
  Images = {"A", "B", "C"}
  Size <- MCSize
  Compressed = {}
  Files <- MCFiles
  Blank = Blank
  SmallLen = 1
  BigLen = 4
  BlockLen = 2
  SectorLen = 3
  Sectors = 3
  SeqMod = 2
  MaxErrors = 2
  SentSizes = {}
  FlashFaults = FALSE
  MaxLosses = 2
SPECIFICATION SessionSpec
CHECK_DEADLOCK FALSE
INVARIANTS
  SuccessIsStored
PROPERTY TransferCompletes
