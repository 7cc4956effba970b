CONSTANTS
  Images = {"A", "B"}
  Size <- MCSize
  Compressed = {}
  Files <- MCFiles
  Blank = Blank
  SmallLen = 1
  BigLen = 4
  BlockLen = 2
  SectorLen = 3
  Sectors = 2
  SeqMod = 2
  MaxErrors = 1
  SentSizes = {0, 5, 8}
  FlashFaults = TRUE
SPECIFICATION Spec
INVARIANTS
  TypeOK
  
  DoneMeansStored
  RecordMeansImage
PROPERTY ImplementsImageStore
