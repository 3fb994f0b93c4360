SPECIFICATION FairSession
CONSTANTS
  NumSectors = 3
  First = 1
  Last = 2
  Pages = 2
  Blank = Blank
  Word00FF = Word00FF
  New = New
  Old = Old
  Mixed = Mixed
  Other <- MCOtherAndJunk
  Images <- MCImages
  Factory <- MCFactory
  Builds = {"one chip", "two chips"}
  Junk = Junk
  Boards <- MCBoards
  RomFiles <- MCRomFiles
  AcpiLayouts <- MCAcpiLayouts
  AddressLimit = 256
  WordSize = 4
  DumpUnit = 8
  MaxAcpiDump = 64
INVARIANTS TypeOK WriteProtectRestored PassedSectorsHold DoneMeansImageOneChip AcpiDumpHoldsTables
PROPERTIES UpdateEnds UpdatesAsSpecified DumpIsChip
