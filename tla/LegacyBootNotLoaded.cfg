SPECIFICATION FairSpec
CONSTANTS
  Places <- MCPlaces
  Strings <- MCStrings
  Inventories <- MCOneCd
  RomEntries <- MCRomEntries
  DriveNumbers <- MCDriveNumbers
  MAX_HDD_SUPPORTED = 3
  BBS_ENTRIES_NUMBER = 3
  Tries = 3
INVARIANT JumpMeansLoaded
