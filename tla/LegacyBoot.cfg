SPECIFICATION FairSpec
CONSTANTS
  Places <- MCPlaces
  Strings <- MCStrings
  Inventories <- MCInventories
  RomEntries <- MCRomEntries
  DriveNumbers <- MCDriveNumbers
  MAX_HDD_SUPPORTED = 3
  BBS_ENTRIES_NUMBER = 3
  Tries = 3
INVARIANTS TypeOK  ChosenIsFirst  SuccessIsServed
PROPERTIES TplRestored AttemptEnds
