SPECIFICATION Spec
CONSTANTS
  NumSectors = 3
  First = 1
  Last = 2
  Pages = 2
  Blank = Blank
  Word00FF = Word00FF
  New = New
  Old = Old
  Mixed = Mixed
  Other <- MCOther
  Images <- MCImages
  Factory <- MCFactory
  Builds = {"two chips"}
INVARIANT DoneMeansImage
