SPECIFICATION FairSpec
CONSTANTS
  Ehc0 = ehc0
  Ehc1 = ehc1
  MaxCallbacks <- MCMaxCallbacks
INVARIANTS
  TypeOK
  MonitorOnlyRunning
PROPERTIES
  StoppedOnce
  SmiEnds
  HandoffHappens
CHECK_DEADLOCK FALSE
