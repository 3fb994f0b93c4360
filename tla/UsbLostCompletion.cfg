SPECIFICATION Spec
CONSTANTS
  Ehc0 = ehc0
  Ehc1 = ehc1
  MaxCallbacks <- MCMaxCallbacks
INVARIANTS
  CompletionIsHandled
CHECK_DEADLOCK FALSE
