SPECIFICATION FairSpec
CONSTANTS
  BufferSize <- MCBufferSize
  RepeatTicks <- MCRepeatTicks
  Retries <- MCRetries
  MaxInputs <- MCMaxInputs
INVARIANTS
  TypeOK
  NothingLeftInService
PROPERTIES
  BufferIsQueue
  HandlersReturn
CHECK_DEADLOCK FALSE
