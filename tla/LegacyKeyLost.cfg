SPECIFICATION Spec
CONSTANTS
  BufferSize <- MCBufferSize
  RepeatTicks <- MCRepeatTicks
  Retries <- MCRetries
  MaxInputs <- MCFewInputs
PROPERTIES
  PutKeystroke
CHECK_DEADLOCK FALSE
