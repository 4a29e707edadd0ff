SPECIFICATION PatientSpec
CONSTANTS
  Byte <- MCByte
  NL = "n"
  Lit <- MCLit
  CountText <- MCCountText
  Tokens <- MCTokens
  SizeMax = 1
  kMaxInputBytes = 6
  kMaxResponseBytes = 6
  kMaxOutputBytes = 11
  kOutputHighWater = 5
  kOutputLowWater = 2
  kCommandBudget = 2
  kReadCallBudget = 2
  kReadBufferSize = 5
  kWriteCallBudget = 2
  kWriteChunkBytes = 2
  kIdleTimeout = 1
  SendQueue = 2
  Streams <- LiveStreams
  Elapse = {0}
PROPERTIES
  HalfCloseAnswered
  PressureReleased
CHECK_DEADLOCK FALSE
