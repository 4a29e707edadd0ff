SPECIFICATION Spec
CONSTANTS
  Byte <- MCByte
  NL = "n"
  Lit <- MCLit
  CountText <- MCCountText
  Tokens <- MCTokens
  SizeMax = 1
  kMaxInputBytes = 4
  kMaxResponseBytes = 4
  kChunkBytes = 2
  SendQueue = 2
  Chunks <- MCChunks
  MaxBytes = 10
PROPERTIES
  HandlerImplementsService
CHECK_DEADLOCK FALSE
