SPECIFICATION Spec
CONSTANTS
  Byte <- MCByte
  NL = "n"
  Lit <- MCLit
  CountText <- MCCountText
  Tokens <- MCTokens
  SizeMax = 1
  kMaxInputBytes = 4
  kMaxResponseBytes = 4
  kChunkBytes = 2
  Addresses = 2
  Lines <- MCLines
  MaxLines = 1
  OtherLines <- MCOtherLines
INVARIANT
  ConnectFailureReported
CHECK_DEADLOCK FALSE
