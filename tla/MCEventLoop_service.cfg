SPECIFICATION Spec
CONSTANTS
  Byte <- MCByte
  NL = "n"
  Lit <- MCLit
  CountText <- MCCountText
  Tokens <- MCTokens
  SizeMax = 1
  kMaxInputBytes = 4
  kMaxResponseBytes = 4
  kMaxOutputBytes = 6
  kOutputHighWater = 2
  kOutputLowWater = 1
  kCommandBudget = 1
  kMaxClients = 2
  kAcceptBudget = 1
  kIdleTimeout = 1
  kReadCallBudget = 1
  kReadBufferSize = 4
  kWriteBytes = 2
  SendQueue = 1
  RecvQueue = 4
  Fd = {0, 1, 2, 3, 4}
  Elapse = {0, 1}
  p1 = p1
  p2 = p2
  p3 = p3
  Peers <- TwoPeers
  Script <- SafetyScript
  Ending = {p2}
  Reconnecting = {p1, p2}
PROPERTIES
  ImplementsSharedService
CHECK_DEADLOCK FALSE
