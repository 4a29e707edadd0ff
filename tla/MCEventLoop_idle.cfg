SPECIFICATION TimedSpec
CONSTANTS
  Byte <- MCByte
  NL = "n"
  Lit <- MCLit
  CountText <- MCCountText
  Tokens <- MCTokens
  SizeMax = 1
  kMaxInputBytes = 2
  kMaxResponseBytes = 2
  kMaxOutputBytes = 4
  kOutputHighWater = 2
  kOutputLowWater = 1
  kCommandBudget = 1
  kMaxClients = 2
  kAcceptBudget = 1
  kIdleTimeout = 2
  kReadCallBudget = 1
  kReadBufferSize = 2
  kWriteBytes = 1
  SendQueue = 1
  RecvQueue = 2
  Fd = {0, 1, 2, 3}
  Elapse = {0, 1}
  p1 = p1
  p2 = p2
  p3 = p3
  Peers <- TwoPeers
  Script <- BusyScript
  Ending = {}
  Reconnecting = {p2}
PROPERTIES
  SlotsFreed
CHECK_DEADLOCK FALSE
