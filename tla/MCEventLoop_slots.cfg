SPECIFICATION Spec
CONSTANTS
  Byte <- MCByte
  NL = "n"
  Lit <- MCLit
  CountText <- MCCountText
  Tokens <- MCTokens
  SizeMax = 1
  kMaxInputBytes = 2
  kMaxResponseBytes = 2
  kMaxOutputBytes = 4
  kOutputHighWater = 2
  kOutputLowWater = 1
  kCommandBudget = 1
  kMaxClients = 2
  kAcceptBudget = 2
  kIdleTimeout = 1
  kReadCallBudget = 1
  kReadBufferSize = 2
  kWriteBytes = 2
  SendQueue = 2
  RecvQueue = 2
  Fd = {0, 1, 2, 3, 4, 5}
  Elapse = {0, 1}
  p1 = p1
  p2 = p2
  p3 = p3
  Peers <- MCPeers
  Script <- SlotsScript
  Ending = {p1, p2, p3}
  Reconnecting = {}
SYMMETRY SilentPeers
INVARIANTS
  TypeOK
  EveryClientWatched
  NoInvariantExit
  WithinCapacity
  ScanIteratorsValid
  TimersServed
PROPERTIES
  ImplementsOwnership
CHECK_DEADLOCK FALSE
