SPECIFICATION KeepaliveSpec
CONSTANTS
  PingPeriod = 27
  ReadTimeout = 30
  WriteWait = 5
  Latency = 3
  GoClient = TRUE
INVARIANT CallsAreWritten
CHECK_DEADLOCK FALSE
