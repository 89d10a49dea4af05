SPECIFICATION MCSpec
CONSTANTS
  i1 = i1
  i2 = i2
  c1 = c1
  MaxServerStarts = 2
  MaxFrames = 2
  MaxLines = 3
  PingPeriod = 27
  ReadTimeout = 30
  WriteWait = 5
  Latency = 3
  GoClient = TRUE
  Ids <- TwoIds
  SClients <- OneClient
  MaxSessions = 1
  MaxIndex = 1
INVARIANT ServerSideTypeOK
INVARIANT StopsListening
INVARIANT HubServesRunning
INVARIANT GateHolds
INVARIANT OnlySilenceEnds
INVARIANT SessionsSound
PROPERTY PendingResolves
CHECK_DEADLOCK FALSE
