SPECIFICATION Spec
CONSTANTS
  c1 = c1
  c2 = c2
  s1 = s1
  s2 = s2
  NoConn = NoConn
  Conns <- TwoConns
  Senders <- OneSender
INVARIANT TypeOK
INVARIANT ClosedMeansUnlisted
INVARIANT BroadcastNeverPanics
INVARIANT DrainIsFinal
INVARIANT ListedClientsKeepSessions
PROPERTY RemovalAnnounced
