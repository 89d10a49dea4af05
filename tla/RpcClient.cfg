SPECIFICATION FairSpec
CONSTANTS
  k1 = k1
  k2 = k2
  u1 = u1
  ReadLoop = ReadLoop
  NoCall = NoCall
  Calls <- TwoCalls
  Closers <- OneCloser
INVARIANT TypeOK
INVARIANT DoneClosedOnce
INVARIANT PendingIsInFlight
INVARIANT ClosedForEverybody
PROPERTY DropReleasesCalls
PROPERTY LoopsEnd
CHECK_DEADLOCK FALSE
