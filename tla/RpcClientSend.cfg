SPECIFICATION Spec
CONSTANTS
  k1 = k1
  k2 = k2
  u1 = u1
  ReadLoop = ReadLoop
  NoCall = NoCall
  Calls <- TwoCalls
  Closers <- OneCloser
INVARIANT CloseIsSafe
CHECK_DEADLOCK FALSE
