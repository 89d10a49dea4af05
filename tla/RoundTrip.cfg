SPECIFICATION FairSpec
CONSTANTS
  k1 = k1
  k2 = k2
  m1 = m1
  NoCall = NoCall
  Calls <- TwoCalls
  ServerCalls <- OneServerCall
  MaxNotes = 1
  Cap = 1
  MaxFrame = 2
INVARIANT TypeOK
INVARIANT NotesBeforeAnswer
PROPERTY StreamingSpec
PROPERTY CallsReturn
CHECK_DEADLOCK FALSE
