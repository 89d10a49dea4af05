SPECIFICATION FairSpec
CONSTANTS
  Cap = 2
  MaxMsgs = 6
INVARIANT TypeOK
INVARIANT BatchNeverBlocks
INVARIANT FrameBounded
INVARIANT NothingVanishes
INVARIANT NoGapOnWire
PROPERTY FifoSpec
PROPERTY QueuedArrives
CHECK_DEADLOCK FALSE
