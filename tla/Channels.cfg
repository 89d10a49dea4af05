SPECIFICATION MCSpec
CONSTANTS
  ch1 = ch1
  ch2 = ch2
  ch3 = ch3
  Chans <- ThreeChans
  NameOf <- TwoNames
  MaxStarts = 2
  Period = 3
  Lives = {0, 2, 6}
  Margin = 1
  MaxFetch = 1
  MaxUpdates = 2
  Unparsable <- FirstIsUnparsable
  MaxPollers = 2
  MaxCalls = 5
INVARIANT ChannelsTypeOK
INVARIANT StopAllStopsTheRest
INVARIANT TokenHolds
INVARIANT ForgottenWasGiven
INVARIANT RunningHasClient
INVARIANT SendMeansWhatItSays
PROPERTY UpdateReachesHandler
CHECK_DEADLOCK FALSE
