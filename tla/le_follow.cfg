SPECIFICATION FairSpec
CONSTANTS
  DataChannels = 3
  AdvChannels = 2
  Intervals <- MCIntervals
  MaxOffset = 1
  MaxAhead = 2
  ByteModulus = 5
  Width = 6
  InstantLimit = 3
  JamCount = 2
  MaxEvents = 4
  MaxMeddling = 1
  Requested <- MCRequested
INVARIANT OnChannel
INVARIANT CountKept
INVARIANT IntervalRight
INVARIANT ListensAgain
PROPERTY ConnectionDies
PROPERTY StopHonoured
