SPECIFICATION FairSpec
CONSTANTS
  a1 = a1
  a2 = a2
  Addrs <- MCAddrs
  Delays <- MCDelays
  Intervals <- MCIntervals
  PollTimeMs = 2
  MaxTimers = 2
  MaxErases = 1
  MaxTime = 2
  MaxSteps = 1
INVARIANTS IInv OnceAndNotEarly WakesInTime
PROPERTIES ErasedNeverFires DueFires
