SPECIFICATION FairSpec
CONSTANTS
  c1 = c1
  c2 = c2
  c3 = c3
  c4 = c4
  Conns <- MCConns
  Sizes <- MCSizes
  MinLoopMax = 2
  MaxFds = 3
CHECK_DEADLOCK FALSE
INVARIANTS OwnedByLiveLoop
PROPERTIES LeastLoadedIfQuiet BacklogDrains DestructorReturns
