SPECIFICATION FairSpec
CONSTANTS
  t1 = t1
  t2 = t2
  Threads <- TwoThreads
  RetryModes <- BothModes
  ConnectIn <- WhenClosed
  CloseIn <- AnyCallback
  MaxConnects = 1
  MaxReconnects = 1
  MaxCloses = 2
  MaxFailures = 3
  InitRetryTime = 1
  MaxRetryTime = 3
INVARIANTS OneAttempt
PROPERTIES StopHolds StartAnswered
