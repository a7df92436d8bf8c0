SPECIFICATION Spec
CONSTANTS
  t1 = t1
  t2 = t2
  loop = loop
  Threads <- MCThreads
  Loop = loop
  ThreadOps <- SafeOps
  CallbackOps <- SafeOps
  TimerOps <- SafeTimerOps
  MsgSize = 2
  HighWaterMark = 3
  MaxMsgs = 2
  MaxCalls = 2
  MaxInput = 1
SYMMETRY ThreadSymmetry
INVARIANTS StreamOrder CloseOnce WriteInterest
PROPERTIES ShutDownDelivers
