SPECIFICATION FairSpec
CONSTANTS
  t1 = t1
  t2 = t2
  loop = loop
  Threads <- OneThread
  Loop = loop
  ThreadOps <- AllOps
  CallbackOps <- AllOps
  TimerOps <- AllOps
  MsgSize = 2
  HighWaterMark = 2
  MaxMsgs = 1
  MaxCalls = 2
  MaxInput = 0
PROPERTIES ShutDownCompletes ForceCloseCompletes
