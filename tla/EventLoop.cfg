\* Two outside threads, three functions, two Exit() calls, two Loop() calls.
\* PipeCap exceeds every wakeup that can be written: no write() blocks.
SPECIFICATION FairSpec
CONSTANTS
  t1 = t1
  t2 = t2
  Threads <- MCThreads
  MaxTasks = 3
  MaxExits = 2
  MaxLoops = 2
  PipeCap = 6
INVARIANTS IInv
PROPERTIES TaskQueueSpec HandedOverRun ExitReturns
