SPECIFICATION FairSpec
CONSTANTS
  c1 = c1
  c2 = c2
  c3 = c3
  l1 = l1
  l2 = l2
  i1 = i1
  i2 = i2
  Conns <- MCConns
  Loops <- MCLoops
  Ips <- MCIps
  IpOf <- MCIpOf
  Owners <- MCOwners
  idle_ticks_ = 2
  kMaxAllConnections = 2
  kMaxIpConnections = 1
CHECK_DEADLOCK FALSE
INVARIANTS LimitsHold IdleShutDown
PROPERTIES ActiveKept RefusedClosed
