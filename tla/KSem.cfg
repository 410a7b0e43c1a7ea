SPECIFICATION SemFairSpec
CONSTANTS
  t1 = t1
  t2 = t2
  t3 = t3
  Threads <- MCThreads
  Prio <- MCPrio
  Limit = 2
  InitCount = 1
INVARIANTS
  WaitqConsistent
  NoLostWakeup
PROPERTIES
  GrantInOrder
  ImplementsAbsSem
  TimedTakeReturns
