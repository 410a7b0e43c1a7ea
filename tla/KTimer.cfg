SPECIFICATION TimerSpec
CONSTANTS
  x = x
  y = y
  z = z
  t1 = t1
  t2 = t2
  Timers <- MCTimers
  KTimers = {x}
  Threads = {t1, t2}
  Prio <- MCPrio
  StatusRange = 3
  MaxTicks = 3
  MaxDuration = 2
  StopsExpired = FALSE
  None = None
INVARIANTS
  RemainingExact
  SyncServed
PROPERTIES
  SameTickInOrder
  PeriodExact
  ImplementsAbsTimers
  TimeoutHandled
