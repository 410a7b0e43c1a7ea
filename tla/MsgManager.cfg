CONSTANTS
  t1 = t1
  t2 = t2
  t3 = t3
  a1 = a1
  a2 = a2
  b1 = b1
  b2 = b2
  Threads = {t1, t2, t3}
  Prio <- MCPrio
  Clearers = {t1}
  Servers = {t1}
  Asyncs = {a1, a2}
  Sems = {b1, b2}
  Kinds = {"data"}
  K_ANY = K_ANY
  Null = Null
  NoCallback = NoCallback
SPECIFICATION MsgSpec
INVARIANTS
  PoolNeverWaits
  BuffersAccounted
  SyncAnswered
CHECK_DEADLOCK FALSE
PROPERTIES
  SyncReturns
