CONSTANTS
  t1 = t1
  t2 = t2
  t3 = t3
  a1 = a1
  a2 = a2
  s1 = s1
  Threads = {t1, t2, t3}
  Prio <- MCPrio
  Clearers = {t1}
  Asyncs = {a1}
  Sems = {s1}
  Kinds = {"block"}
  K_ANY = K_ANY
  Null = Null
SPECIFICATION MboxSpec
INVARIANTS
  SendersAccounted
  NoMissedMatch
  OfferedInOrder
  BlocksSettled
CHECK_DEADLOCK FALSE
