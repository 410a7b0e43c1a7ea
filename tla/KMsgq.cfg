SPECIFICATION MsgqSpec
CONSTANTS
  t1 = t1
  t2 = t2
  m1 = m1
  m2 = m2
  Threads <- MCThreads
  Prio <- MCPrio
  Msgs <- MCMsgs
  MaxMsgs = 2
  NoMsg = NoMsg
INVARIANTS
  WaitersMatchBuffer
PROPERTIES
  ImplementsAbsMsgq
