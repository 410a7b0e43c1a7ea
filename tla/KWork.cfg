SPECIFICATION FairSpec
CONSTANTS
  w1 = w1
  w2 = w2
  q1 = q1
  c1 = c1
  Works <- MCWorks
  Queues <- OneQueue
  Cancellers <- MCCancellers
  NoHandler <- Unhandled
  Null = Null
INVARIANTS
  PendingIsHeld
  NeverNullQueue
PROPERTIES
  PendingEnds
  SyncMeansFinished
