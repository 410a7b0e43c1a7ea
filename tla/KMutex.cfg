SPECIFICATION Spec
CONSTANTS
  t1 = t1
  t2 = t2
  t3 = t3
  Threads <- MCThreads
  Base <- MCBase
  Ceiling = 1
  MaxDepth = 2
  Null = Null
INVARIANTS
  MutualExclusion
  WaitersHaveOwner
  NoInversion
  BoostJustified
CHECK_DEADLOCK FALSE
