SPECIFICATION QueueSpec
CONSTANTS
  t1 = t1
  t2 = t2
  i1 = i1
  i2 = i2
  i3 = i3
  a1 = a1
  a2 = a2
  Threads <- MCThreads
  Prio <- MCPrio
  Items <- MCItems
  Appenders <- MCAppenders
  Null = Null
SYMMETRY Interchangeable
INVARIANTS
  ListWhole
PROPERTIES
  ImplementsAbsFifo
