SPECIFICATION Spec
CONSTANTS
  Threads = {t1, t2}
  Nodes = {n1, n2, n3}
  Values = {v1, v2}
  Dummy = Dummy
  Null = Null
  Empty = Empty
  MaxPops = 3
INVARIANTS NodesAccounted StackInv
PROPERTIES ImplementsAtomicStack EveryCallReturns
CHECK_DEADLOCK FALSE
