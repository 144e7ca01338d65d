SPECIFICATION Spec
CONSTANTS
  Threads = {t1, t2}
  Nodes = {n1, n2, n3}
  Values = {v1, v2}
  Dummy = Dummy
  Code = Code
  Null = Null
  MaxTag = 5
INVARIANTS NodesAccounted SizeCountsElements
PROPERTIES ImplementsTicketQueue EveryCallReturns
CHECK_DEADLOCK FALSE
