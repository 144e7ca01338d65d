SPECIFICATION Spec
CONSTANTS
  iTotalSize = 5
  Bytes = {0, 1}
  MaxSize = 5
INVARIANTS IndexOK SizesOK
PROPERTIES ImplementsByteQueue
