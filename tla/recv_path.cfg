SPECIFICATION Spec
CONSTANTS
  iTotalSize = 9
  Header = 2
  MaxLen = 6
  PayloadRoom = 5
  AccountSize = 2
  MaxMessages = 2
  Samples <- MCSamples
  FreePackets <- MCFreePackets
  RandKeys <- MCRandKeys
INVARIANTS DeliveredInOrder NeverCrashes DisconnectedForCause PayloadIntact PiecesAreFree RecvHasRoom
CHECK_DEADLOCK FALSE
