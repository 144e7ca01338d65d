SPECIFICATION Spec
CONSTANTS
  Workers = {w1, w2}
  ApiThreads = {}
  Acceptor = acc
  Slots = {s1}
  NoSlot = noslot
  Packets = {p1}
  NoPacket = nopacket
  MaxBuf = 2
  SessionCntMax = 2
  MaxAccepts = 3
  MaxJobs = 1
  SysMayFail = FALSE
SYMMETRY Symmetry
INVARIANT DisconnectedIoIsCancelled
