SPECIFICATION Spec
CONSTANTS
  Workers = {w1, w2}
  ApiThreads = {}
  Acceptor = acc
  Slots = {s1, s2}
  NoSlot = noslot
  Packets = {p1}
  NoPacket = nopacket
  MaxBuf = 2
  SessionCntMax = 3
  MaxAccepts = 3
  MaxJobs = 1
  SysMayFail = FALSE
SYMMETRY Symmetry
CHECK_DEADLOCK FALSE
INVARIANT PopNeverSpins
PROPERTY ImplementsSessionTable
