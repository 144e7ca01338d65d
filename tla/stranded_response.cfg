SPECIFICATION Spec
CONSTANTS
  Workers = {w1, w2}
  ApiThreads = {}
  Acceptor = acc
  Slots = {s1}
  NoSlot = noslot
  Packets = {p1, p2, p3}
  NoPacket = nopacket
  MaxBuf = 2
  SessionCntMax = 2
  MaxAccepts = 3
  MaxJobs = 3
  SysMayFail = FALSE
SYMMETRY Symmetry
INVARIANT NoStrandedPacket
