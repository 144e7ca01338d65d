SPECIFICATION Spec
CONSTANTS
  Workers = {w1, w2}
  ApiThreads = {a1}
  Acceptor = acc
  Slots = {s1}
  NoSlot = noslot
  Packets = {p1}
  NoPacket = nopacket
  MaxBuf = 2
  SessionCntMax = 4
  MaxAccepts = 2
  MaxJobs = 1
  SysMayFail = TRUE
SYMMETRY Symmetry
CHECK_DEADLOCK FALSE
INVARIANTS
  RefCountExact NoUseAfterRelease SingleReleaser StaleIdNeverActs ServerInv
