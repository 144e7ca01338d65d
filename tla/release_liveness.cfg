SPECIFICATION FairSpec
CONSTANTS
  Workers = {w1}
  ApiThreads = {a1}
  Acceptor = acc
  Slots = {s1}
  NoSlot = noslot
  Packets = {p1}
  NoPacket = nopacket
  MaxBuf = 2
  SessionCntMax = 2
  MaxAccepts = 3
  MaxJobs = 2
  SysMayFail = FALSE
PROPERTIES SessionEventuallyReleased DisconnectReleases
