SPECIFICATION Spec
CONSTANTS
  Workers = {w1, w2}
  ApiThreads = {}
  Acceptor = acc
  Slots = {s1}
  NoSlot = noslot
  Packets = {p1, p2}
  NoPacket = nopacket
  MaxBuf = 2
  SessionCntMax = 2
  MaxAccepts = 3
  MaxJobs = 2
  SysMayFail = FALSE
SYMMETRY Symmetry
INVARIANTS
  TypeOK SingleSender SingleReceiver PacketRefsExact CharacterOfReceiver
