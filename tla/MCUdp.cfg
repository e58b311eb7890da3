SPECIFICATION Spec
CONSTANTS
  Chunks = {c1, c2, c3}
  Remotes = {r1, r2}
  Nobody = nobody
  PortSpace = 2
  MaxOpens = 3
  MaxDatagrams = 3
INVARIANTS UdpTableSound
PROPERTIES HeardByOpenSockets ConversationKept
SYMMETRY AnyChunkAnyRemote
CHECK_DEADLOCK FALSE
