SPECIFICATION Spec
CONSTANTS
  Chunks = {c1, c2}
  Remotes = {"peer"}
  Nobody = "nobody"
  PortSpace = 2
  FlagSets <- MCFlagSets
  SeqNumbers = {0, 1}
  Payloads <- MCPayloads
  Garbage = {0}
  HeaderLength = 5
  MaxOpens = 2
  MaxSends = 1
  MaxSegments = 3
INVARIANTS TableSound AcknowledgedIsHanded StreamIntact
SYMMETRY AnyChunk
CHECK_DEADLOCK FALSE
