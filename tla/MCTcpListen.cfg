SPECIFICATION Spec
CONSTANTS
  Chunks = {c1, c2}
  Remotes = {"peer"}
  Nobody = "nobody"
  PortSpace = 2
  FlagSets <- MCFlagSets
  SeqNumbers = {0}
  Payloads <- MCPayloads
  Garbage = {0}
  HeaderLength = 5
  MaxOpens = 1
  MaxSends = 0
  MaxSegments = 1
PROPERTY ListenAnswersSyn
CHECK_DEADLOCK FALSE
