SPECIFICATION NicSpec
CONSTANTS
  RecvRing = 2
  SendRing = 2
  BufferBase = 0
  FrameLength = 60
  MaxFrames = 3
  MaxSends = 3
\* the bounds stop the network and the callers of Send
CHECK_DEADLOCK FALSE
INVARIANTS
  ReceivedInOrder
  HandledIntact
  NoFrameStranded
  SentInOrder
PROPERTIES
  EveryFrameSent
