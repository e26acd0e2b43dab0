\* Two flows, unreliable packets with packet numbers.
SPECIFICATION Spec
CONSTANTS
  NumFlows = 2
  SkipUnreliableAcks = FALSE
  AckWindow = 2
  RefsPerPacket = 2
  LossThreshold = 1
  MaxLostSeqs = 1
  RingCap = 4
  SlotCount = 3
  BatchSize = 2
  MaxMessages = 6
  Kinds = {"unreliable", "ordered"}
  MaxSent = 4
  MaxSeq = 3
INVARIANT WithinAckWindow
\* The bounds on messages and packet numbers stop the system.
CHECK_DEADLOCK FALSE
