\* One flow of reliable and unreliable messages, each with packet numbers as the
\* adapter has it; no more slots than the window is wide, packets of two messages,
\* a retry ring that holds exactly what can be in flight.
SPECIFICATION Spec
CONSTANTS
  NumFlows = 1
  SkipUnreliableAcks = FALSE
  AckWindow = 2
  RefsPerPacket = 2
  LossThreshold = 1
  MaxLostSeqs = 1
  RingCap = 3
  SlotCount = 2
  BatchSize = 2
  MaxMessages = 3
  Kinds = {"unreliable", "ordered"}
  MaxSent = 3
  MaxSeq = 4
INVARIANTS TypeOK BooksAgree NothingLost WithinAckWindow
\* The bounds on messages and packet numbers stop the system.
CHECK_DEADLOCK FALSE
