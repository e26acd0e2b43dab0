\* One slot reaches its deadline between two fragments: is every message received?
SPECIFICATION FairReasmSpec
CONSTANTS
  Conns = {c1}
  NumMsgs = 1
  FragCount = 2
  NumSlots = 3
  MaxHolds = 2
  MaxRecv = 1
  MaxExpiries = 1
PROPERTIES AllReceived
\* Once its connections are aborted the endpoint has nothing left to do.
CHECK_DEADLOCK FALSE
