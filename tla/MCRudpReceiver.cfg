\* Two ordered streams of each of two connections, or two longer ones, compete for
\* two hold slots and a receive queue of one; a connection may be aborted and made again.
SPECIFICATION FairSpec
CONSTANTS
  Conns = {c1, c2}
  NumChannels = 2
  Kinds = {"ordered"}
  SeqSpace = 4
  MaxHolds = 2
  MaxRecv = 1
  StreamLen = 5
  MaxFrames = 1
  Ahead = 2
  Stray = 1
  MaxAborts = 1
  Instances <- Competing
INVARIANTS
  TypeOK
  InOrder
  HoldCountExact
  NoStrandedHold
PROPERTIES
  AllDelivered
