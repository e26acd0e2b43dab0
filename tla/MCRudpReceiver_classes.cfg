\* All message classes of one connection share a receive queue of one, and packets
\* carry two frames, so that one can fail while the other is taken.
SPECIFICATION MCSpec
CONSTANTS
  Conns = {c1}
  NumChannels = 1
  Kinds = {"ordered", "unordered", "sequenced", "unreliable"}
  SeqSpace = 4
  MaxHolds = 1
  MaxRecv = 1
  StreamLen = 6
  MaxFrames = 2
  Ahead = 2
  Stray = 1
  MaxAborts = 0
  Instances <- Mixed
INVARIANTS
  AckedIsKept
  UnorderedOnce
PROPERTIES
  SequencedForward
