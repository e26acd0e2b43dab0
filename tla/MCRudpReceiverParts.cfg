\* Packet numbers: a bitmap of three bits in a number space of eight that wraps.
\* Message ids: three words of two bits, repetitions from at most Window - Bits
\* behind the newest.
\* Fragments: two connections share a queue of one, and three slots and one hold,
\* just enough places for their four messages; one slot may reach its deadline.
SPECIFICATION PartsSpec
CONSTANTS
  SeqSpace = 8
  Width = 3
  MaxPos = 14
  PacketsAhead = 4
  PacketsBehind = 4
  IdSpace = 40
  Words = 3
  Bits = 2
  MaxId = 16
  IdsAhead = 3
  IdsBehind = 4
  Conns = {c1, c2}
  NumMsgs = 2
  FragCount = 2
  NumSlots = 3
  MaxHolds = 1
  MaxRecv = 1
  MaxExpiries = 1
INVARIANTS
  AckIsExact
  DedupIsSound
  ReassemblyIsSound
PROPERTIES
  FragmentsArrive
\* A connection ends with its last number, and an aborted one has nothing left to do.
CHECK_DEADLOCK FALSE
