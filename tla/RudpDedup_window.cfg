\* Repetitions of messages come from the whole window.
SPECIFICATION DedupSpec
CONSTANTS
  IdSpace = 40
  Words = 3
  Bits = 2
  MaxId = 16
  IdsAhead = 3
  IdsBehind = 5
INVARIANTS
  WindowIsExact
