SPECIFICATION FairSpec
CONSTANTS
  NrSlots = 2
  Seqs = {s1, s2}
  NoSeq = s0
  MaxOpen = 2
  MaxLost = 1
  HeedsUnknown = FALSE
INVARIANTS
  TypeOK
  StatusCurrent
  HeapAccounted
PROPERTIES
  SlotsImplementExchange
  EveryMessageAnswered
