SPECIFICATION FairSpec
CONSTANTS
  None = None
  Ids = {c1}
  Slots = {k1}
  NumOutBuf = 2
  Empty = Empty
  MaxNotify = 1
  Env = {}
  Haltable = {"irq"}
INVARIANTS
  NoAssert
  KeptUntilTwice
PROPERTIES
  ListeningUntilTwice
  AnsweredUntilTwice
CHECK_DEADLOCK FALSE
