SPECIFICATION Spec
CONSTANTS
  None = None
  Ids = {c1}
  Slots = {k1}
  NumOutBuf = 2
  Empty = Empty
  MaxNotify = 1
  Env = {"second_reset"}
  Haltable = {}
INVARIANT
  NoAssert
