SPECIFICATION FairSpec
CONSTANTS
  None = None
  Ids = {c1, c2}
  Slots = {k1}
  NumOutBuf = 2
  Empty = Empty
  MaxNotify = 2
  Env = {}
  Haltable = {}
INVARIANTS
  TypeOK
  OneOwner
  NoAssert
  SessionKept
  PoolBounded
  ViewCurrent
PROPERTIES
  Listening
  CommandsAnswered
  HostLearns
