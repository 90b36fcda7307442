SPECIFICATION FairSpec
CONSTANTS
  Seqs = {s1, s2}
  NoSeq = NoSeq
  MaxOpen = 2
  MaxBody = 2
  Env = {}
INVARIANTS
  TypeOK
  AnswerMatches
  BusyHasWaker
  ReadyWhenPowered
PROPERTIES
  ImplementsExchange
  EveryCommandAnswered
  UartReenabled
  EventKept
