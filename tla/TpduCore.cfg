SPECIFICATION FairSpec
CONSTANTS
  Full = 6
  Ways = {"last_single"}
INVARIANTS
  TypeOK
  CardGetsBody
  HostGetsAnswer
  TakesTurns
PROPERTIES
  EveryTransferEnds
