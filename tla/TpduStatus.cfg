SPECIFICATION Spec
CONSTANTS
  Full = 6
  Ways = {"last_single"}
INVARIANTS
  StatusIsHeard
