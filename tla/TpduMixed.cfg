SPECIFICATION Spec
CONSTANTS
  Full = 6
  Ways = {"mixed"}
INVARIANTS
  CardGetsBody
