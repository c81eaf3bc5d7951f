SPECIFICATION Spec
CONSTANTS
  MaxPart = 2
  Other = {x}
  Lookalike = {x}
  Vg = {v1, v2}
  Places <- TwoPlaces
INVARIANTS
  OwnMountsUnmounted
CHECK_DEADLOCK FALSE
