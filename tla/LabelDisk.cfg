SPECIFICATION Spec
CONSTANTS
  MaxPart = 2
  Other = {x, y}
  Lookalike = {x}
  Vg = {v1, v2}
  Places <- TwoPlaces
INVARIANTS
  TypeOK
  SinglesUnmounted
  NoGroupTorn
  RefusedOnlyInUse
CHECK_DEADLOCK FALSE
