SPECIFICATION Spec
CONSTANTS
  MaxPart = 2
  Other = {x}
  Lookalike = {}
  Vg = {v1, v2}
  Places <- TwoPlaces
INVARIANTS
  GroupsRemoved
CHECK_DEADLOCK FALSE
