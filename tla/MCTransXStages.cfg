SPECIFICATION Spec
CONSTANTS
  x1 = x1
  x2 = x2
  x3 = x3
  x4 = x4
  p1 = p1
  sa = sa
  sb = sb
  None = None
  Ships = {sa, sb}
  Stages = {x1, x2, x3, x4}
  Screens = {p1}
  MaxRestored = 1
SYMMETRY Interchangeable
INVARIANTS TypeOK StagesOnce LinksMatch
CHECK_DEADLOCK FALSE
PROPERTIES ViewsFollow
