SPECIFICATION Spec
CONSTANTS
  v1 = v1
  v2 = v2
  v3 = v3
  v4 = v4
  A = A
  B = B
  C = C
  d1 = d1
  d2 = d2
  d3 = d3
  d4 = d4
  Vessels = {v1, v2, v3, v4}
  Classes = {A, B, C}
  ClassOf <- MCClassOf
  Compatible = {A, B}
  ProtectResults = {TRUE}
  Drawers = {d1, d2, d3, d4}
  NameOf <- MCNameOf
  HOOK = HOOK
  OLD = OLD
  NULL = NULL
SYMMETRY Interchangeable
INVARIANTS TypeOK OnlyFocusHooked OwnHUDIsDrawn DrawersAreAlive OneSwitchPerModule
