SPECIFICATION Spec
CONSTANTS
  a1 = a1
  a2 = a2
  d1 = d1
  d2 = d2
  d3 = d3
  s1 = s1
  s2 = s2
  Addresses = {a1, a2}
  Objects = {d1, d2, d3}
  Screens = {s1, s2}
  MaxBirths = 3
  NULL = NULL
SYMMETRY Interchangeable
INVARIANTS TypeOK EachOnce ListedAreAlive InvalidAreDead NoDanglingMFD MFDsAgree
