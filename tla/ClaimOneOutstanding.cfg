SPECIFICATION Spec
CONSTANTS
  None = None
  Ships = {s1, s2}
  Stages = {x1, x2, x3}
  MaxNew = 2
INVARIANT OneOutstanding
