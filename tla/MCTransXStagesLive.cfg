SPECIFICATION LiveSpec
CONSTANTS
  None = None
  Ships = {sa, sb}
  Stages = {x1, x2}
  Screens = {p1}
  MaxRestored = 1
PROPERTIES PlansComeBack
CHECK_DEADLOCK FALSE
