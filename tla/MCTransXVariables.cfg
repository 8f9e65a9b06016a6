SPECIFICATION Spec
CONSTANTS
  target = target
  scale = scale
  manoeuvremode = manoeuvremode
  prograde = prograde
  s1 = s1
  s2 = s2
  None = None
  Cells = {c1, c2}
  c1 = c1
  c2 = c2
  PlanSizes = {0, 1, 2}
  Views = {2, 3, 4}
  PlanView = 3
  Base <- MCBase
  BaseView <- MCBaseView
  Groups <- MCGroups
  Ships <- MCShips
INVARIANTS ShownIsAlive
PROPERTIES ListsArePointedTo OwnCurrent
