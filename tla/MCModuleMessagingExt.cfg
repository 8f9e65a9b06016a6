SPECIFICATION Spec
CONSTANTS
  VesselNames = {"ship"}
  ModuleNames = {"transx"}
  VarNames = {"Burn", "burn", "dv"}
  Kinds = {"ints"}
  basepointers = "basepointers"
  Structs = {s1, s2}
  s1 = s1
  s2 = s2
  IVers = {1, 2}
  None = None
  Fold <- MCFold
  Values <- MCValues
  Layouts <- MCLayouts
  Freed <- MCFreed
SYMMETRY Interchangeable
PROPERTIES StoreIsMailbox
