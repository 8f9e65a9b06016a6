SPECIFICATION LiveSpec
CONSTANTS
  NumEngines = 1
  BurnRate <- MCBurnRate
  MaxDV = 1
  MaxTime = 1
  MaxPast = 2
  MaxStep = 1
  NumSources = 0
  Boxes = {"TIME", "TARGET"}
  Vessels = {Own}
  Own = Own
  Other = Other
  NaN = NaN
PROPERTIES CutoffHappens IgnitionHappens
