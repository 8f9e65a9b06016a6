SPECIFICATION Spec
CONSTANTS
  NumEngines = 2
  BurnRate <- MCBurnRate
  MaxDV = 1
  MaxTime = 1
  MaxPast = 1
  MaxStep = 1
  NumSources = 2
  Boxes = {"DV", "EXTRA"}
  Vessels = {Own, Other}
  Own = Own
  Other = Other
  NaN = NaN
INVARIANTS TypeOK ArmedXorEngaged EngagedMeansLit
PROPERTIES OnlyTheseAbandon NoOverburn
