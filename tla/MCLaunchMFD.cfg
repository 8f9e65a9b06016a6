SPECIFICATION LiveSpec
CONSTANTS
  Autopilots = {"STANDARD"}
  Targets = {"VESSEL"}
  Sides = {"NORTHERN", "SOUTHERN"}
  Speeds = {TRUE, FALSE}
  Dues = {FALSE}
  oldAtmosphericModel = TRUE
INVARIANTS HalfIsOfThisFlight
PROPERTIES LockIsKept EndsInOrbit
