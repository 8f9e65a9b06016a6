SPECIFICATION Spec
CONSTANTS
  Autopilots = {"STANDARD", "DIRECT_ASCENT_STD", "DIRECT_ASCENT_SYNCHRO"}
  Targets = {"VESSEL", "BODY"}
  Sides = {"NORTHERN"}
  Speeds = {FALSE}
  Dues = {TRUE, FALSE}
  oldAtmosphericModel = FALSE
INVARIANTS TypeOK SilentWhenOff MemoryIsOwn
PROPERTIES CutsAndEnds
