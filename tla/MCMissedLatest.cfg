SPECIFICATION Spec
CONSTANTS
  p1 = p1
  Grid <- MCInstants
  Horizon = 4
  Triggers = {"repeats"}
  Misfires = {"run_once_now"}
  Overlaps = {"allow"}
  Admissions = {"auto"}
  Limit = 1
  MaxSkips = 2
  Manual = {}
  Scanners <- MCScanners
  Pausers = {}
  Firers = {}
  MaxStops = 0
PROPERTIES
  LatestFires
CHECK_DEADLOCK FALSE
