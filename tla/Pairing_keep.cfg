SPECIFICATION Spec
CONSTANTS
  Clients = {c1, c2}
  Careless = {c2}
  Pins = {p1, p2}
  None = None
  MaxTries = 2
  MaxCrashes = 1
  Fresh = FALSE
  Faults = {}
INVARIANTS OnlyByPin  
CHECK_DEADLOCK FALSE
