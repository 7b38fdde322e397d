CONSTANTS
  Outputs = {o1, o2, o3}
  None = None
  MaxKills = 2
  Faults = {}
SPECIFICATION FairDisplaySpec
INVARIANTS Recoverable IdleRestored
PROPERTY Heals
