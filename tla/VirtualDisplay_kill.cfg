CONSTANTS
  Outputs = {o1, o2}
  None = None
  MaxKills = 1
  Faults = {"untracked"}
SPECIFICATION DisplaySpec
INVARIANT Recoverable
