SPECIFICATION FairSpec
CONSTANTS
  s1 = s1
  s2 = s2
  Sessions = {s1, s2}
  Permissions <- MCPermissions
  Keys = {shift, a}
  Shift = shift
  Controllers = {0}
  Ids = {0, 1}
  Addresses = {x1, x2}
  Null = Null
  Disable = Disable
  MaxTasks = 1
INVARIANTS PadIdsExact OneRepeat 
PROPERTY PoolDrains
CHECK_DEADLOCK FALSE
