SPECIFICATION FairSpec
CONSTANTS
  Sessions = {s1, s2}
  InputOnly = {s2}
  Displays = {d1, d2}
  ImageIds = {1, 2}
  PoolSize = 1
  ImagesHold = TRUE
  None = None
INVARIANTS ImageExclusive NoneListensToTheDead
PROPERTIES   CaptureIsShared
CHECK_DEADLOCK FALSE
