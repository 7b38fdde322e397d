SPECIFICATION Spec
CONSTANTS
  Sessions = {s1, s2}
  Kinds = {"video"}
  HttpThreads = {h1}
  NoSession = NoSession
  Nobody = Nobody
  CounterMod = 8
  Environment = {"cancel", "graceful"}
SYMMETRY SessionSymmetry
INVARIANTS  FreedIsQuiet 
PROPERTIES StopIsFinal BroadcastIsShared
CHECK_DEADLOCK FALSE
