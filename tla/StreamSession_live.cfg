SPECIFICATION FairSpec
CONSTANTS
  Sessions = {s1, s2}
  Kinds = {"video"}
  HttpThreads = {}
  NoSession = NoSession
  Nobody = Nobody
  CounterMod = 8
  Environment = {"bind_error"}
INVARIANTS  ListedIsAlive
PROPERTIES StopsAreJoined UnconnectedIsStopped
CHECK_DEADLOCK FALSE
