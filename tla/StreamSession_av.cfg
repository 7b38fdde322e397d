SPECIFICATION Spec
CONSTANTS
  Sessions = {s1}
  Kinds = {"video", "audio"}
  HttpThreads = {h1, h2}
  NoSession = NoSession
  Nobody = Nobody
  CounterMod = 8
  Environment = {"app_exit", "cancel", "graceful", "shutdown", "bind_error"}
INVARIANT CounterExact
CHECK_DEADLOCK FALSE
