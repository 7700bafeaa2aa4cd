\* A client leaves the bus, with the idle cleanup running: is anything left?
CONSTANTS
  Handle = {h1}
  Sender = {s1}
  App = {a1}
  Task = {t1}
  Stream = {i1}
  Free = Free
  None = None
  MaxSessions = 1
  MaxIdle = 0
  MaxAge = 1
  MaxSources = 1
  Faults = {"stale_cleanup"}
SPECIFICATION ResFairSpec
PROPERTIES DisconnectCleansUp
CHECK_DEADLOCK FALSE
