\* RemoteDesktop.ConnectToEIS is called: does it return?
CONSTANTS
  Handle = {h1, h2}
  Sender = {s1}
  App = {a1}
  Task = {t1, t2}
  Stream = {i1}
  Free = Free
  None = None
  MaxSessions = 2
  MaxIdle = 0
  MaxAge = 1
  MaxSources = 1
  Faults = {"rd_connect"}
SPECIFICATION ResFairSpec
PROPERTIES CallsReturn
CHECK_DEADLOCK FALSE
