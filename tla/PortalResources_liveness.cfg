\* No symmetry, and no fault but node ids that come back: what the acquisition
\* and the teardown promise each other, that calls return and that a session
\* closed is released.
CONSTANTS
  Handle = {h1, h2}
  Sender = {s1, s2}
  App = {a1}
  Task = {t1, t2}
  Stream = {i1}
  Free = Free
  None = None
  MaxSessions = 2
  MaxIdle = 0
  MaxAge = 1
  MaxSources = 1
  Faults = {"node_id_reuse"}
SPECIFICATION ResFairSpec
INVARIANTS NothingLeaked ObjectTracksSession
PROPERTIES CallsReturn ClosedIsReleased
CHECK_DEADLOCK FALSE
