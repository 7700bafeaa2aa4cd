\* Every fault but a node id or a handle that is used again: what the handlers
\* that wait and the sessions with streams can rely on. A limit of one session
\* for each of two applications, so that it is met.
CONSTANTS
  Handle = {h1, h2}
  Sender = {s1}
  App = {a1, a2}
  Task = {t1, t2}
  Stream = {i1, i2}
  Free = Free
  None = None
  MaxSessions = 1
  MaxIdle = 0
  MaxAge = 1
  MaxSources = 1
  Faults = {"second_start", "stream_failure", "request_close", "stale_cleanup", "rd_connect"}
SYMMETRY Symmetry
SPECIFICATION ResSpec
INVARIANTS ResTypeOK HandlersUndisturbed StreamsServed
CHECK_DEADLOCK FALSE
