SPECIFICATION Spec
CONSTANTS
  Output = {o1}
  Stream = {n1}
  Shot = {s1}
  Region = {r1, r2}
  Format = {argb, other}
  Preferred = argb
  Protocols = {"ext", "v1", "v2", "v3"}
  Pacing = {TRUE, FALSE}
  MaxBoxes = 1
  MaxMishaps = 1
  MaxQueue = 1
  Faults = {"failed", "resize", "silent", "unplug", "no_node", "pw_stop"}
  None = None
SYMMETRY RegionSymmetry
INVARIANTS TypeOK NoProtocolError NothingMissed CapturesAccounted
CHECK_DEADLOCK FALSE
