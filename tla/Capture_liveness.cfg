SPECIFICATION FairSpec
CONSTANTS
  Output = {o1}
  Stream = {n1}
  Shot = {s1}
  Region = {r1}
  Format = {argb}
  Preferred = argb
  Protocols = {"ext", "v2", "v3"}
  Pacing = {TRUE, FALSE}
  MaxBoxes = 1
  MaxMishaps = 1
  MaxQueue = 1
  Faults = {"failed", "resize", "silent", "unplug"}
  None = None
PROPERTIES ScreenshotAnswered ChangesReachConsumer
CHECK_DEADLOCK FALSE
