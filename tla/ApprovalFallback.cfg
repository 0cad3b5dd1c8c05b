SPECIFICATION Spec
CONSTANTS
  w1 = w1
  a1 = a1
  Workloads = {w1}
  MaxVersion = 2
  PushTries = 2
  Analysts = {a1}
  MaxPosts = 2
  MaxClicks = 2
  MaxEvents = 0
CHECK_DEADLOCK FALSE
PROPERTIES
  LatestPassIsApplied
