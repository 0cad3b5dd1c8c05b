SPECIFICATION Spec
CONSTANTS
  t1 = t1
  t2 = t2
  a = a
  b = b
  Targets = {t1, t2}
  Primary = t1
  Requests = {a, b}
  Ttl = 1
  Interval = 1
  MinReplicas = 1
  MaxReplicas = 1
  MaxDemand = 2
  MaxTime = 2
  MaxRestarts = 1
CHECK_DEADLOCK FALSE
INVARIANTS
  TypeOK
  OnlyFreshIsServed
  GaugesFollowState
