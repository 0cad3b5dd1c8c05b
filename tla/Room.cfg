SPECIFICATION MCSpec
CONSTANTS
  t1 = t1
  t2 = t2
  poll1 = poll1
  poll2 = poll2
  reload2 = reload2
  p1 = p1
  Tokens = {t1, t2}
  Requests = {poll1, poll2, reload2}
  TokenOf <- PollAndReload
  Threads = 2
  Pods = {p1}
  SlotsPerPod = 1
  Unsteady = {t1}
  MaxEvents = 1
INVARIANTS
  TypeOK
  OvershootBounded
PROPERTIES
  SeatOrPlace
  AdmittedFromTheFront
  EveryPollerEnters
