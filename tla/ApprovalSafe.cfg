SPECIFICATION FairSpec
CONSTANTS
  w1 = w1
  w2 = w2
  a1 = a1
  Workloads = {w1, w2}
  MaxVersion = 2
  PushTries = 2
  Analysts = {a1}
  MaxPosts = 2
  MaxClicks = 2
  MaxEvents = 1
CHECK_DEADLOCK FALSE
INVARIANTS
  TypeOK
  OneDispatchPerCard
  RejectedStaysRejected
  NeverOlderThanShown
  LastPushWins
PROPERTIES
  EveryClickIsAnswered
