SPECIFICATION ServicesSpec
CONSTANTS
  Cpus = {0, 50, 100}
  Mems = {40, 100}
  Restarts = {9, 10}
  Percents = {19, 20, 79, 80}
  Counts = {1}
  Askers = {r1, r2}
  Keys = {k1}
  TTL = 3
  Timeout = 1
  MaxTime = 6
  Nothing = Nothing
  Processes = {p1, p2}
  MaxRows = 3
  MaxTrouble = 2
  Forms = {f1, f2}
  Names = {n1, n2}
  Passwords = {w1, w2}
  AccountIds = {1, 2}
  NoId = 0
  Tabs = {t1, t2}
  Labels = {l1, l2}
  NoLabel = NoLabel
  Targets = {x, Self}
  Self = Self
  Calls = {c1, c2}
  WriterPods = {q1}
  Uuids = {u1, u2}
  MaxAmount = 2
  Opening = 2
  Uncached = Uncached
  Nowhere = Nowhere
  Scripts = {s1, s2}
  Objects = 2
  MaxFaults = 1
  Containers = {y1, y2}
  Absent = Absent
  Facts <- SomeFacts
  Troubles <- SomeTroubles
  Https <- SomeHttps
  Inputs = {i1}
CHECK_DEADLOCK FALSE
INVARIANTS
  TypesOK
  WithheldIsKept
  CutIsBounded
  TwoAlarmsFail
  BlindFails
  AnswersAreFresh
  EnsuredOrSpoiled
  AccountPerName
  DuplicatesNeedOverlap
  BookedAfterContact
  AcknowledgedOnce
  ExactWhenCaughtUp
  OverdrawnOnlyByRace
  RedirectsEnd
  RestoredExactly
  PausedWhileTesting
  PassIsBacked
  PassAgrees
