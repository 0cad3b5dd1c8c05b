SPECIFICATION Spec
CONSTANTS
  j1 = j1
  j2 = j2
  w1 = w1
  w2 = w2
  Jobs = {j1, j2}
  MaxRetries = 1
  MaxBatch = 2
  Workers = {w1, w2}
  Handlers = {}
  Poison = {j2}
  MaxEvents = 2
  NoJob = NoJob
SYMMETRY WorkerSymmetry
INVARIANTS
  TypeOK
  NoLoss
  SingleCopy
  OneOwnerPerAttempt
  ResetIsFinal
PROPERTIES
  ImplementsAtLeastOnce
