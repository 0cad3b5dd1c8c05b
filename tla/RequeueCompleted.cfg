SPECIFICATION Spec
CONSTANTS
  j1 = j1
  w1 = w1
  w2 = w2
  Jobs = {j1}
  MaxRetries = 1
  MaxBatch = 1
  Workers = {w1, w2}
  Handlers = {}
  Poison = {}
  MaxEvents = 1
  NoJob = NoJob
PROPERTIES
  CompletedNotRequeued
