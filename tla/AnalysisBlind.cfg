SPECIFICATION AnalysisSpec
CONSTANTS
  Cpus = {0, 50, 100}
  Mems = {0, 100}
  Restarts = {10}
  Percents = {80}
  Counts = {1}
CHECK_DEADLOCK FALSE
INVARIANT SilenceFails
