SPECIFICATION JobSpec
CONSTANTS
  Msgs = {m1}
  CopyIds = {1, 2, 3}
  Workers = {w1, w2}
  DLQWorkers = {d1}
  GroupSize = 1
  MaxRetries = 1
  PublishConfirm = TRUE
  MaxFaults = 0
  MaxStops = 0
  NoCopy = NoCopy
  Hiccups = {}
INVARIANT RowKnowsOutcome
CHECK_DEADLOCK FALSE
