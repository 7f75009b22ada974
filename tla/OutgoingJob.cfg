SPECIFICATION JobSpec
CONSTANTS
  Msgs = {m1}
  CopyIds = {1, 2, 3}
  Workers = {w1, w2}
  DLQWorkers = {d1}
  GroupSize = 1
  MaxRetries = 1
  PublishConfirm = TRUE
  MaxFaults = 1
  MaxStops = 0
  NoCopy = NoCopy
  Hiccups = {"db", "reply", "confirm"}
SYMMETRY WorkerSymmetry
INVARIANTS JobTypeOK SendsAccountedFor NoSilentFailure
PROPERTY CompletedStays
CHECK_DEADLOCK FALSE
