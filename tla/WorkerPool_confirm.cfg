SPECIFICATION Spec
CONSTANTS
  Msgs = {m1}
  CopyIds = {1, 2, 3, 4}
  Workers = {w1, w2, w3}
  DLQWorkers = {d1}
  GroupSize = 2
  MaxRetries = 1
  PublishConfirm = TRUE
  MaxFaults = 2
  MaxStops = 1
  NoCopy = NoCopy
SYMMETRY WorkerSymmetry
INVARIANTS TypeOK NoLoss DeadLetterJustified OnceWithoutFaults
PROPERTY ImplementsAtLeastOnce
CHECK_DEADLOCK FALSE
