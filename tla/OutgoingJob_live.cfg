SPECIFICATION JobFairSpec
CONSTANTS
  Msgs = {m1}
  CopyIds = {1, 2, 3}
  Workers = {w1}
  DLQWorkers = {d1}
  GroupSize = 1
  MaxRetries = 1
  PublishConfirm = FALSE
  MaxFaults = 1
  MaxStops = 1
  NoCopy = NoCopy
  Hiccups = {"lost"}
PROPERTY EventuallySettled
CHECK_DEADLOCK FALSE
