SPECIFICATION Spec
CONSTANTS
  a = a
  b = b
  c = c
  d = d
  Requests = {a, b, c, d}
  Hash <- MCHash
  PendingTimeout = 1
  TTL = 2
  MaxTime = 3
  MaxFaults = 2
  NoRow = NoRow
INVARIANTS TypeOK SentOnceWhenRecorded ReplayFaithfulWhenRecorded
SYMMETRY Symmetry
CHECK_DEADLOCK FALSE
