SPECIFICATION Spec
CONSTANT MaxFaults = 3
INVARIANT ReconnectNeverPanics
CHECK_DEADLOCK FALSE
