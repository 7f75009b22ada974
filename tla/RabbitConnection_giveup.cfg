SPECIFICATION Spec
CONSTANT MaxFaults = 2
INVARIANT MonitorEndsOnlyByShutdown
CHECK_DEADLOCK FALSE
