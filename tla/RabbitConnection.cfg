SPECIFICATION FairSpec
CONSTANT MaxFaults = 5
INVARIANTS TypeOK NoLeakedConnection PoolOnCurrentConnection PoolInUseRuns
PROPERTIES RecoversFromLoss MonitorEndsAfterShutdown
CHECK_DEADLOCK FALSE
