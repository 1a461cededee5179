SPECIFICATION LabSpec
CHECK_DEADLOCK FALSE
CONSTANTS
  Drivers <- OnlyLatency
  Adversities <- AllWell
  MaxAttempts = 2
INVARIANT
  TimedPingIsCaptured
