SPECIFICATION LabSpec
CHECK_DEADLOCK FALSE
CONSTANTS
  Drivers <- MCDrivers
  Adversities <- MCAdversities
  MaxAttempts = 2
INVARIANTS
  TypeOK
  RulesLeadHome
  ReadyMeansServed
  EligibleIsTarget
  RecoveryIsReal
  ControllerOfItsOwn
PROPERTIES
  EveryTrialEnds
