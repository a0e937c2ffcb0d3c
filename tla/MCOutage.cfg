SPECIFICATION LicenceSpec
CONSTANTS
  TokenLife = 2
  GracePeriod = 3
  TrialWindow = 4
  CorrectionGrace = 1
  MaxTime = 6
  ClockSettings <- MCClockSettings
  MaxSettings = 0
  MaxRequests = 2
PROPERTIES OutageNeverLocks
CHECK_DEADLOCK FALSE
