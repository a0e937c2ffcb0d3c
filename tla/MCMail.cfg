SPECIFICATION MCSpec
CONSTANTS
  None = None
  NoScan = NoScan
  MaxMail = 2
  Kind <- Mixed
  Capacity = 1
  Pollers = {"loop", "forced"}
  Scanners = {"s1", "s2"}
  MaxFetches = 2
  Interval = 2
  MaxLogged = 1
  MaxCrashes = 0
  Scenarios <- Pairs
INVARIANTS TypeOK BookedOnce OneScan PollingKeepsUp
PROPERTIES UninterruptedScanCovers
CHECK_DEADLOCK FALSE
