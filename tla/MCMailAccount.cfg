SPECIFICATION AllSpec
CONSTANTS
  None = None
  NoScan = NoScan
  MaxMail = 2
  Kind <- Mixed
  Capacity = 1
  Pollers = {}
  Scanners = {"s1"}
  MaxFetches = 2
  Interval = 1
  MaxLogged = 1
  MaxCrashes = 1
  Scenarios <- Everyone
  Accounts = {"a"}
  Watchers = {"poll", "sync"}
  Loop = "poll"
  Flows = {1}
  AccountLimit = 1
  Renewals = 1
  MaxGrants = 2
PROPERTIES ScanEnds LostAccessIsReported
CHECK_DEADLOCK FALSE
