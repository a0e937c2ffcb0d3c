CONSTANTS
  locked = locked  open = open  vague = vague
  c1 = c1  k1 = k1  noCycle = noCycle  noKey = noKey
  NoCycle = noCycle  NoKey = noKey
  Files = {locked, open, vague}  Mailed = {locked, vague}
  Headless = {vague}  Named = {locked}
  Cycle <- MCCycle  Key <- MCKey  Selections <- MCSelections
  Rows = 2
  BatchThreshold = 1
  QueueCapacity = 1
  Parsers = 2
  MaxIds = 2
  MaxTasks = 4
  MaxSelections = 1
  MaxMishaps = 1
SPECIFICATION MCSpec
INVARIANTS StatementAccountedFor PendingDraftKeepsPdf CommittedIsComplete EnteredOnce
PROPERTIES QueueDrains
CHECK_DEADLOCK FALSE
