SPECIFICATION MCFairSpec
CONSTANTS
  Bank = "bank"
  Patterns <- MCPatterns
  Entries <- MCEntries
  Instruments <- MCInstruments
  NotMerchants = {"bank", "alerts"}
  Messages <- MCMessages
  Text <- MCText
  Received <- MCReceived
  Answers <- MCAnswers
  Corrections <- MCCorrections
  Ids = {1, 2, 3}
  Capacity = 2
  MaxQuits = 1
  Models = {"gemma", "qwen"}
  Tier <- MCTier
  DefaultModel = "qwen"
  Whole = 2
  SafeSlots <- MCSafeSlots
  Calls = {1, 2}
  Transfers = {1, 2}
  MaxStarts = 2
  Payments = {1, 2}
  Written <- MCWritten
  Aggregators = {"RAZ"}
  Digits = {"4471"}
  Stopwords = {"USING", "YOUR"}
  Vowelless = {"SWGY"}
  Size <- MCSize
  Likeness <- MCLikeness
  Seeded <- MCSeeded
  ReadAs <- MCReadAs
  LaterNames <- MCLaterNames
  Method <- MCMethod
  BodyOf <- MCBodyOf
  Spans <- MCSpans
  Categories = {"food", "shopping"}
  Proposals <- MCProposals
  UserNames = {"Swiggy"}
  MaxRuns = 2
  Keys = {"k1", "k2", "k3"}
  Machines = {"mac1", "mac2"}
  NoKey = NoKey
  Retained = 1
  MaxHarm = 1
  Debits <- MCDebits
  DayOf <- MCDayOf
  CategoryOf <- MCCategoryOf
  MerchantOf <- MCMerchantOf
  AmountOf <- MCAmountOf
  NoCategory = "none"
  Global = "all"
  Limit <- MCLimit
  Levels <- MCLevels
  Statements = {"s1", "s2"}
  LinesOf <- MCLinesOf
  MonthLength = 2
  Trailing = 2
  LastDay = 2
  MaxCrashes = 1
  Cards = {"card"}
  Merchants = {"gym"}
  References = {"r1", "r2"}
  IssuerOf <- MCIssuerOf
  Unread = "none"
  Mails <- MCMails
  MinOccurrences = 3
  MaxPaid = 4
  MaxOutages = 1
  Letters <- MCLetters
  From <- MCFrom
  AuthHeaders <- MCAuthHeaders
  Subject <- MCSubject
  Snippet <- MCSnippet
  HeadOf <- MCHeadOf
  TailOf <- MCTailOf
  Reading <- MCReading
  Delivered <- MCDelivered
  Implausible = {"of"}
  OwnAccounts = {"x12"}
  Registry <- MCRegistry
  Domains <- MCDomains
  Kin <- MCKin
  UserBanks = {"other"}
  Lifetime = 1
  MaxLooks = 2
  MaxReports = 1
  LastSweep = 1
  TokenLife = 2
  GracePeriod = 2
  TrialWindow = 3
  CorrectionGrace = 1
  MaxTime = 4
  ClockSettings <- MCClockSettings
  MaxSettings = 2
  MaxRequests = 2
  MaxSlots = 1
  Parts = {"keys"}
PROPERTIES PhraseRecovers
CHECK_DEADLOCK FALSE
