SPECIFICATION MCSpec
CONSTANTS
  None = None
  Entries = {"e1", "e2"}
  Messages = {"m1", "m2"}
  Message <- OneMessage
  Scanned = {"m1"}
  Outcomes = {"extracted", "rejected", "not_a_transaction", "failed"}
  MaxSaves = 1
  MaxFaults = 1
INVARIANTS EnrichedOnce ResolvedIsBacked
PROPERTIES OutcomeIsFinal DurableUntilCommitted CalmConverges
CHECK_DEADLOCK FALSE
