SPECIFICATION MCSpec
CONSTANTS
  None = None
  Day = 10
  Tolerance = 1
  References <- MCReferences
  Merchants <- MCMerchants
  PartOf = {}
  Normal <- MCNormal
  Similarity <- MCSimilarity
  Observations <- MCObservations
  Evidence <- MCEvidence
  Records = {"m1", "m2", "m3", "u1", "s1", "s2"}
  Instruments = {"card"}
  Amounts = {500}
  Fingerprints = {"f1", "f2", "f3"}
  MaxCorrections = 0
  MaxReviews = 3
  MaxCrashes = 0
  Scenarios <- ReviewScenarios
INVARIANTS RejectedEvidenceIsRecorded
CHECK_DEADLOCK FALSE
