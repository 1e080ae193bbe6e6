SPECIFICATION FairSpec
CONSTANTS
  w1 = w1
  w2 = w2
  s1 = s1
  s2 = s2
  Jobs <- OneJob
  Workers <- TwoWorkers
  Staff <- TwoStaff
  None = None
  MaxAttempts = 2
  Concurrency = 1
  MaxCrashes = 1
  MaxRetries = 2
INVARIANTS HeldOnce AttemptsLeft
PROPERTIES AtLeastOnce SettlesUnlessStranded
