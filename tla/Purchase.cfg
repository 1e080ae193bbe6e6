SPECIFICATION FairSpec
CONSTANTS
  w1 = w1
  w2 = w2
  r1 = r1
  s1 = s1
  Events <- AllKinds
  Workers <- OneWorker
  Replayers <- OneReplayer
  Staff <- OneStaff
  MaxAttempts = 2
  MaxFailures = 1
  MaxByHand = 1
INVARIANTS ProcessedIsApplied FullRefundIsOnTheBooks
PROPERTIES ReceivedIsSettled
CHECK_DEADLOCK FALSE
