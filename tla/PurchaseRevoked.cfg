SPECIFICATION Spec
CONSTANTS
  w1 = w1
  w2 = w2
  r1 = r1
  s1 = s1
  Events <- AllKinds
  Workers <- TwoWorkers
  Replayers <- Nobody
  Staff <- Nobody
  MaxAttempts = 2
  MaxFailures = 0
  MaxByHand = 0
PROPERTIES RevokedStaysRevoked
CHECK_DEADLOCK FALSE
