SPECIFICATION Spec
CONSTANTS
  w1 = w1
  p1 = p1
  r1 = r1
  Workers <- OneWorker
  Replayers <- Nobody
  Sweeps <- Nobody
  MaxVersion = 2
  MaxPeriod = 1
  MaxExtras = 1
INVARIANT EntitledIsLicensed
CHECK_DEADLOCK FALSE
