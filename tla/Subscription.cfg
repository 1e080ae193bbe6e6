SPECIFICATION FairSpec
CONSTANTS
  w1 = w1
  p1 = p1
  r1 = r1
  Workers <- OneWorker
  Replayers <- OneReplayer
  Sweeps <- OneSweep
  MaxVersion = 3
  MaxPeriod = 2
  MaxExtras = 1
INVARIANTS TypeOK EntitledUnlessHalfDone
PROPERTIES NeverCutShort Converges
CHECK_DEADLOCK FALSE
