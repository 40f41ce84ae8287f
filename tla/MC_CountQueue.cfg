SPECIFICATION CountFairSpec
CONSTANTS
  p1 = p1  p2 = p2  f1 = f1  f2 = f2
  Null = Null
  Products = {p1}
  Flushers <- TwoFlushers
  InitialStock = 2
  MaxAttempts = 3
  MaxSaves = 2
  MaxSales = 0
  MaxLosses = 0
  MaxCloses = 1
PROPERTIES
  EveryRecordLeaves
CHECK_DEADLOCK FALSE
