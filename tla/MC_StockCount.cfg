SPECIFICATION CountSpec
CONSTANTS
  p1 = p1  p2 = p2  f1 = f1  f2 = f2
  Null = Null
  Products = {p1, p2}
  Flushers <- MCFlushers
  InitialStock = 2
  MaxAttempts = 2
  MaxSaves = 3
  MaxSales = 1
  MaxLosses = 1
  MaxCloses = 1

  
PROPERTIES
  AppliedCountMatchesShelf
SYMMETRY Symmetry
CHECK_DEADLOCK FALSE
