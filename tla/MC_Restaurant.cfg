SPECIFICATION RestaurantSpec
CONSTANTS
  o1 = o1  o2 = o2  t1 = t1  i1 = i1  i2 = i2  r1 = r1  r2 = r2  s1 = s1  s2 = s2
  NoShift = NoShift
  RestaurantOrders <- OneOrder
  Tables <- MCTables
  Slots <- OneSlot
  Calls <- TwoRequests
  Shifts <- TwoShifts
  Marks <- SomeMarks
  TableMarks <- FreedTable
  Services <- NoService
  SelfService = 1
  Cap = 1
  LedgerOn = TRUE
INVARIANTS
  
  
  
  OccupiedTableIsExplained
SYMMETRY Symmetry
CHECK_DEADLOCK FALSE
