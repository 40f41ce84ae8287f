SPECIFICATION Spec
CONSTANTS
  w1 = w1  w2 = w2  p1 = p1  r1 = r1  r2 = r2
  Warehouses <- MCWarehouses
  Products <- MCProducts
  TransferRequests <- MCRequests
  UnitCosts <- MCUnitCosts
  MaxQty = 2
INVARIANTS
  TypeOK
  KardexExplainsStock
  TransfersConserveGoods
  AvgCostWithinPaid
SYMMETRY Symmetry
CHECK_DEADLOCK FALSE
