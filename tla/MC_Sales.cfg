SPECIFICATION SalesSpec
CONSTANTS
  s1 = s1  b1 = b1  b2 = b2  r1 = r1  r2 = r2
  NoBox = NoBox
  SaleIds = {s1}
  Boxes <- MCBoxes
  Requests <- MCRequests
  Quantity = 2
  InitialStock = 2
  TenderLists <- MCTenderLists
  CollectMethods = {"CASH"}
  CollectBoxes <- MCCollectBoxes
  RefundTargets <- MCRefundTargets
  MaxCancels = 1
INVARIANTS
  CounterNeverOverpaid
  ReceivableIsDebt
  PaidIsCovered
  DrawerHoldsItsPayments
SYMMETRY Symmetry
CHECK_DEADLOCK FALSE
