SPECIFICATION Spec
CONSTANTS
  o1 = o1  o2 = o2  r1 = r1  r2 = r2
  NoRef = NoRef
  Orders <- TwoOrders
  Total <- MCTotal
  Requests <- MCRequests
  MaxPayments = 2
  MaxConfirms = 1
INVARIANTS
  PaidIsCaptured
SYMMETRY Symmetry
CHECK_DEADLOCK FALSE
