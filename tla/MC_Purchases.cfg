SPECIFICATION FairSpec
CONSTANTS
  k1 = k1  k2 = k2  r1 = r1  r2 = r2
  Free = Free
  Keys = {k1, k2}
  ReceivedAtOnce = {k1}
  Requests <- TwoRequests
  MaxPurchases = 2
  MaxFailures = 2
  MaxCrashes = 1
INVARIANTS
  TypeOK
  AnswersAgree
  GoodsComeInOnce
PROPERTIES
  KeyIsSettled
CHECK_DEADLOCK FALSE
