SPECIFICATION TreasurySpec
CONSTANTS
  a1 = a1  a2 = a2  t1 = t1  t2 = t2  t3 = t3  k1 = k1  k2 = k2
  s1 = s1  s2 = s2  r1 = r1  r2 = r2
  NoTransaction = NoTransaction
  Account <- TwoAccounts
  Transaction <- TwoTransactions
  Reconciliation <- TwoReconciliations
  StatementLine <- TwoLines
  Request <- TwoRequests
  Day <- OneDay
  MatchWindow = 0
  Balance <- OneBalance
  MaxAmount = 1
  MaxCollected = 1
INVARIANTS
  BalanceExplained
  MatchesAreSound
  
SYMMETRY Symmetry
CHECK_DEADLOCK FALSE
