SPECIFICATION Spec
CONSTANTS
  cash = cash  retained = retained  revenue = revenue  expense = expense
  d1 = d1  t1 = t1  t2 = t2
  Permanent <- MCPermanent
  Temporary <- MCTemporary
  RetainedEarnings = retained
  Documents <- MCDocuments
  DocumentLines <- MCDocumentLines
  Years = {1, 2}
  Txs <- MCTxs
  MaxEntries = 3
INVARIANTS
  OneLiveEntryPerSource
  ReversalsMirror
  BalancesFollowJournal
  ClosingEntrySettlesYear
  NothingAfterClosing

  
SYMMETRY Symmetry
CHECK_DEADLOCK FALSE
