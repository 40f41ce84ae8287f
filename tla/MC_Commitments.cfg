SPECIFICATION Spec
CONSTANTS
  l1 = l1  l2 = l2  c1 = c1  c2 = c2  c3 = c3  d1 = d1  r1 = r1  r2 = r2
  NoSource = NoSource
  Line <- TwoLines
  Commitment <- TwoCommitments
  Source <- OneSource
  Request <- TwoRequests
  MaxAmount = 2
INVARIANTS
  BookExplainsLine
  NeverOverApproved
  
PROPERTY
  ImplementsBook
SYMMETRY Symmetry
CHECK_DEADLOCK FALSE
