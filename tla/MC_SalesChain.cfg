SPECIFICATION Spec
CONSTANTS
  q1 = q1  o1 = o1  o2 = o2  s1 = s1  s2 = s2  i1 = i1  i2 = i2  r1 = r1  r2 = r2  r3 = r3
  NoQuotation = NoQuotation
  NoSale = NoSale
  Quotation <- OneQuotation
  Order <- OneOrder
  Sale <- TwoSales
  Item <- TwoItems
  Request <- ThreeRequests
  MaxQty = 1
  MaxShipments = 3
INVARIANTS
  ShippedIsSent
  
PROPERTY
  InvoicedIsKept
SYMMETRY Symmetry
CHECK_DEADLOCK FALSE
