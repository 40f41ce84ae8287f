SPECIFICATION Spec
CONSTANTS
  w1 = w1  p1 = p1  out = out  in = in
  a1 = a1  a2 = a2  b = b  r1 = r1  r2 = r2
  Warehouses = {w1}
  Products = {p1}
  Documents = {out, in}
  Lines <- MCLines
  Requests = {r1, r2}
  DocumentOf <- MCDocumentOf
  ProductOf <- MCProductOf
  QuantityOf <- MCQuantityOf
  PriceOf <- MCPriceOf
  Direction <- MCDirection
  WarehouseOf <- MCWarehouseOf
  Scale = 2
  UnitCosts <- MCUnitCosts
  MaxQty = 3
INVARIANTS
  
  
  ClosedHasNothingOpen
  LastMoveCloses
SYMMETRY Symmetry
