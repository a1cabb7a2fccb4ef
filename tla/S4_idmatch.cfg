CONSTANTS
  i1 = i1
  i2 = i2
  s1 = s1
  s2 = s2
  Symbol = {s1, s2}
  Id = {i1, i2}
  SymOf <- TwoSymbols
  Stranger = Stranger
  NoName = NoName
  AliasOf <- Hashed
  Threshold = 1
  PersistCycles = 3
  FreezeAll = FALSE
  MaxOrders = 2
SPECIFICATION Spec
INVARIANT ClosedRowsAreMissing
