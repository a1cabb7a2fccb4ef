CONSTANTS
  i1 = i1
  i2 = i2
  s1 = s1
  s2 = s2
  Symbol = {s1}
  Id = {i1, i2}
  SymOf <- OneSymbol
  Stranger = Stranger
  NoName = NoName
  AliasOf <- Mixed
  Threshold = 1
  PersistCycles = 1
  FreezeAll = TRUE
  MaxOrders = 2
SPECIFICATION Spec
INVARIANTS TypeOK NoSubmitOverVisible NoSubmitOverOwnOrder RowNamesOwnOrder
