CONSTANTS
  o1 = o1
  o2 = o2
  OldId = {o1, o2}
  New = New
  MaxNew = 3
SPECIFICATION Spec
INVARIANTS TypeOK   ConfirmedTxPlaced
SYMMETRY OldIds
