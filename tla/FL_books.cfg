CONSTANTS
  Kind <- Kinds
  Lookback = 1
  Seed = 100
  MaxTrades = 3
  MaxTime = 3
SPECIFICATION Spec
INVARIANTS TypeOK BooksAgree NoFillSkipped InOrderReplay ProfitSplitOnce
