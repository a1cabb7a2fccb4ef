CONSTANTS
  t1 = t1
  t2 = t2
  Thread = {t1, t2}
  Workload <- Programs
  Key = {1}
  Nobody = Nobody
  Absent = Absent
  Burst = 1
  Rate = 1
  Attempts = 2
  BaseDelay = 1
  MaxDelay = 1
  SleepCap = 1
  RetryAfter <- NoneOrOne
  Penalty = 1
  Trip = 2
  BreakerCooldown = 2
  ClientTTL = 2
  JoinTimeout = 1
  OrderbookTTL = 1
  MaxStale = 2
  MaxAge = 1
  RulesRequired = TRUE
SPECIFICATION Spec
INVARIANTS TypeOK WithinBudget  FreshBidsAreRecent
PROPERTY EveryCallReturns
