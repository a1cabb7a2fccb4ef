CONSTANTS
  p1 = p1
  p2 = p2
  Nobody = Nobody
  Payload = {p1}
  CycleKeys = FALSE
  MaxCycles = 0
  MaxOrders = 2
  MaxCalls = 2
  MaxAttempts = 2
  MaxRules = 1
  Closings = {"filled"}
  DryModes <- DryFirst
  GraceAge = 1
  ExpiryAge = 2
  MaxRecovery = 2
  ReconcileAge = 1
  RefreshAge = 1
  LookbackAge = 1
SPECIFICATION Spec
INVARIANTS TypeOK SubmitCallsBounded OneOrderPerKey 
 
