CONSTANTS
  p1 = p1
  p2 = p2
  Nobody = Nobody
  Payload = {p1}
  CycleKeys = FALSE
  MaxCycles = 0
  MaxOrders = 2
  MaxCalls = 1
  MaxAttempts = 1
  MaxRules = 0
  Closings = {"filled"}
  DryModes <- LiveOnly
  GraceAge = 1
  ExpiryAge = 9
  MaxRecovery = 1
  ReconcileAge = 1
  RefreshAge = 1
  LookbackAge = 1
SPECIFICATION Spec
INVARIANT CommittedWasSubmitted
