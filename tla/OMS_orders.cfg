SPECIFICATION Spec
CONSTANTS
  None = None
  Cid = {1, 2, 3}
  MaxCycle = 2
  Owner <- MCOwner
  Invalid = {3}
  Sliced = {1}
  Terms = {"full", "scaled"}
  Burst = 1
  MaxAttempts = 2
  MaxRuns = 3
INVARIANTS TypeOK EventsMatchStatus FilledIsBooked
PROPERTY ImplementsLifecycle
CHECK_DEADLOCK FALSE
