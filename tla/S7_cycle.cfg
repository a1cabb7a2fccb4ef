CONSTANTS
    Symbols = 5
    WarnThreshold = 2
    RejectThreshold = 1
    StallThreshold = 2
    WarnCodes <- MCWarn
    MaxDrawdown = 3
    MaxGross = 3
    MaxPositionPct = 60
    MinQty = 2
    Lot = 2
    Loads <- MCLoads
    Inputs <- MCInputs
    Settings <- MCSettings
    Window = 3
    SafeWindow = 2
    RiskCooldown = 1
    DrawdownLimit = 25
    Seed <- MCSeed
    MaxVersion = 3
SPECIFICATION Spec
INVARIANTS TroubledCyclesDoNotBuy PlanWithinLimits CheckpointsAgree
PROPERTIES LevelFallsLate DegradeRecovers
CHECK_DEADLOCK FALSE
