CONSTANTS
  NoPid = NoPid
  Pid = {1, 2}
  TTL = 1
  MaxErrors = 2
  Configs <- MCConfigs
  StrictStart = TRUE
  MaxStarts = 2
  CanaryCycles = 2
  RecheckEvery = 1
  MaxCrashes = 1
  UnlinkOwn = TRUE
SPECIFICATION Spec
INVARIANTS TypeOK   KillNeedsChain
PROPERTIES KillQuietsTrading TraderComesBack
