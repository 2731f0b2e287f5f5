SPECIFICATION FairSpec
CONSTANTS
  Keys = {k1}
  Conns = {c1, c2}
  NoConn = none
  MaxToolCalls = 2
  MaxBlocks = 2
  Triggers = {"RISK_SEQUENCE", "CANARY"}
  Threshold <- MCThreshold
  MaxConnects = 2
  MaxMessages = 2
  MaxKillAlls = 1
INVARIANTS RegistryCovers 
PROPERTIES CapCloses RevokedScopesFade
CHECK_DEADLOCK FALSE
