SPECIFICATION FairSpec
CONSTANTS
  c1 = c1  c2 = c2  c3 = c3
  Callers = {c1, c2}
  Configs <- MCConfigs
  CallbackMayThrow = TRUE
  MaxCalls = 5
INVARIANTS TypeOK TripsInTime StatsCoherent
PROPERTIES IsAGate OpenIsProbed
