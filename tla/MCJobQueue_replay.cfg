SPECIFICATION Spec
CONSTANTS
  k1 = k1  k2 = k2  s1 = s1  s2 = s2  c1 = c1  c2 = c2
  None = None
  Keys = {k1, k2}
  Names = {"email"}
  Slots = {s1}
  Clients = {c1, c2}
  Api = {"replay", "close"}
  JobOpts <- MCNoAttempts
  DefaultOpts <- MCDefaultOpts
  Limits = {0, 1}
  AddTo = {"wait"}
  DlqEnabled = TRUE
  DlqAddMayFail = FALSE
  TelemetryFaults = {}
  IntegerIdsRejected = FALSE
  StallLimit = 1
  MaxAuto = 0
  MaxAdds = 2
  MaxDlq = 2
  MaxFaults = 1
SYMMETRY SymmetryAll
INVARIANTS EntryKeptUntilTaken NoWorkAfterClose
PROPERTY NothingLost
CHECK_DEADLOCK FALSE
