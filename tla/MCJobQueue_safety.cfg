SPECIFICATION Spec
CONSTANTS
  k1 = k1  k2 = k2  s1 = s1  s2 = s2  c1 = c1  c2 = c2
  None = None
  Keys = {k1}
  Names = {"email"}
  Slots = {s1, s2}
  Clients = {c1}
  Api = {"retry", "bulk", "remove", "replay", "clear", "drain", "pause", "close"}
  JobOpts <- MCJobOpts
  DefaultOpts <- MCDefaultOpts
  Limits = {0}
  AddTo = {"wait"}
  DlqEnabled = TRUE
  DlqAddMayFail = FALSE
  TelemetryFaults = {"completed"}
  IntegerIdsRejected = FALSE
  StallLimit = 1
  MaxAuto = 0
  MaxAdds = 1
  MaxDlq = 1
  MaxFaults = 1
SYMMETRY Symmetry
INVARIANTS TypeOK DlqEventTrue
PROPERTY NothingLost
CHECK_DEADLOCK FALSE
