SPECIFICATION Spec
CONSTANTS
  k1 = k1  k2 = k2  s1 = s1  s2 = s2  c1 = c1  c2 = c2
  None = None
  Keys = {k1}
  Names = {"email"}
  Slots = {s1}
  Clients = {c1}
  Api = {}
  JobOpts <- MCTwoAttempts
  DefaultOpts <- MCDefaultOpts
  AddTo = {"wait"}
  Limits = {0}
  DlqEnabled = TRUE
  DlqAddMayFail = FALSE
  TelemetryFaults = {}
  IntegerIdsRejected = FALSE
  StallLimit = 1
  MaxAuto = 0
  MaxAdds = 1
  MaxDlq = 1
  MaxFaults = 0
INVARIANT ExhaustedReachesDLQ
CHECK_DEADLOCK FALSE
