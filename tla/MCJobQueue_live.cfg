SPECIFICATION FairSpec
CONSTANTS
  k1 = k1  k2 = k2  s1 = s1  s2 = s2  c1 = c1  c2 = c2
  None = None
  Keys = {k1}
  Names = {"email", "sms"}
  Slots = {s1, s2}
  Clients = {c1}
  Api = {"replay", "close"}
  JobOpts <- MCOneOrTwo
  DefaultOpts <- MCDefaultOpts
  AddTo = {"delayed"}
  Limits = {1}
  DlqEnabled = TRUE
  DlqAddMayFail = TRUE
  TelemetryFaults = {"started"}
  IntegerIdsRejected = FALSE
  StallLimit = 0
  MaxAuto = 1
  MaxAdds = 1
  MaxDlq = 1
  MaxFaults = 1
INVARIANT OnceWithoutFaults
PROPERTIES JobsSettle CloseReturns
CHECK_DEADLOCK FALSE
