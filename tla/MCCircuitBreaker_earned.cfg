SPECIFICATION Spec
CONSTANTS
  c1 = c1  c2 = c2  c3 = c3
  Callers = {c1, c2}
  Configs <- MCConfigs
  CallbackMayThrow = FALSE
  MaxCalls = 5
PROPERTY EarnedClose
