SPECIFICATION Spec
CONSTANTS
  Callers = {"c1"}
  Api = {"replayDLQ"}
  Limits = {0, 1}
  DlqEnabled = TRUE
  MaxIds = 4
INVARIANT ReplayRemovesTheReplayed
CHECK_DEADLOCK FALSE
