SPECIFICATION ManagersSpec
CONSTANTS
    Ids = {i1}
    Fields = {"name", "quota"}
    Values = {v1, v2}
    MaxPending = 2
    MaxFaults = 1
    Principals = {p1}
    Patterns = {"orders", "mail"}
    Grants = {g1}
    Letters = {"a", "b"}
    MaxLength = 4
    Nothing = Nothing
    MaxSent = 3
    MaxRejects = 1
    KeyIds = {k1, k2}
    Materials = {m1, m2}
    Flows = {f1, f2}
    Chains = {f2}
    Regions = {"east", "west", "north"}
    Adders = {a1, a2}
    CustomIds = {x}
    Waiters = {}
    Parents = {}
    Timeout = 0
    MaxRuns = 2
    Best <- Better
    MaxIds = 4
    MaxCalls = 2
    MaxOutages = 1
    MaxFailovers = 1
    MaxKeyPending = 2
    MaxKeyFaults = 1
    MaxFlowPending = 3
    MaxFlowFaults = 1
    None = None
    NoKey = NoKey
    NoFlow = NoFlow
    NotGiven = NotGiven
INVARIANTS
    TypesOK CacheAgrees UpdatesKept ChecksAreCurrent PatternsMatch ReadBack OneActive LastCallStands
PROPERTIES
    Replicated
CHECK_DEADLOCK FALSE
