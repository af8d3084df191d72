SPECIFICATION ServicesSpec
CONSTANTS
    Ids = {i1, i2}
    Reliable = {i1}
    Senders = {s1}
    Fields = {"active"}
    Values = {TRUE, FALSE}
    Responses = {"ok", "throws"}
    MaxRetries = 2
    MaxPending = 1
    MaxFaults = 1
    Waiters = {w1}
    Parents = {j1, j2}
    Regions = {"east", "west", "north"}
    Callers = {"c1", "c2"}
    MaxMade = 5
    Runs = {r1}
    Handlers = {h1, h2}
    Jobs = {j1, j2}
    Limit = 2
    Flows = {}
    Chains = {}
    Timeout = 2
    MaxRuns = 0
    MaxFlowPending = 0
    MaxFlowFaults = 0
    Best <- Better
    Adders = {}
    CustomIds = {}
    MaxIds = 0
    MaxCalls = 0
    MaxOutages = 2
    MaxFailovers = 2
    Names = {"mail"}
    Watched = {"started", "progress"}
    MaxAttempts = 2
    MaxChanges = 3
    Attempts = {0, 1, 3}
    Delays <- SomeDelays
    Shares = {0, 10, 100}
    Tries = {0, 1, 2, 3}
    NaN = NaN
    Undefined = Undefined
    None = None
    Nothing = Nothing
    Absent = Absent
    NoFlow = NoFlow
    NotGiven = NotGiven
INVARIANTS
    TypesOK OnlySocketsLeft ClientsCurrent OutcomeStands AllHear CountsBounded AllListed RetriesBackOff
PROPERTIES
    EveryHookTried ReadyAreReturned BestTakesOver PrimaryRecovers CallsReturn
CHECK_DEADLOCK FALSE
