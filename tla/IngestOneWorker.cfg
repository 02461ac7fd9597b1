SPECIFICATION Spec
CONSTANTS
    Workers = {w1}
    Records = {r1, r2}
    Lifetimes <- MCLifetimes
    Requests = 1
    Phases = 1
    LocalMax = 0
    Timeout = 1
    RetryCount = 1
    Backoff = 1
    DbMax = 0
    MinLock = 1
    Threshold = 2
    Cooldown = 2
    Conditions = {"ok", "rejecting", "faulty"}
    NoWorker = NoWorker
INVARIANT RecordsMatchStatus
INVARIANT LabelsUniform
INVARIANT LkgFlagSound
PROPERTY KeepsLastKnownGood
