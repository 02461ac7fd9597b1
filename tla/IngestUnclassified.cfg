SPECIFICATION Spec
CONSTANTS
    Workers = {w1}
    Records = {r1}
    Lifetimes <- MCForever
    Requests = 1
    Phases = 1
    LocalMax = 0
    Timeout = 1
    RetryCount = 1
    Backoff = 1
    DbMax = 0
    MinLock = 1
    Threshold = 2
    Cooldown = 2
    Conditions = {"ok", "malformed"}
    NoWorker = NoWorker
PROPERTY FailedPollMarksStale
