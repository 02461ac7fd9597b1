SPECIFICATION FairSpec
CONSTANTS
    Workers = {w1, w2}
    Records = {r1}
    Lifetimes <- MCForever
    Requests = 1
    Phases = 1
    LocalMax = 1
    Timeout = 3
    RetryCount = 1
    Backoff = 0
    DbMax = 0
    MinLock = 1
    Threshold = 2
    Cooldown = 2
    Conditions = {"ok", "rejecting", "malformed", "faulty"}
    NoWorker = NoWorker
INVARIANT MutualExclusion
INVARIANT PreviousIsCurrent
INVARIANT OpenMeansQuiet
PROPERTY SuccessRemembered
PROPERTY Recovery
PROPERTY Degradation
