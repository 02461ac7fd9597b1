SPECIFICATION FairSpec
CONSTANTS
    pp = pp
    alerts = alerts
    Sources = {pp, alerts}
    PulsePoint = pp
    Releases <- MCReleases
    Interval <- MCInterval
    TimeoutSeconds <- MCTimeoutSeconds
    PollMax <- MCPollMax
    RetryCount = 2
    MaxStall = 1
INVARIANT OnlyConfiguredShown
INVARIANT HeartbeatHolds
INVARIANT PaceFollowsAnswer
PROPERTY PollsRecur
