CONSTANTS
    MinPeriod = 30
    Margin = 6
    Part = 10
    Slack = 15
    Longest = 900
    RetryWait = 120
    ReleaseAge = 75
    DeletionGap = 60
    TimerF = 32
    Requested = {300}
    Granted = {300}
    MinExpires = 60
    MaxRequests = 0
    MaxLosses = 1
SPECIFICATION Spec
INVARIANT RefreshedInTime
